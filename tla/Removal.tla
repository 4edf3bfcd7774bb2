------------------------------- MODULE Removal -------------------------------
(***************************************************************************)
(* Receipts and removal (installer/receipts.py, installer/uninstall.py,    *)
(* remove_tool of installer/app.py): the life of one tool's artifacts and  *)
(* of the receipt that proves them, while vendor updaters and the user     *)
(* change the same paths, refresh passes adopt and retire receipts, calls  *)
(* fail and the process is killed.                                         *)
(*                                                                         *)
(* A tool has at most one artifact of each type, so a type stands for its  *)
(* path.  What is at a path is the release that was put there, or foreign  *)
(* bytes: "user" can be told by a stat, "sly" has the recorded size and    *)
(* time, "part" is what a failed delete left.  A link's content is its     *)
(* target: a release's member, or some other place ("user").               *)
(***************************************************************************)
EXTENDS Naturals, Sequences

CONSTANTS Releases,     \* the releases an installer run can place
          None,         \* Python's None: no receipt
          MaxSwaps,     \* bound: changes made by others
          MaxInstalls   \* bound: installer runs

Types    == {"dir", "link", "file", "tree", "leaf"}
Content  == Releases \cup {"gone", "user", "sly", "part"}
Receipts == [what : UNION {[S -> Content \ {"gone"}] : S \in SUBSET Types},
             hooks : BOOLEAN, adopted : BOOLEAN]

ASSUME RemovalAssumption ==
  /\ Releases \cap {"gone", "user", "sly", "part", "nothing"} = {}
  /\ None \notin Releases \cup Receipts
  /\ MaxSwaps \in Nat /\ MaxInstalls \in Nat

VARIABLES
  tool,        \* [kind, retired]: retired is a tool the catalog no longer has
  disk,        \* what is at the path of each artifact type
  pkg,         \* a manager kind: the package is installed
  registered,  \* the tool's hook is registered with an agent host
  receipt,     \* the receipt, or None
  held,        \* what the quarantine sibling of the running removal holds
  strays,      \* what earlier removals left in siblings
  pc,          \* where remove_tool is
  shown,       \* the plan the user was shown
  proof,       \* remove_proven: the fingerprints that authorize a delete
  todo,        \* remove_paths: the artifacts still to work
  done,        \* the artifacts this run deleted
  result,      \* how the last removal ended
  ins,         \* the installer's run: [pc, pre, claim]
  seen,        \* a pass's adoption: the digest it compared, or None
  left         \* [swaps, installs] still allowed

run    == <<held, strays, pc, shown, proof, todo, done, result>>
others == <<ins, seen, left>>
vars   == <<tool, disk, pkg, registered, receipt, run, others>>

ArtifactPaths ==
  [archive |-> {"dir", "link"}, raw |-> {"file"}, script |-> {"tree", "leaf"}, manager |-> {}]
Artifacts == ArtifactPaths[tool.kind]
Exists(t) == disk[t] # "gone"
NoProof   == [t \in {} |-> "gone"]

\* is_still_proven: the link resolves to a file inside the tool's own opt dir.
StillProven == disk["link"] \in Releases /\ disk["dir"] \notin {"gone", "part"}

\* matches: a tree or leaf by type alone, a link by its target, bytes otherwise;
\* without a re-hash an unchanged stat is believed.
Matches(t, found, wanted, rehash) ==
  /\ found # "gone"
  /\ \/ t \in {"tree", "leaf"} \/ found = wanted
     \/ t \in {"dir", "file"} /\ ~rehash /\ found = "sly"

Drifted(rehash) ==
  \E t \in DOMAIN receipt.what : ~Matches(t, disk[t], receipt.what[t], rehash)

AllGone == DOMAIN receipt.what # {} /\ \A t \in DOMAIN receipt.what : ~Exists(t)

-----------------------------------------------------------------------------
(***************************************************************************)
(* plan_removal and removal_plan.                                          *)
(***************************************************************************)
\* What install itself would place there; for a retired tool, by its shape.
Authorized ==
  IF ~tool.retired THEN Artifacts
  ELSE {"link", "file"} \cup (IF "link" \in DOMAIN receipt.what THEN {"dir"} ELSE {})

Proven(rehash) ==
  IF receipt # None
    THEN IF Drifted(rehash) THEN NoProof
         ELSE [t \in DOMAIN receipt.what \cap Authorized |-> receipt.what[t]]
    ELSE IF tool.kind = "archive" /\ ~tool.retired /\ StillProven
         THEN [t \in {"dir", "link"} |-> disk[t]] ELSE NoProof

Plan(rehash) ==
  LET removable == DOMAIN Proven(rehash)
      named == IF ~tool.retired THEN Artifacts
               ELSE IF receipt = None THEN {} ELSE DOMAIN receipt.what
      yourself == {t \in named \ removable : Exists(t)}
      command == tool.kind = "manager" /\ receipt # None /\ ~tool.retired
  IN  [removable |-> removable, yourself |-> yourself, command |-> command,
       level |-> IF command THEN "manager"
                 ELSE IF removable # {} THEN "artifacts"
                 ELSE IF tool.retired /\ receipt # None /\ yourself = {} THEN "receipt"
                 ELSE "none",
       undo |-> /\ receipt # None /\ ~tool.retired /\ receipt.hooks
                /\ removable \cap {"link", "leaf", "file"} # {}]

NoPlan == [removable |-> {}, yourself |-> {}, command |-> FALSE, level |-> "none", undo |-> FALSE]

\* The order the previewed paths are in: the receipt's, or the layout proof's.
One(t, types) == IF t \in types THEN <<t>> ELSE <<>>

Order(types) ==
  (IF receipt # None THEN One("dir", types) \o One("link", types)
                     ELSE One("link", types) \o One("dir", types))
  \o One("file", types) \o One("tree", types) \o One("leaf", types)

Ended(how) == pc' = "idle" /\ result' = how

-----------------------------------------------------------------------------
(***************************************************************************)
(* remove_tool.                                                            *)
(***************************************************************************)
Preview ==
  /\ pc = "idle" /\ ins.pc = "idle"
  /\ Plan(FALSE).level # "none"
  /\ shown' = Plan(FALSE) /\ pc' = "confirm"
  /\ proof' = NoProof /\ todo' = <<>> /\ done' = {} /\ result' = "none"
  /\ UNCHANGED <<tool, disk, pkg, registered, receipt, held, strays, others>>

Decline ==
  /\ pc = "confirm" /\ Ended("none")
  /\ UNCHANGED <<tool, disk, pkg, registered, receipt, held, strays, shown, proof, todo, done,
                 others>>

\* The plan made again after the confirm is no longer the plan that was shown.
Changed(fresh) ==
  \/ ~(shown.removable \subseteq fresh.removable \cup fresh.yourself)
  \/ shown.command /\ ~(shown.removable \subseteq fresh.removable)
  \/ ~(fresh.removable \subseteq shown.removable)
  \/ fresh.command # shown.command \/ fresh.undo # shown.undo
  \/ shown.removable = {} /\ ~shown.command

Confirm ==
  /\ pc = "confirm"
  /\ LET fresh == Plan(TRUE)
     IN  \/ /\ fresh.level = "receipt"
            /\ IF shown.removable = {} /\ ~shown.command /\ ~shown.undo
                 THEN pc' = "retire" /\ UNCHANGED result
                 ELSE Ended("refused")
         \/ fresh.level # "receipt" /\ Changed(fresh) /\ Ended("refused")
         \/ /\ fresh.level # "receipt" /\ ~Changed(fresh)
            /\ pc' = IF fresh.undo THEN "undo" ELSE IF fresh.command THEN "list" ELSE "prove"
            /\ UNCHANGED result
  /\ UNCHANGED <<tool, disk, pkg, registered, receipt, held, strays, shown, proof, todo, done,
                 others>>

\* The undo runs before any path goes.
Undo ==
  /\ pc = "undo"
  /\ \/ registered' = FALSE /\ pc' = "forget" /\ UNCHANGED result
     \/ UNCHANGED registered /\ Ended("failed")
  /\ UNCHANGED <<tool, disk, pkg, receipt, held, strays, shown, proof, todo, done, others>>

Forget ==
  /\ pc = "forget"
  /\ \/ /\ receipt' = IF receipt = None THEN None ELSE [receipt EXCEPT !.hooks = FALSE]
        /\ pc' = "prove" /\ UNCHANGED result
     \/ UNCHANGED receipt /\ Ended("failed")
  /\ UNCHANGED <<tool, disk, pkg, registered, held, strays, shown, proof, todo, done, others>>

\* A readable fresh listing that lacks the package proves it is gone.
List ==
  /\ pc = "list"
  /\ \/ ~pkg /\ pc' = "retire"
     \/ pc' = "command"
  /\ UNCHANGED <<tool, disk, pkg, registered, receipt, held, strays, shown, proof, todo, done,
                 result, others>>

Command ==
  /\ pc = "command"
  /\ \/ pkg' = FALSE /\ pc' = "retire" /\ UNCHANGED result
     \/ pkg' \in {pkg, FALSE} /\ Ended("failed")
  /\ UNCHANGED <<tool, disk, registered, receipt, held, strays, shown, proof, todo, done, others>>

\* Mutant of Prove: the receipt goes first, then the paths.
ProveAndForget ==
  /\ pc = "prove"
  /\ proof' = Proven(TRUE)
  /\ todo' = Order(shown.removable \cap DOMAIN proof')
  /\ pc' = "check" /\ receipt' = None
  /\ UNCHANGED <<tool, disk, pkg, registered, held, strays, shown, done, result, others>>

\* remove_proven proves once more, and keeps the previewed paths that still are.
Prove ==
  /\ pc = "prove"
  /\ proof' = Proven(TRUE)
  /\ todo' = Order(shown.removable \cap DOMAIN proof')
  /\ pc' = "check"
  /\ UNCHANGED <<tool, disk, pkg, registered, receipt, held, strays, shown, done, result, others>>

(***************************************************************************)
(* remove_paths, one artifact after the other.                             *)
(***************************************************************************)
Check ==
  /\ pc = "check" /\ todo # <<>>
  /\ LET t == Head(todo)
     IN  IF Matches(t, disk[t], proof[t], t # "dir")
           THEN pc' = (IF t \in {"dir", "tree"} THEN "capture" ELSE "unlink") /\ UNCHANGED todo
           ELSE pc' = "check" /\ todo' = Tail(todo)
  /\ UNCHANGED <<tool, disk, pkg, registered, receipt, held, strays, shown, proof, done, result,
                 others>>

Unlink ==
  /\ pc = "unlink"
  /\ LET t == Head(todo)
     IN  \/ /\ Exists(t) /\ disk' = [disk EXCEPT ![t] = "gone"]
            /\ done' = done \cup {t} /\ todo' = Tail(todo)
            /\ pc' = "check" /\ UNCHANGED result
         \/ UNCHANGED <<disk, done, todo>> /\ Ended("failed")
  /\ UNCHANGED <<tool, pkg, registered, receipt, held, strays, shown, proof, others>>

\* mkdtemp and the exclusive rename.
Capture ==
  /\ pc = "capture"
  /\ LET t == Head(todo)
     IN  \/ /\ Exists(t) /\ held' = disk[t] /\ disk' = [disk EXCEPT ![t] = "gone"]
            /\ pc' = "verify" /\ UNCHANGED result
         \/ UNCHANGED <<disk, held>> /\ Ended("failed")
  /\ UNCHANGED <<tool, pkg, registered, receipt, strays, shown, proof, todo, done, others>>

\* Mutant of Verify: the captured tree is believed to be the one that was checked.
VerifyNothing ==
  /\ pc = "verify" /\ pc' = "delete"
  /\ UNCHANGED <<tool, disk, pkg, registered, receipt, held, strays, shown, proof, todo, done,
                 result, others>>

\* The re-hash inside the quarantine, which an interruption may cut short.
Verify ==
  /\ pc = "verify"
  /\ LET t == Head(todo)
     IN  pc' \in {IF Matches(t, held, proof[t], TRUE) THEN "delete" ELSE "return", "restore"}
  /\ UNCHANGED <<tool, disk, pkg, registered, receipt, held, strays, shown, proof, todo, done,
                 result, others>>

DeleteTree ==
  /\ pc = "delete"
  /\ \/ /\ held' = "nothing" /\ done' = done \cup {Head(todo)} /\ todo' = Tail(todo)
        /\ pc' = "check"
     \/ /\ held' \in {held, "part"} /\ pc' = "restore"
        /\ UNCHANGED <<done, todo>>
  /\ UNCHANGED <<tool, disk, pkg, registered, receipt, strays, shown, proof, result, others>>

\* _put_back: after a refusal the next artifact follows, after an exception it is raised.
PutBack ==
  /\ pc \in {"return", "restore"} /\ held' = "nothing"
  /\ LET t == Head(todo)
     IN  IF Exists(t)
           THEN /\ strays' = strays \cup {held}
                /\ Ended("failed") /\ UNCHANGED <<disk, todo>>
           ELSE /\ disk' = [disk EXCEPT ![t] = held] /\ UNCHANGED strays
                /\ IF pc = "restore" THEN Ended("failed") /\ UNCHANGED todo
                   ELSE pc' = "check" /\ todo' = Tail(todo) /\ UNCHANGED result
  /\ UNCHANGED <<tool, pkg, registered, receipt, shown, proof, done, others>>

\* Mutant of Settle: a refusal is not looked at.
SettleAnyway ==
  /\ pc = "check" /\ todo = <<>> /\ pc' = "retire"
  /\ UNCHANGED <<tool, disk, pkg, registered, receipt, held, strays, shown, proof, todo, done,
                 result, others>>

\* The end of remove_proven: the receipt goes once all it proved is gone.
Settle ==
  /\ pc = "check" /\ todo = <<>>
  /\ LET proved == IF receipt = None THEN {} ELSE DOMAIN proof
     IN  \/ /\ receipt' = IF proved # {} /\ proved \subseteq done /\ ~(\E t \in proved : Exists(t))
                            THEN None ELSE receipt
            /\ IF shown.removable \subseteq done THEN pc' = "retire" /\ UNCHANGED result
                                                 ELSE Ended("refused")
         \/ UNCHANGED receipt /\ proved # {} /\ proved \subseteq done /\ Ended("failed")
  /\ UNCHANGED <<tool, disk, pkg, registered, held, strays, shown, proof, todo, done, others>>

\* The last line of remove_tool.
Retire ==
  /\ pc = "retire"
  /\ \/ receipt' = None /\ Ended("removed")
     \/ UNCHANGED receipt /\ Ended("failed")
  /\ UNCHANGED <<tool, disk, pkg, registered, held, strays, shown, proof, todo, done, others>>

Kill ==
  /\ pc # "idle" /\ Ended("none")
  /\ held' = "nothing"
  /\ strays' = IF held = "nothing" THEN strays ELSE strays \cup {held}
  /\ UNCHANGED <<tool, disk, pkg, registered, receipt, shown, proof, todo, done, others>>

-----------------------------------------------------------------------------
(***************************************************************************)
(* The installer: place, record the receipt, register the hook.  It does   *)
(* not run together with a removal of the same program.                    *)
(***************************************************************************)
Place ==
  /\ pc = "idle" /\ ins.pc = "idle" /\ left.installs > 0 /\ ~tool.retired
  /\ \E r \in Releases : disk' = [t \in Types |-> IF t \in Artifacts THEN r ELSE disk[t]]
  /\ pkg' = (pkg \/ tool.kind = "manager")
  \* A listing that names the package, or cannot be read, is somebody else's claim.
  /\ \E listed \in BOOLEAN :
       /\ pkg => listed
       /\ ins' = [pc |-> "record", pre |-> {t \in {"tree", "leaf"} : Exists(t)},
                  claim |-> tool.kind = "manager" => ~listed \/ receipt # None]
  /\ left' = [left EXCEPT !.installs = @ - 1]
  /\ UNCHANGED <<tool, registered, receipt, run, seen>>

ProvenBefore(t) ==
  receipt # None /\ t \in DOMAIN receipt.what /\ Matches(t, disk[t], receipt.what[t], FALSE)

\* record: the fingerprints of what the method created, with the hooks kept.
Record ==
  /\ ins.pc = "record"
  /\ LET created == {t \in Artifacts : t \notin ins.pre \/ ProvenBefore(t)}
         what == {t \in created : Exists(t) /\ (t = "dir" => StillProven)}
     IN  \/ /\ ins.claim
            /\ receipt' = [what |-> [t \in what |-> disk[t]], adopted |-> FALSE,
                           hooks |-> receipt # None /\ receipt.hooks]
         \* the write failed: an older receipt must not speak for the new files
         \/ ins.claim /\ receipt' \in {None, receipt}
         \/ ~ins.claim /\ UNCHANGED receipt
  /\ ins' = [ins EXCEPT !.pc = "hook"]
  /\ UNCHANGED <<tool, disk, pkg, registered, run, seen, left>>

\* register_hooks: nothing runs without a receipt to record it in.
RegisterHook ==
  /\ ins.pc = "hook"
  /\ \/ /\ receipt # None /\ ~receipt.hooks
        /\ registered' = TRUE /\ ins' = [ins EXCEPT !.pc = "note"]
     \/ UNCHANGED registered /\ ins' = [ins EXCEPT !.pc = "idle"]
  /\ UNCHANGED <<tool, disk, pkg, receipt, run, seen, left>>

RecordHook ==
  /\ ins.pc = "note"
  /\ receipt' \in {IF receipt = None THEN None ELSE [receipt EXCEPT !.hooks = TRUE], receipt}
  /\ ins' = [ins EXCEPT !.pc = "idle"]
  /\ UNCHANGED <<tool, disk, pkg, registered, run, seen, left>>

KillInstaller ==
  /\ ins.pc # "idle" /\ ins' = [ins EXCEPT !.pc = "idle"]
  /\ UNCHANGED <<tool, disk, pkg, registered, receipt, run, seen, left>>

(***************************************************************************)
(* A refresh pass: adopts a raw file that is the cached release, compared  *)
(* before the lock is taken, and retires a receipt all of whose artifacts  *)
(* are gone.                                                               *)
(***************************************************************************)
CompareFile ==
  /\ tool.kind = "raw" /\ ~tool.retired /\ receipt = None /\ seen = None
  /\ disk["file"] \in Releases \cup {"sly"}
  /\ seen' \in IF disk["file"] = "sly" THEN Releases ELSE {disk["file"]}
  /\ UNCHANGED <<tool, disk, pkg, registered, receipt, run, ins, left>>

Adopt ==
  /\ seen # None /\ seen' = None
  /\ receipt' = IF receipt = None /\ disk["file"] = seen
                  THEN [what |-> [t \in {"file"} |-> seen], hooks |-> FALSE, adopted |-> TRUE]
                  ELSE receipt
  /\ UNCHANGED <<tool, disk, pkg, registered, run, ins, left>>

PassRetires ==
  /\ receipt # None /\ AllGone /\ receipt' = None
  /\ UNCHANGED <<tool, disk, pkg, registered, run, others>>

(***************************************************************************)
(* Others: a vendor's updater or the user replaces, removes or puts back   *)
(* what is at a path; a package manager is used by hand.                   *)
(***************************************************************************)
Swap ==
  /\ left.swaps > 0 /\ left' = [left EXCEPT !.swaps = @ - 1]
  /\ \/ \E t \in Artifacts, c \in Content \ {"part"} :
           /\ c = "sly" => t \in {"dir", "file"}
           /\ disk' = [disk EXCEPT ![t] = c] /\ UNCHANGED pkg
     \/ tool.kind = "manager" /\ pkg' = ~pkg /\ UNCHANGED disk
  /\ UNCHANGED <<tool, registered, receipt, run, ins, seen>>

-----------------------------------------------------------------------------
\* A tool as an earlier installer run left it, with or without a receipt.
Init ==
  /\ tool \in [kind : DOMAIN ArtifactPaths, retired : BOOLEAN]
  /\ \E r \in Releases, placed \in BOOLEAN :
       /\ disk = [t \in Types |-> IF placed /\ t \in Artifacts THEN r ELSE "gone"]
       /\ pkg = (placed /\ tool.kind = "manager")
       /\ receipt \in {None} \cup
            IF placed THEN [what : {[t \in Artifacts |-> r]}, hooks : BOOLEAN, adopted : {FALSE}]
                      ELSE {}
  /\ tool.retired => receipt # None
  /\ registered = (receipt # None /\ receipt.hooks)
  /\ held = "nothing" /\ strays = {} /\ pc = "idle" /\ shown = NoPlan /\ proof = NoProof
  /\ todo = <<>> /\ done = {} /\ result = "none"
  /\ ins = [pc |-> "idle", pre |-> {}, claim |-> FALSE]
  /\ seen = None /\ left = [swaps |-> MaxSwaps, installs |-> MaxInstalls]

Remover ==
  \/ Preview \/ Decline \/ Confirm \/ Undo \/ Forget \/ List \/ Command \/ Prove \/ Check
  \/ Unlink \/ Capture \/ Verify \/ DeleteTree \/ PutBack \/ Settle \/ Retire \/ Kill

Next ==
  \/ Remover
  \/ Place \/ Record \/ RegisterHook \/ RecordHook \/ KillInstaller
  \/ CompareFile \/ Adopt \/ PassRetires \/ Swap

Spec == Init /\ [][Next]_vars
-----------------------------------------------------------------------------
(***************************************************************************)
(* The type of every variable.                                             *)
(***************************************************************************)
TypeOK ==
  /\ tool \in [kind : DOMAIN ArtifactPaths, retired : BOOLEAN]
  /\ disk \in [Types -> Content] /\ pkg \in BOOLEAN /\ registered \in BOOLEAN
  /\ receipt \in Receipts \cup {None}
  /\ held \in Content \cup {"nothing"} /\ strays \subseteq Content
  /\ DOMAIN proof \subseteq Types /\ done \subseteq Types
  /\ todo \in Seq(DOMAIN proof)
  /\ result \in {"none", "removed", "refused", "failed"}
  /\ seen \in Releases \cup {None}

\* The trees there are: at the path, in the quarantine, in a sibling left behind.
Trees == {disk["dir"], disk["tree"], held} \cup strays

(***************************************************************************)
(* The tree that is deleted is the tree that was proven: whatever an       *)
(* updater puts there between the proof and the delete, whatever call      *)
(* fails and whenever the process is killed, a removal makes no opt dir or *)
(* bundle disappear but one with the proven bytes, and only after it was   *)
(* shown; any other is still at its path or kept in a sibling.             *)
(***************************************************************************)
NoTreeLost ==
  [][Remover => \A c \in Trees \ Trees' :
       c \in {"gone", "nothing"} \/
       (pc = "delete" /\ Head(todo) \in shown.removable
          /\ (Head(todo) = "dir" => c = proof["dir"]))]_vars

(***************************************************************************)
(* A removal takes a receipt away only after every path it proves is gone  *)
(* or was deleted by this run: a failed, refused or killed removal leaves  *)
(* the proof, so "a later plan still sees the tool".  (A retired receipt   *)
(* with nothing on disk goes on the word of the plan after the confirm.)   *)
(***************************************************************************)
ReceiptGoesLast ==
  [][Remover /\ receipt # None /\ receipt' = None /\ shown.level # "receipt" =>
       \A t \in DOMAIN receipt.what \cap Authorized : t \in done \/ ~Exists(t)]_vars

(***************************************************************************)
(* "Removed" is said only of a tool of which all that was shown, at least  *)
(* what its receipt proved at the confirm, has been deleted, and nothing   *)
(* that was not shown.                                                     *)
(***************************************************************************)
RemovedIsTrue ==
  /\ done \subseteq shown.removable
  /\ result = "removed" => shown.removable \subseteq done

(***************************************************************************)
(* A hook registered with an agent host and recorded stays recorded until  *)
(* it is undone: no failure or kill of its removal makes a registration    *)
(* nobody can undo.                                                        *)
(***************************************************************************)
HookStaysRecorded ==
  [][Remover /\ pc # "idle" /\ shown.undo /\ registered /\ receipt # None /\ receipt.hooks
       => (registered' => receipt' # None /\ receipt'.hooks)]_vars

(***************************************************************************)
(* A receipt outlives all that it proves: the paths and the registration.  *)
(***************************************************************************)
ReceiptOutlives == ReceiptGoesLast /\ HookStaysRecorded

(***************************************************************************)
(* An adopted receipt vouches for the bytes of a release, never for bytes  *)
(* swapped in after they were compared ("bytes swapped after it read as    *)
(* drift, never as proof").                                                *)
(***************************************************************************)
AdoptedIsRelease ==
  receipt # None /\ receipt.adopted => receipt.what["file"] \in Releases

(***************************************************************************)
(* Neither what a removal reports nor what an adoption records says more   *)
(* than was verified.                                                      *)
(***************************************************************************)
NothingIsOverstated == RemovedIsTrue /\ AdoptedIsRelease
=============================================================================
