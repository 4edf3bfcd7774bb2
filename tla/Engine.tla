-------------------------------- MODULE Engine --------------------------------
(***************************************************************************)
(* One tool installed and updated (installer/engine.py, install_tool;      *)
(* installer/update.py, perform_update): the ladder of its methods, the    *)
(* receipt that says what this installer may later remove, and the hooks   *)
(* that register the tool with the agents found on the machine.            *)
(*                                                                         *)
(* `copy` says who put a method's copy of the tool on the machine.  The    *)
(* code cannot see it: it reads a manager's listing and what exists before *)
(* the method runs.  Between two jobs the user installs and removes things *)
(* by hand and agents come and go; in a job every call can fail, and the   *)
(* process can be killed between any two steps.                            *)
(***************************************************************************)
EXTENDS Naturals, Sequences, FiniteSets

CONSTANTS Tools,  \* [ladder |-> kinds in the order they are tried, hook |-> BOOLEAN]
          Hosts,  \* agents a hook can register with
          None    \* Python's None

Managers    == {"brew", "cask", "uv-tool", "node"}
Downloads   == {"download"}
MethodKinds == Managers \cup Downloads \cup {"script", "native"}

Receipts == [kind : MethodKinds, claim : BOOLEAN, hooks : {None} \cup SUBSET Hosts]

ASSUME EngineAssumption ==
  /\ Tools \subseteq [ladder : Seq(MethodKinds) \ {<<>>}, hook : BOOLEAN]
  /\ None \notin Receipts /\ \A S \in SUBSET Hosts : None # S

\* On every platform registry.toml offers downloads before anything else that installs.
ASSUME DownloadsComeFirst ==
  \A t \in Tools : \A m, n \in 1..Len(t.ladder) :
    m < n /\ t.ladder[n] \in Downloads => t.ladder[m] \notin Managers \cup {"script"}

VARIABLES
  tool,
  copy,        \* per kind of method: who put its copy there, "none", "user" or "ours"
  receipt,     \* None or [kind, claim, hooks]: hooks is None or the hosts recorded
  present,     \* hosts on the machine
  registered,  \* hosts this installer registered the tool with
  excused,     \* hosts whose record was lost and the user was told, or a kill cut off
  pc, job

machine == <<copy, registered, present>>
vars    == <<tool, copy, receipt, present, registered, excused, pc, job>>

Kinds   == {tool.ladder[n] : n \in 1..Len(tool.ladder)}

NoJob == [act |-> None, at |-> 0, taken |-> None, claim |-> FALSE, record |-> FALSE,
          done |-> {}, brought |-> {}, errs |-> {}, failed |-> FALSE, left |-> {},
          outcome |-> None]

Kind == tool.ladder[job.at]
Recorded == IF receipt = None \/ receipt.hooks = None THEN {} ELSE receipt.hooks

\* Which receipts prove what this method would put there already.
Proven(kind) == receipt # None /\ receipt.kind = kind /\ receipt.claim

Init ==
  /\ tool \in Tools
  /\ copy = [k \in Kinds |-> "none"]
  /\ receipt = None /\ present = {} /\ registered = {} /\ excused = {}
  /\ pc = "idle" /\ job = NoJob

-----------------------------------------------------------------------------
(***************************************************************************)
(* The install ladder.                                                     *)
(***************************************************************************)
\* install_tool was not answered ALREADY_INSTALLED, or it repairs.
InstallStart ==
  /\ pc = "idle"
  /\ pc' = "try" /\ job' = [NoJob EXCEPT !.act = "install", !.at = 1]
  /\ UNCHANGED <<tool, machine, receipt, excused>>

Ends(outcome) == pc' = "done" /\ job' = [job EXCEPT !.outcome = outcome]

\* needs_manual: a native package, or a script whose prefix is not writable, is the user's to
\* install, and ends the ladder.
HandOff ==
  /\ pc = "try" /\ Kind \in {"native", "script"}
  /\ Ends(IF job.failed THEN "failed" ELSE "manual")
  /\ UNCHANGED <<tool, machine, receipt, excused>>

\* Mutant of AlreadyThere: an unreadable listing counts as one without the package.
ThereIfListed(unreadable) ==
  IF job.taken # None THEN job.taken
  ELSE {k \in Kinds \cap Managers : k \notin unreadable /\ copy[k] # "none"}

\* The manager kinds whose package was there, or may have been: listed, or not readable.
AlreadyThere(unreadable) ==
  IF job.taken # None THEN job.taken
  ELSE {k \in Kinds \cap Managers : k \in unreadable \/ copy[k] # "none"}

\* What is there before the method runs.  The managers are listed once for the ladder.
Look ==
  /\ pc = "try" /\ Kind # "native"
  /\ \E unreadable \in SUBSET (Kinds \cap Managers), pathsRead \in BOOLEAN :
       LET taken == IF Kind \in Managers THEN AlreadyThere(unreadable) ELSE job.taken
           mine  == CASE Kind \in Managers -> Kind \notin taken \/ Proven(Kind)
                      [] Kind = "script"   -> (pathsRead /\ copy[Kind] = "none") \/ Proven(Kind)
                      [] OTHER             -> TRUE
       IN job' = [job EXCEPT !.taken = taken, !.claim = mine,
                             !.record = Kind \in Managers => mine]
  /\ pc' = "perform"
  /\ UNCHANGED <<tool, machine, receipt, excused>>

\* A download replaces what is at its paths; a manager leaves a package that is there.
Placed(kind) ==
  [copy EXCEPT ![kind] = IF kind \in Downloads \/ @ = "none" THEN "ours" ELSE @]

Fails ==
  job' = [job EXCEPT !.failed = TRUE, !.at = IF @ < Len(tool.ladder) THEN @ + 1 ELSE @,
                     !.outcome = IF job.at < Len(tool.ladder) THEN None ELSE "failed"]

NextRung == pc' = IF job.at < Len(tool.ladder) THEN "try" ELSE "done"

Perform ==
  /\ pc = "perform" /\ job.act = "install"
  /\ copy' = Placed(Kind)
  /\ job' = [job EXCEPT !.brought = @ \cup (IF copy[Kind] = "none" THEN {Kind} ELSE {})]
  /\ pc' = IF Kind \in Downloads THEN "record" ELSE "smoke"
  /\ UNCHANGED <<tool, receipt, present, registered, excused>>

PerformFails ==
  /\ pc = "perform" /\ job.act = "install"
  /\ Fails /\ NextRung
  /\ UNCHANGED <<tool, machine, receipt, excused>>

\* executors._node checks the browser after `pnpm add -g` has returned.
NodeCheckFails ==
  /\ pc = "perform" /\ job.act = "install" /\ Kind = "node"
  /\ copy' = Placed(Kind)
  /\ job' = [job EXCEPT !.brought = @ \cup (IF copy[Kind] = "none" THEN {Kind} ELSE {}),
                        !.errs = @ \cup {Kind}, !.failed = TRUE, !.outcome = "failed"]
  /\ pc' = "done"
  /\ UNCHANGED <<tool, receipt, present, registered, excused>>

\* A checksum mismatch ends the ladder unless the user said to go on.
ChecksumMismatch ==
  /\ pc = "perform" /\ job.act = "install" /\ Kind \in Downloads
  /\ Ends("mismatch")
  /\ UNCHANGED <<tool, machine, receipt, excused>>

SmokePasses ==
  /\ pc = "smoke" /\ pc' = "record"
  /\ UNCHANGED <<tool, machine, receipt, excused, job>>

\* Mutant of SmokeFails: the error is kept, the leftover is not noted.
SmokeFailsQuietly ==
  /\ pc = "smoke"
  /\ Fails /\ NextRung
  /\ UNCHANGED <<tool, machine, receipt, excused>>

\* The package stays installed, and the outcome says how to remove it.
SmokeFails ==
  /\ pc = "smoke"
  /\ job' = [job EXCEPT !.failed = TRUE, !.errs = @ \cup {Kind}, !.left = @ \cup {Kind},
                        !.at = IF @ < Len(tool.ladder) THEN @ + 1 ELSE @,
                        !.outcome = IF job.at < Len(tool.ladder) THEN None ELSE "failed"]
  /\ NextRung
  /\ UNCHANGED <<tool, machine, receipt, excused>>

-----------------------------------------------------------------------------
(***************************************************************************)
(* Updates: of the copy whose manager, or the installer, owns it.          *)
(***************************************************************************)
\* A manager's update refreshes a receipt of its own kind and never makes one.
UpdateStart ==
  /\ pc = "idle"
  /\ \E n \in 1..Len(tool.ladder) :
       LET kind == tool.ladder[n] IN
       /\ kind # "native" /\ copy[kind] # "none"
       /\ job' = [NoJob EXCEPT !.act = "update", !.at = n,
                    !.record = kind \in Managers => receipt # None /\ receipt.kind = kind,
                    !.claim = kind = "script" => Proven(kind)]
  /\ pc' = "perform"
  /\ UNCHANGED <<tool, machine, receipt, excused>>

Update ==
  /\ pc = "perform" /\ job.act = "update"
  /\ copy' = Placed(Kind)
  /\ pc' = "record"
  /\ UNCHANGED <<tool, receipt, present, registered, excused, job>>

UpdateFails ==
  /\ pc = "perform" /\ job.act = "update"
  /\ Ends("failed")
  /\ UNCHANGED <<tool, machine, receipt, excused>>

-----------------------------------------------------------------------------
(***************************************************************************)
(* The receipt and the hooks.                                              *)
(***************************************************************************)
AfterRecord == pc' = IF tool.hook THEN "hooks" ELSE "done"
Succeeded   == [job EXCEPT !.outcome = "installed"]

NotRecorded ==
  /\ pc = "record" /\ ~job.record
  /\ AfterRecord /\ job' = Succeeded
  /\ UNCHANGED <<tool, machine, receipt, excused>>

\* Mutant of Record: a new receipt starts with no hooks.
RecordAfresh ==
  /\ pc = "record" /\ job.record
  /\ receipt' = [kind |-> Kind, claim |-> job.claim, hooks |-> None]
  /\ AfterRecord /\ job' = Succeeded
  /\ UNCHANGED <<tool, machine, excused>>

\* receipts.record: a re-record keeps the hosts that are registered.
Record ==
  /\ pc = "record" /\ job.record
  /\ receipt' = [kind |-> Kind, claim |-> job.claim,
                 hooks |-> IF receipt = None THEN None ELSE receipt.hooks]
  /\ AfterRecord /\ job' = Succeeded
  /\ UNCHANGED <<tool, machine, excused>>

\* The write fails: the receipt there was is deleted, when that works, and the user is told.
RecordFails ==
  /\ pc = "record" /\ job.record
  /\ \/ receipt' = None /\ excused' = excused \cup Recorded
     \/ receipt # None /\ UNCHANGED <<receipt, excused>>
  /\ AfterRecord
  /\ job' = [Succeeded EXCEPT !.left = @ \cup {Kind}]
  /\ UNCHANGED <<tool, machine>>

\* _resync_hooks: a tool whose receipt knows its hooks is registered with new hosts.
Resync ==
  /\ pc = "idle" /\ tool.hook /\ receipt # None /\ receipt.hooks # None
  /\ pc' = "hooks" /\ job' = [NoJob EXCEPT !.act = "resync"]
  /\ UNCHANGED <<tool, machine, receipt, excused>>

\* register_hooks without a receipt to record the hosts in: nothing runs.
NoReceipt ==
  /\ pc = "hooks" /\ receipt = None
  /\ pc' = "done"
  /\ UNCHANGED <<tool, machine, receipt, excused, job>>

\* The hook runs for the hosts that are present and not recorded; some of them may fail.
Register ==
  /\ pc = "hooks" /\ receipt # None
  /\ \E hosts \in SUBSET (present \ Recorded) :
       /\ registered' = registered \cup hosts
       /\ job' = [job EXCEPT !.done = hosts]
  /\ pc' = IF job'.done # {} \/ receipt.hooks = None THEN "note" ELSE "done"
  /\ UNCHANGED <<tool, copy, present, receipt, excused>>

RecordHooks ==
  /\ pc = "note"
  /\ receipt' = [receipt EXCEPT !.hooks = Recorded \cup job.done]
  /\ pc' = "done"
  /\ UNCHANGED <<tool, machine, excused, job>>

RecordHooksFails ==
  /\ pc = "note"
  /\ excused' = excused \cup job.done
  /\ pc' = "done"
  /\ UNCHANGED <<tool, machine, receipt, job>>

\* The post-install actions run, or crash into a warning, and the outcome is returned.
Return ==
  /\ pc = "done" /\ pc' = "idle" /\ job' = NoJob
  /\ UNCHANGED <<tool, machine, receipt, excused>>

Kill ==
  /\ pc \notin {"idle", "done"}
  /\ excused' = excused \cup job.done
  /\ pc' = "idle" /\ job' = NoJob
  /\ UNCHANGED <<tool, machine, receipt>>

-----------------------------------------------------------------------------
(***************************************************************************)
(* The user and the agents, between two jobs.                              *)
(***************************************************************************)
ByHand ==
  /\ pc = "idle"
  /\ \E k \in Kinds \ {"native"} :
       copy' = [copy EXCEPT ![k] = IF @ = "none" THEN "user" ELSE "none"]
  /\ UNCHANGED <<tool, receipt, present, registered, excused, pc, job>>

HostComesOrGoes ==
  /\ pc = "idle" /\ tool.hook
  /\ \E h \in Hosts : present' = (present \ {h}) \cup ({h} \ present)
  /\ UNCHANGED <<tool, copy, receipt, registered, excused, pc, job>>

Next ==
  \/ InstallStart \/ HandOff \/ Look \/ Perform \/ PerformFails \/ NodeCheckFails
  \/ ChecksumMismatch \/ SmokePasses \/ SmokeFails
  \/ UpdateStart \/ Update \/ UpdateFails
  \/ NotRecorded \/ Record \/ RecordFails \/ Resync \/ NoReceipt
  \/ Register \/ RecordHooks \/ RecordHooksFails \/ Return \/ Kill
  \/ ByHand \/ HostComesOrGoes

Spec == Init /\ [][Next]_vars

-----------------------------------------------------------------------------
\* What the outcome names: a success its method and the leftovers, a mismatch only itself.
Reported ==
  CASE job.outcome = "installed"            -> job.left \cup {Kind}
    [] job.outcome \in {"failed", "manual"} -> job.errs \cup job.left
    [] OTHER                               -> {}

(***************************************************************************)
(* A receipt never comes to claim, and so removal never comes to remove,   *)
(* what somebody else put on the machine (engine.py: "A package the        *)
(* manager already had is not this install's to claim"; update.py:         *)
(* "updating someone else's package never makes it ours").                 *)
(***************************************************************************)
ClaimsAreOurs ==
  [][receipt' # receipt /\ receipt' # None /\ receipt'.claim /\ ~Proven(receipt'.kind)
       => copy[receipt'.kind] = "ours"]_vars

(***************************************************************************)
(* Nothing a finished install brought is left on the machine in silence:   *)
(* it is the method that succeeded, or the outcome names it (install_tool: *)
(* a failed smoke's package "is reported with its removal command").       *)
(***************************************************************************)
LeftoversAreNamed == pc = "done" => job.brought \subseteq Reported

(***************************************************************************)
(* Every host the tool was registered with is in its receipt, where        *)
(* removal undoes it, unless the user was told or a kill cut it off        *)
(* (receipts.record_hooks: "a registration nothing records could never be  *)
(* undone").                                                               *)
(***************************************************************************)
HooksAreAccounted == pc \in {"idle", "done"} => registered \subseteq Recorded \cup excused

\* Of every life of the tool: no leftover and no registration is left unaccounted for.
NothingIsUnaccounted == LeftoversAreNamed /\ HooksAreAccounted
=============================================================================
