----------------------------- MODULE ArchiveSwap -----------------------------
(***************************************************************************)
(* The staged replacement of one installed tree:                           *)
(* installer/download.py (archives and raw binaries), installer/apps.py    *)
(* (application bundles) and installer/atomic.py (recovery, relinking).    *)
(*                                                                         *)
(* One behaviour is the life of one tool's files through any number of     *)
(* install and update runs.  Each filesystem call is an action of its own, *)
(* with a failing twin where the call can raise; the process may be killed *)
(* between, or in the middle of, any two of them.                          *)
(***************************************************************************)
CONSTANTS Versions,      \* releases that can be installed
          Foreign,       \* version of a tree the installer did not create
          Absent,        \* nothing at a path
          Members,       \* paths of a file inside the tree
          MemberOf,      \* release |-> path of its binary (may name the release);
                         \* Foreign |-> the file its own user may have linked
          NoLink,        \* nothing at the bin link's path
          File           \* a regular file at the bin link's path

VARIABLES
  kind,       \* "archive", "app", "bundle" (an app with no cli) or "raw"
  op,         \* the running (or last) operation: "install" or "update"
  target,     \* the release it installs
  pc,         \* the next filesystem call
  live,       \* the tree at opt_dir(name) or ~/Applications/<app>; raw: the file
  new,        \* the `.tools-installer.new` sibling
  old,        \* the `.tools-installer.old` sibling
  link,       \* the bin symlink: NoLink, File, or the member it points to
  captured,   \* original_target, read once before the run changes anything
  before,     \* history: live and link once recovery is over
  report,     \* how the last run ended
  settled,    \* history: some run has ended in success (or Init says so)
  exposed     \* history: `.old` outlived the successful run that made it

vars == <<kind, op, target, pc, live, new, old, link, captured, before,
          report, settled, exposed>>

Abstract == INSTANCE AtomicInstall WITH
              cur <- IF old # Absent THEN old ELSE live

Tree        == Abstract!Tree
Whole(v)    == Abstract!Whole(v)
Leftover(t) == Abstract!Leftover(t)
Place       == Tree \cup {Absent}
Kinds       == {"archive", "app", "bundle", "raw"}
Links       == Members \cup {NoLink, File}
Steps       == {"idle", "fetch", "recoverNew", "recoverLive", "recoverOld",
                "extract", "stage", "stageRaw", "replaceRaw", "aside", "swap",
                "rollback", "relink", "validate", "undoAside", "undoRestore",
                "undoLink", "cleanup"}
Reports     == {"none", "ok", "warned", "refused", "fetch", "recovery",
                "staging", "intact", "restored", "lost", "crashed"}

ASSUME SwapAssumption ==
  /\ MemberOf \in [Versions \cup {Foreign} -> Members]
  /\ NoLink \notin Members /\ File \notin Members /\ NoLink # File
  /\ Foreign \notin Versions
  /\ Absent \notin Tree

(***************************************************************************)
(* is_still_proven: the link is a symlink to a regular file inside the     *)
(* tree's directory.  Who made the tree or the link it does not ask: a     *)
(* tree its own user unpacked and linked by hand passes as well.           *)
(***************************************************************************)
IsStillProven ==
  /\ link \in Members
  /\ live # Absent
  /\ live.bin
  /\ link = MemberOf[live.ver]

\* capture_symlink_target: readlink fails on a regular file and on nothing.
CaptureSymlinkTarget == IF link \in Members THEN link ELSE NoLink

Init ==
  /\ kind \in Kinds
  /\ op = "install" /\ pc = "idle" /\ report = "none"
  /\ target \in Versions
  /\ new = Absent /\ old = Absent /\ exposed = FALSE
  /\ settled \in BOOLEAN
  /\ IF settled
       THEN \E v \in Versions :
              /\ live = Whole(v)
              /\ link = IF kind \in {"archive", "app"} THEN MemberOf[v] ELSE NoLink
       ELSE /\ live \in {Absent, Whole(Foreign)}
            /\ link \in IF kind \in {"archive", "app"} THEN Links ELSE {NoLink}
  /\ captured = NoLink
  /\ before = [live |-> live, link |-> link]

Done(outcome) == pc' = "idle" /\ report' = outcome

(***************************************************************************)
(* is_installed, and resolve_ownership of a tool that no manager lists:    *)
(* the command runs, or the application's directory is there.  Whatever    *)
(* exists where the installer would have put it is the installer's.        *)
(***************************************************************************)
IsInstalled ==
  \/ link = File \/ IsStillProven
  \/ kind # "archive" /\ live # Absent

(***************************************************************************)
(* The checks a run makes before it changes anything.  An install refuses  *)
(* a tree whose link is not proven; an update is of what is installed, and *)
(* proves nothing of its own.                                              *)
(***************************************************************************)
MayBegin(o) ==
  \/ o = "update" /\ IsInstalled
  \/ o = "install" /\ \/ kind = "raw"
                      \/ live = Absent
                      \/ kind # "bundle" /\ IsStillProven

Begin(o, v) ==
  /\ pc = "idle" /\ MayBegin(o)
  /\ op' = o /\ target' = v
  \* an app recovers before it fetches, an archive only once it has fetched
  /\ pc' = IF kind \in {"app", "bundle"} THEN "recoverNew" ELSE "fetch"
  /\ captured' = CaptureSymlinkTarget
  /\ before' = [live |-> live, link |-> link]
  /\ report' = "none"
  /\ UNCHANGED <<kind, live, new, old, link, settled, exposed>>

Refuse(v) ==
  /\ pc = "idle" /\ ~MayBegin("install")
  /\ op' = "install" /\ target' = v /\ report' = "refused"
  /\ UNCHANGED <<kind, pc, live, new, old, link, captured, before, settled, exposed>>

\* curl, then the checksum: nothing beside the private staging directory.
Fetch ==
  /\ pc = "fetch"
  /\ pc' = CASE kind = "raw"     -> "stageRaw"
             [] kind = "archive" -> "recoverNew"
             [] OTHER            -> "stage"
  /\ UNCHANGED <<kind, op, target, live, new, old, link, captured, before, report, settled, exposed>>

FetchFails ==
  /\ pc = "fetch" /\ Done("fetch")
  /\ UNCHANGED <<kind, op, target, live, new, old, link, captured, before, settled, exposed>>

(***************************************************************************)
(* recover_update_remnants(live): drop `.new`; a `.old` always wins.       *)
(***************************************************************************)
Recovered == IF kind = "archive" THEN "extract" ELSE "fetch"

RecoverNew ==
  /\ pc = "recoverNew"
  /\ new' = Absent
  /\ IF old = Absent
       THEN pc' = Recovered /\ before' = [live |-> live, link |-> link]
       ELSE pc' = (IF live # Absent THEN "recoverLive" ELSE "recoverOld") /\ UNCHANGED before
  /\ UNCHANGED <<kind, op, target, live, old, link, captured, report, settled, exposed>>

RecoverNewFails ==
  /\ pc = "recoverNew" /\ new # Absent
  /\ new' \in Leftover(new)
  /\ Done("recovery")
  /\ UNCHANGED <<kind, op, target, live, old, link, captured, before, settled, exposed>>

RecoverLive ==
  /\ pc = "recoverLive"
  /\ live' = Absent
  /\ pc' = "recoverOld"
  /\ UNCHANGED <<kind, op, target, new, old, link, captured, before, report, settled, exposed>>

RecoverLiveFails ==
  /\ pc = "recoverLive"
  /\ live' \in Leftover(live)
  /\ Done("recovery")
  /\ UNCHANGED <<kind, op, target, new, old, link, captured, before, settled, exposed>>

RecoverOld ==
  /\ pc = "recoverOld"
  /\ live' = old /\ old' = Absent
  /\ before' = [live |-> old, link |-> link]
  /\ pc' = Recovered
  /\ UNCHANGED <<kind, op, target, new, link, captured, report, settled, exposed>>

RecoverOldFails ==
  /\ pc = "recoverOld" /\ Done("recovery")
  /\ UNCHANGED <<kind, op, target, live, new, old, link, captured, before, settled, exposed>>

(***************************************************************************)
(* Staging.  An archive is unpacked straight into `.new`; a bundle reaches *)
(* `.new` in one rename, from a private directory, once it passed.         *)
(***************************************************************************)
Extract ==
  /\ pc = "extract"
  /\ \E b \in BOOLEAN : new' = [ver |-> target, whole |-> FALSE, bin |-> b]
  /\ pc' = "stage"
  /\ UNCHANGED <<kind, op, target, live, old, link, captured, before, report, settled, exposed>>

\* staged_member, chmod and, on an install, the smoke run.
Stage ==
  /\ pc = "stage"
  /\ new' = Whole(target)
  /\ pc' = "aside"
  /\ UNCHANGED <<kind, op, target, live, old, link, captured, before, report, settled, exposed>>

StageFails ==
  /\ pc = "stage"
  /\ new' \in IF kind = "archive" THEN Leftover(new) \cup {Absent} ELSE {new}
  /\ Done("staging")
  /\ UNCHANGED <<kind, op, target, live, old, link, captured, before, settled, exposed>>

\* _replace_raw: copy beside the live file, smoke the copy, one os.replace.
StageRaw ==
  /\ pc = "stageRaw"
  /\ \E b \in BOOLEAN : new' = [ver |-> target, whole |-> FALSE, bin |-> b]
  /\ pc' = "replaceRaw"
  /\ UNCHANGED <<kind, op, target, live, old, link, captured, before, report, settled, exposed>>

ReplaceRaw ==
  /\ pc = "replaceRaw"
  /\ new' = Absent /\ live' = Whole(target)
  /\ settled' = TRUE
  /\ Done("ok")
  /\ UNCHANGED <<kind, op, target, old, link, captured, before, exposed>>

ReplaceRawFails ==
  /\ pc = "replaceRaw"
  /\ new' \in {new, Absent}
  /\ Done("staging")
  /\ UNCHANGED <<kind, op, target, live, old, link, captured, before, settled, exposed>>

\* Mutant of Aside: the live tree is removed to make room for the new one.
AsideByRemoval ==
  /\ pc = "aside"
  /\ live' = Absent
  /\ pc' = "swap"
  /\ UNCHANGED <<kind, op, target, new, old, link, captured, before, report, settled, exposed>>

(***************************************************************************)
(* The swap: live aside to `.old`, `.new` into place, link, validation.    *)
(***************************************************************************)
Aside ==
  /\ pc = "aside"
  /\ IF live # Absent THEN old' = live /\ live' = Absent ELSE UNCHANGED <<live, old>>
  /\ pc' = "swap"
  /\ UNCHANGED <<kind, op, target, new, link, captured, before, report, settled, exposed>>

AsideFails ==
  /\ pc = "aside" /\ live # Absent
  /\ new' \in Leftover(new) \cup {Absent}
  /\ Done("intact")
  /\ UNCHANGED <<kind, op, target, live, old, link, captured, before, settled, exposed>>

Swap ==
  /\ pc = "swap"
  /\ live' = new /\ new' = Absent
  /\ pc' = "relink"
  /\ UNCHANGED <<kind, op, target, old, link, captured, before, report, settled, exposed>>

SwapFails ==
  /\ pc = "swap"
  /\ pc' = "rollback"
  /\ UNCHANGED <<kind, op, target, live, new, old, link, captured, before, report, settled, exposed>>

Rollback ==
  /\ pc = "rollback"
  /\ IF old # Absent THEN live' = old /\ old' = Absent ELSE UNCHANGED <<live, old>>
  /\ Done("restored")
  /\ UNCHANGED <<kind, op, target, new, link, captured, before, settled, exposed>>

RollbackFails ==
  /\ pc = "rollback" /\ old # Absent
  /\ Done("lost")
  /\ UNCHANGED <<kind, op, target, live, new, old, link, captured, before, settled, exposed>>

Relink ==
  /\ pc = "relink"
  /\ link' = IF kind = "bundle" THEN link ELSE MemberOf[target]
  /\ pc' = "validate"
  /\ UNCHANGED <<kind, op, target, live, new, old, captured, before, report, settled, exposed>>

RelinkFails ==
  /\ pc = "relink" /\ kind # "bundle"
  /\ pc' = "undoAside"
  /\ UNCHANGED <<kind, op, target, live, new, old, link, captured, before, report, settled, exposed>>

Validate ==
  /\ pc = "validate"
  /\ pc' = "cleanup"
  /\ UNCHANGED <<kind, op, target, live, new, old, link, captured, before, report, settled, exposed>>

ValidateFails ==
  /\ pc = "validate"
  /\ pc' = "undoAside"
  /\ UNCHANGED <<kind, op, target, live, new, old, link, captured, before, report, settled, exposed>>

(***************************************************************************)
(* _undo_archive_swap / _undo_app_swap.  The last two lines of each (drop  *)
(* `.new` ignoring errors, drop `.old` if it is still there) are UndoLink: *)
(* `.old` has just been moved away by then.                                *)
(***************************************************************************)
UndoAside ==
  /\ pc = "undoAside"
  /\ new' = live /\ live' = Absent
  /\ pc' = "undoRestore"
  /\ UNCHANGED <<kind, op, target, old, link, captured, before, report, settled, exposed>>

\* Mutant of UndoRestore: the displaced tree is dropped with the failed one.
UndoDropsBoth ==
  /\ pc = "undoRestore"
  /\ old' = Absent
  /\ pc' = "undoLink"
  /\ UNCHANGED <<kind, op, target, live, new, link, captured, before, report, settled, exposed>>

UndoRestore ==
  /\ pc = "undoRestore"
  /\ IF old # Absent THEN live' = old /\ old' = Absent ELSE UNCHANGED <<live, old>>
  /\ pc' = "undoLink"
  /\ UNCHANGED <<kind, op, target, new, link, captured, before, report, settled, exposed>>

\* Mutant of RestoredLink: only a captured link is put back; a new one stays.
RestoredIfCaptured ==
  IF kind # "bundle" /\ captured # NoLink THEN captured ELSE link

RestoredLink ==
  IF kind = "bundle" THEN link
  ELSE IF captured # NoLink THEN captured
  ELSE IF link \in Members THEN NoLink ELSE link

UndoLink ==
  /\ pc = "undoLink"
  /\ link' = RestoredLink
  /\ new' \in Leftover(new) \cup {Absent}
  /\ Done("restored")
  /\ UNCHANGED <<kind, op, target, live, old, captured, before, settled, exposed>>

UndoFails ==
  /\ pc \in {"undoAside", "undoRestore", "undoLink"}
  /\ pc = "undoRestore" => old # Absent
  /\ pc = "undoLink" => kind # "bundle" /\ (captured # NoLink \/ link \in Members)
  /\ Done("lost")
  /\ UNCHANGED <<kind, op, target, live, new, old, link, captured, before, settled, exposed>>

(***************************************************************************)
(* The validated run removes `.old`; a failure is a warning only.          *)
(***************************************************************************)
Cleanup ==
  /\ pc = "cleanup"
  /\ old' = Absent
  /\ settled' = TRUE /\ exposed' = FALSE
  /\ Done("ok")
  /\ UNCHANGED <<kind, op, target, live, new, link, captured, before>>

CleanupFails ==
  /\ pc = "cleanup" /\ old # Absent
  /\ old' \in Leftover(old)
  /\ settled' = TRUE /\ exposed' = TRUE
  /\ Done("warned")
  /\ UNCHANGED <<kind, op, target, live, new, link, captured, before>>

(***************************************************************************)
(* The process is killed.  A removal under way may have taken a part.      *)
(***************************************************************************)
Crash ==
  /\ pc # "idle"
  /\ new'  \in IF pc = "recoverNew" /\ new # Absent THEN Leftover(new) ELSE {new}
  /\ live' \in IF pc = "recoverLive" THEN Leftover(live) ELSE {live}
  /\ old'  \in IF pc = "cleanup" /\ old # Absent THEN Leftover(old) ELSE {old}
  /\ LET outlives == pc = "cleanup" /\ old # Absent
     IN  settled' = (settled \/ outlives) /\ exposed' = (exposed \/ outlives)
  /\ Done("crashed")
  /\ UNCHANGED <<kind, op, target, link, captured, before>>

Next ==
  \/ \E o \in {"install", "update"}, v \in Versions : Begin(o, v)
  \/ \E v \in Versions : Refuse(v)
  \/ Fetch \/ FetchFails
  \/ RecoverNew \/ RecoverNewFails \/ RecoverLive \/ RecoverLiveFails
  \/ RecoverOld \/ RecoverOldFails
  \/ Extract \/ Stage \/ StageFails \/ StageRaw \/ ReplaceRaw \/ ReplaceRawFails
  \/ Aside \/ AsideFails \/ Swap \/ SwapFails \/ Rollback \/ RollbackFails
  \/ Relink \/ RelinkFails \/ Validate \/ ValidateFails
  \/ UndoAside \/ UndoRestore \/ UndoLink \/ UndoFails
  \/ Cleanup \/ CleanupFails
  \/ Crash

Spec == Init /\ [][Next]_vars
-----------------------------------------------------------------------------
(***************************************************************************)
(* The type of every variable.                                             *)
(***************************************************************************)
TypeOK ==
  /\ kind \in Kinds /\ op \in {"install", "update"} /\ target \in Versions
  /\ pc \in Steps /\ report \in Reports
  /\ live \in Place /\ new \in Place /\ old \in Place
  /\ link \in Links /\ captured \in Members \cup {NoLink}
  /\ before \in [live : Place, link : Links]
  /\ settled \in BOOLEAN /\ exposed \in BOOLEAN

Good(t) == t # Absent /\ t.whole

(***************************************************************************)
(* Once an installation has been completed, a complete tree is on disk at  *)
(* `live` or at `.old` in every state, whatever call failed and wherever   *)
(* the process was killed (download.py's "A failure at any of those steps  *)
(* restores the prior tree"); the exception is a `.old` that outlived a    *)
(* successful run, which atomic.py records as accepted.                    *)
(***************************************************************************)
LastGoodSurvives == settled /\ ~exposed => Good(live) \/ Good(old)

(***************************************************************************)
(* A run that ended in success left the release it was asked for, whole,   *)
(* and (when it makes a link) the link on that release's own binary.       *)
(***************************************************************************)
SuccessIsComplete ==
  pc = "idle" /\ report \in {"ok", "warned"} =>
    /\ live = Whole(target)
    /\ kind \in {"archive", "app"} => IsStillProven

(***************************************************************************)
(* A run that failed before the swap, or says the prior installation is    *)
(* intact or restored, left the tree it found (after recovering remnants)  *)
(* and, where it found a symlink or nothing, that link.                    *)
(***************************************************************************)
FailureRestoresPrior ==
  pc = "idle" /\ report \in {"fetch", "staging", "intact", "restored"} =>
    /\ live = before.live
    /\ before.link # File => link = before.link

(***************************************************************************)
(* What a run reports is true of the tree and of the link, success or      *)
(* failure.                                                                *)
(***************************************************************************)
ReportsAreTrue == SuccessIsComplete /\ FailureRestoresPrior

(***************************************************************************)
(* A tree the installer did not put there is safe in two ways.  No run     *)
(* moves one that is not installed, an unpacked archive without a command. *)
(* One whose user linked it, or put an application where the installer     *)
(* would, counts as installed and may be replaced, but only by a run that  *)
(* ends in success: no failing call and no kill takes it from both `live`  *)
(* and `.old`.                                                             *)
(***************************************************************************)
NotInstalled ==
  pc = "idle" /\ old = Absent /\ live = Whole(Foreign) /\ ~IsInstalled

ForeignTreeKept ==
  [][/\ NotInstalled => NotInstalled' /\ live' = live
     /\ Whole(Foreign) \in {live, old} /\ ~settled =>
          Whole(Foreign) \in {live', old'} \/ settled']_vars

(***************************************************************************)
(* Seen through recovery, the installation is replaced atomically.         *)
(***************************************************************************)
Refines == Abstract!AbsSpec
=============================================================================
