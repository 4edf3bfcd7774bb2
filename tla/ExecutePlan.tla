----------------------------- MODULE ExecutePlan -----------------------------
(***************************************************************************)
(* One install run: session.execute_plan over a plan of Plan.tla, with the *)
(* UpdateService latch it shares with the row updates of the catalog       *)
(* screens and the cancel flag ExecuteScreen sets from the event loop.     *)
(*                                                                         *)
(* The machine is the set of tools that work.  What installing or updating *)
(* one tool does to it is any outcome its engine can report; the steps of  *)
(* a download are ArchiveSwap.tla.                                         *)
(***************************************************************************)
EXTENDS Plan, FiniteSets

CONSTANTS
  Graphs,     \* the `requires` relations considered, each Tools -> SUBSET Tools
  Catalog,    \* the published healths considered
  Torn,       \* whether a pass may have re-read the platform, and not published
  Hosts,      \* the tools that are agent hosts
  Covered,    \* the tools the chosen run option has settings for
  Others,     \* the catalog screens' update workers
  NoTool      \* no tool

ASSUME ExecuteAssumption ==
  /\ Graphs \subseteq [Tools -> SUBSET Tools] /\ \A g \in Graphs : Acyclic(g)
  /\ Catalog \subseteq Healths /\ Torn \in BOOLEAN
  /\ Hosts \subseteq Tools /\ Covered \subseteq Tools /\ NoTool \notin Tools
  /\ Others \cap {"none", "run"} = {}

VARIABLES
  req,        \* the registry's `requires`
  health,     \* each tool's published health
  avail,      \* the tools some method of which applies on this platform
  selected,   \* what the user chose
  row,        \* the plan: a disposition for each wanted tool
  works,      \* the tools that are on the machine and work
  pc,         \* "ready", "row", "installing", "updating", "reconfiguring",
              \* "asking", "sweep", "options", "ended", "rejected"
  cur,        \* the tool of the running row
  second,     \* the running install is the retry or the fallback
  outcome,    \* each row's result
  unresolved, \* the local of execute_plan
  halted,     \* the local of execute_plan
  stop,       \* ExecuteScreen.cancel_event
  latch,      \* UpdateService._in_flight: who holds it
  updating,   \* history: the workers inside UpdateService.run
  swept,      \* the hook sweep registered hooks for a new host
  written     \* the tools whose settings file the run option wrote

plan == <<req, health, avail, selected, row>>
run  == <<cur, second, outcome, unresolved, halted>>
vars == <<plan, works, pc, run, stop, latch, updating, swept, written>>

Results == {"none", "done", "failed", "mismatch", "dependency_failed",
            "not_attempted", "crashed", "skipped", "blocked", "manual"}

\* The plan's view of the machine is true: what is published is what works,
\* and, unless Torn, unavailable means that no method applies.
Init ==
  /\ req \in Graphs
  /\ health \in [Tools -> Catalog]
  /\ avail \in SUBSET Tools
  /\ \A t \in Tools : health[t] = "missing" => t \in avail
  /\ \A t \in Tools : ~Torn /\ health[t] = "unavailable" => t \notin avail
  /\ selected \in SUBSET Tools \ {{}}
  /\ \E base \in [Tools -> Dispositions] :
       /\ \A t \in Tools : base[t] \in RowFor(health[t], t \in selected)
       /\ row = BuildPlan(req, health, avail, selected, base)
  /\ works = {t \in Tools : Settled(health[t])}
  /\ pc = "ready" /\ cur = NoTool /\ second = FALSE
  /\ outcome = [t \in DOMAIN row |-> "none"]
  /\ unresolved = {} /\ halted = FALSE /\ stop = FALSE
  /\ latch = "none" /\ updating = {}
  /\ swept = FALSE /\ written = {}
-----------------------------------------------------------------------------
\* execute_plan refuses a plan with a row that is still checking.
Reject ==
  /\ pc = "ready" /\ \E t \in DOMAIN row : row[t] = "wait"
  /\ pc' = "rejected"
  /\ UNCHANGED <<plan, works, run, stop, latch, updating, swept, written>>

Begin ==
  /\ pc = "ready" /\ \A t \in DOMAIN row : row[t] # "wait"
  /\ pc' = "row"
  /\ UNCHANGED <<plan, works, run, stop, latch, updating, swept, written>>

\* The loop over the rows, which are in dependency order.
Decided  == {t \in DOMAIN row : outcome[t] # "none"}
NextRows ==
  {t \in DOMAIN row \ Decided :
     req[t] \subseteq Decided \cup BlockedTools(req, health, avail)}

Record(t, result) == outcome' = [outcome EXCEPT ![t] = result]

\* SKIP, BLOCKED and MANUAL rows are reported, also after a stop.
ReportRow(t) ==
  /\ pc = "row" /\ t \in NextRows /\ row[t] \notin Runnable
  /\ Record(t, CASE row[t] \in {"skip", "notNeeded"} -> "skipped"
                 [] row[t] = "blocked"               -> "blocked"
                 [] row[t] = "manual"                -> "manual")
  /\ unresolved' = IF row[t] = "manual" THEN unresolved \cup {t} ELSE unresolved
  /\ UNCHANGED <<plan, works, pc, cur, second, halted, stop, latch, updating, swept, written>>

SkipRow(t) ==
  /\ pc = "row" /\ t \in NextRows /\ row[t] \in Runnable
  /\ halted \/ stop
  /\ halted' = TRUE
  /\ Record(t, "not_attempted")
  /\ UNCHANGED <<plan, works, pc, cur, second, unresolved, stop, latch, updating, swept, written>>

Startable(t) ==
  /\ pc = "row" /\ t \in NextRows /\ row[t] \in Runnable
  /\ ~halted /\ ~stop

\* Mutant of UnresolvedStatuses: a failure is not carried down a longer chain.
UnresolvedOneLink(disposition) ==
  IF disposition \in {"install", "repair"}
    THEN {"failed", "no_method", "mismatch", "manual"}
    ELSE {"failed", "mismatch"}

\* The statuses after which a row's tool is not on the machine (_UNRESOLVED),
\* and those after which a tool that was there is lost (_PRESENT_TOOL_LOST).
UnresolvedStatuses(disposition) ==
  IF disposition \in {"install", "repair"}
    THEN {"failed", "no_method", "mismatch", "dependency_failed", "manual"}
    ELSE {"failed", "mismatch"}

\* Mutant of ResultOf: a mismatch is reported as skipped.
ResultHidesMismatch(status) ==
  CASE status = "installed" -> "done"
    [] status \in {"already", "mismatch"} -> "skipped"
    [] status = "no_method" -> "blocked"
    [] OTHER                -> status

\* _INSTALL_RESULT: what a row reports for an engine status.
ResultOf(status) ==
  CASE status = "installed" -> "done"
    [] status = "already"   -> "skipped"
    [] status = "no_method" -> "blocked"
    [] OTHER                -> status

Conclude(t, status) ==
  /\ Record(t, ResultOf(status))
  /\ unresolved' = IF status \in UnresolvedStatuses(row[t])
                     THEN unresolved \cup {t} ELSE unresolved
  /\ cur' = NoTool /\ second' = FALSE
  /\ pc' = "row"

DependencyFailed(t) ==
  /\ Startable(t) /\ req[t] \cap unresolved # {}
  /\ Conclude(t, "dependency_failed")
  /\ UNCHANGED <<plan, works, halted, stop, latch, updating, swept, written>>

StartInstall(t) ==
  /\ Startable(t) /\ req[t] \cap unresolved = {}
  /\ row[t] \in {"install", "repair", "reinstall"}
  /\ cur' = t /\ second' = FALSE /\ pc' = "installing"
  /\ UNCHANGED <<plan, works, outcome, unresolved, halted, stop, latch, updating, swept, written>>

(***************************************************************************)
(* install_tool answers.  A repair or a reinstall does not stop at a tool  *)
(* that is present, and may lose what was there when it fails.             *)
(***************************************************************************)
EngineAnswers(status) ==
  /\ status = "already"   => cur \in works /\ row[cur] = "install"
  /\ status = "no_method" => cur \notin avail
  /\ status \in {"installed", "failed", "mismatch", "manual"} => cur \in avail
  \* a rung that hands off comes before the one that mismatched, or after an error
  /\ status = "manual" => ~second
  /\ CASE status = "installed" -> works' = works \cup {cur}
       [] status \in {"failed", "mismatch"} /\ row[cur] # "install"
                               -> works' \in {works, works \ {cur}}
       [] OTHER                -> works' = works

InstallEnds(status) ==
  /\ pc = "installing" /\ status # "mismatch"
  /\ EngineAnswers(status)
  /\ Conclude(cur, status)
  /\ UNCHANGED <<plan, halted, stop, latch, updating, swept, written>>

\* A first mismatch asks the user, when there is one to ask.
Mismatch(attended) ==
  /\ pc = "installing"
  /\ EngineAnswers("mismatch")
  /\ IF attended /\ ~second
       THEN pc' = "asking" /\ UNCHANGED run
       ELSE Conclude(cur, "mismatch") /\ UNCHANGED halted
  /\ UNCHANGED <<plan, stop, latch, updating, swept, written>>

Again ==
  /\ pc = "asking"
  /\ second' = TRUE /\ pc' = "installing"
  /\ UNCHANGED <<plan, works, cur, outcome, unresolved, halted, stop, latch, updating, swept, written>>

LeaveIt ==
  /\ pc = "asking"
  /\ Conclude(cur, "mismatch")
  /\ UNCHANGED <<plan, works, halted, stop, latch, updating, swept, written>>

(***************************************************************************)
(* An update runs under UpdateService's latch, which is not waited for.    *)
(***************************************************************************)

\* UpdateService.begin, when it succeeds.
Take(who) == latch = "none" /\ latch' = who

StartUpdate(t) ==
  /\ Startable(t) /\ req[t] \cap unresolved = {} /\ row[t] = "update"
  /\ Take("run")
  /\ updating' = updating \cup {"run"}
  /\ cur' = t /\ pc' = "updating"
  /\ UNCHANGED <<plan, works, second, outcome, unresolved, halted, stop, swept, written>>

\* Mutant of UpdateInFlight: the run waits for the latch.
UpdateWaits(t) ==
  /\ Startable(t) /\ req[t] \cap unresolved = {} /\ row[t] = "update"
  /\ latch # "none"
  /\ UNCHANGED vars

UpdateInFlight(t) ==
  /\ Startable(t) /\ req[t] \cap unresolved = {} /\ row[t] = "update"
  /\ latch # "none"
  /\ Record(t, "blocked")
  /\ UNCHANGED <<plan, works, pc, cur, second, unresolved, halted, stop, latch, updating, swept,
                 written>>

\* UpdateService.run, and the `finally` that calls end().  A failed update may
\* have lost the tool (ArchiveSwap's "lost"), which is not looked into.
UpdateEnds(result) ==
  /\ pc = "updating" /\ result \in {"done", "failed", "blocked"}
  /\ latch' = "none" /\ updating' = updating \ {"run"}
  /\ works' \in (IF result = "failed" THEN {works, works \ {cur}} ELSE {works})
  /\ Record(cur, result)
  /\ cur' = NoTool /\ pc' = "row"
  /\ UNCHANGED <<plan, second, unresolved, halted, stop, swept, written>>

StartReconfigure(t) ==
  /\ Startable(t) /\ req[t] \cap unresolved = {} /\ row[t] = "reconfigure"
  /\ cur' = t /\ pc' = "reconfiguring"
  /\ UNCHANGED <<plan, works, second, outcome, unresolved, halted, stop, latch, updating, swept,
                 written>>

ReconfigureEnds(result) ==
  /\ pc = "reconfiguring" /\ result \in {"done", "failed"}
  /\ Record(cur, result)
  /\ cur' = NoTool /\ pc' = "row"
  /\ UNCHANGED <<plan, works, second, unresolved, halted, stop, latch, updating, swept, written>>

\* Any exception of the row: reported, and the run halts.
RowCrashes ==
  /\ pc \in {"installing", "updating", "reconfiguring", "asking"}
  /\ Record(cur, "crashed") /\ halted' = TRUE
  /\ works' \in {works, works \ {cur}}
  /\ IF pc = "updating" THEN latch' = "none" /\ updating' = updating \ {"run"}
                        ELSE UNCHANGED <<latch, updating>>
  /\ cur' = NoTool /\ second' = FALSE /\ pc' = "row"
  /\ UNCHANGED <<plan, unresolved, stop, swept, written>>

\* Mutant of LastRow: only the user's stop is looked at, not a crashed row.
LastRowAfterCrash ==
  /\ pc = "row" /\ Decided = DOMAIN row
  /\ pc' = IF stop THEN "ended" ELSE "sweep"
  /\ UNCHANGED <<plan, works, run, stop, latch, updating, swept, written>>

(***************************************************************************)
(* After the last row: the hook sweep and the run options, or neither.     *)
(***************************************************************************)
LastRow ==
  /\ pc = "row" /\ Decided = DOMAIN row
  /\ pc' = IF halted \/ stop THEN "ended" ELSE "sweep"
  /\ UNCHANGED <<plan, works, run, stop, latch, updating, swept, written>>

\* _resync_hooks: the rows that installed an agent host.
NewHosts ==
  {t \in Hosts \cap DOMAIN row :
     row[t] \in {"install", "repair", "reinstall"} /\ outcome[t] = "done"}

Sweep ==
  /\ pc = "sweep"
  /\ swept' = (NewHosts # {})
  /\ pc' = "options"
  /\ UNCHANGED <<plan, works, run, stop, latch, updating, written>>

\* _apply_run_options: the covered rows whose settings are still to be written.
ToWrite ==
  {t \in (Covered \cap DOMAIN row) \ written : row[t] \in Runnable /\ outcome[t] = "done"}

WriteSettings ==
  /\ pc = "options"
  /\ \E t \in ToWrite : written' = written \cup {t}
  /\ UNCHANGED <<plan, works, pc, run, stop, latch, updating, swept>>

End ==
  /\ pc = "options" /\ ToWrite = {}
  /\ pc' = "ended"
  /\ UNCHANGED <<plan, works, run, stop, latch, updating, swept, written>>

-----------------------------------------------------------------------------
\* action_cancel_run: refused before the run, after it, and during a question.
Cancel ==
  /\ pc \notin {"ready", "rejected", "ended", "asking"} /\ ~stop
  /\ stop' = TRUE
  /\ UNCHANGED <<plan, works, pc, run, latch, updating, swept, written>>

\* A row update started from a catalog screen.
OtherBegins(w) ==
  /\ Take(w)
  /\ updating' = updating \cup {w}
  /\ UNCHANGED <<plan, works, pc, run, stop, swept, written>>

OtherEnds(w) ==
  /\ w \in updating
  /\ latch' = "none" /\ updating' = updating \ {w}
  /\ UNCHANGED <<plan, works, pc, run, stop, swept, written>>

Statuses == {"installed", "already", "failed", "no_method", "manual"}

\* What the run's worker does on its own.
Work ==
  \/ Reject \/ Begin
  \/ \E t \in Tools :
       \/ ReportRow(t) \/ SkipRow(t) \/ DependencyFailed(t)
       \/ StartInstall(t) \/ StartUpdate(t) \/ UpdateInFlight(t) \/ StartReconfigure(t)
  \/ \E s \in Statuses : InstallEnds(s)
  \/ \E attended \in BOOLEAN : Mismatch(attended)
  \/ \E r \in Results : UpdateEnds(r) \/ ReconfigureEnds(r)
  \/ LastRow \/ Sweep \/ WriteSettings \/ End

Next ==
  \/ Work
  \/ RowCrashes
  \/ Again \/ LeaveIt
  \/ Cancel
  \/ \E w \in Others : OtherBegins(w) \/ OtherEnds(w)

Spec == Init /\ [][Next]_vars

\* The run has a worker thread of its own; nothing obliges the user to answer.
FairSpec == Spec /\ WF_vars(Work)
-----------------------------------------------------------------------------
(***************************************************************************)
(* The type of every variable.                                             *)
(***************************************************************************)
TypeOK ==
  /\ req \in Graphs /\ health \in [Tools -> Catalog] /\ avail \subseteq Tools
  /\ selected \subseteq Tools
  /\ DOMAIN row \subseteq Tools /\ \A t \in DOMAIN row : row[t] \in Dispositions
  /\ works \subseteq Tools /\ unresolved \subseteq Tools /\ written \subseteq Tools
  /\ pc \in {"ready", "row", "installing", "updating", "reconfiguring", "asking",
             "sweep", "options", "ended", "rejected"}
  /\ cur \in DOMAIN row \cup {NoTool}
  /\ outcome \in [DOMAIN row -> Results]
  /\ second \in BOOLEAN /\ halted \in BOOLEAN /\ stop \in BOOLEAN /\ swept \in BOOLEAN
  /\ latch \in {"none", "run"} \cup Others /\ updating \subseteq {"run"} \cup Others

(***************************************************************************)
(* No row runs while a tool it requires is not working: whatever was       *)
(* blocked, manual or broken when the plan was made, and whatever failed,  *)
(* was lost or was itself blocked, any number of links away, since then.   *)
(* (deps.py:4-7: an unavailable dependency drops every tool that           *)
(* transitively needs it.)  Not covered: a tool lost by an update that     *)
(* failed, which session.py:67 takes to be impossible.                     *)
(***************************************************************************)
FailedUpdates == {t \in DOMAIN row : row[t] = "update" /\ outcome[t] = "failed"}

NeedsAreMet ==
  pc \in {"installing", "updating", "reconfiguring"} =>
    req[cur] \subseteq works \cup FailedUpdates

(***************************************************************************)
(* The plan drags in nothing for nobody: a tool nobody selected is run     *)
(* only if a chain of rows that are not blocked, each requiring the next,  *)
(* leads to it from a tool that was selected or is already installed (the  *)
(* plan also completes what an installed tool lacks).                      *)
(***************************************************************************)
Wants(t) == {r \in DOMAIN row : t \in req[r] /\ row[r] \notin {"blocked", "manual", "notNeeded"}}

Roots   == {t \in DOMAIN row : t \in selected \/ Settled(health[t])}

DraggedInForSomebody ==
  \A t \in DOMAIN row : row[t] \in Runnable /\ t \notin selected =>
    \E chain \in SUBSET DOMAIN row :
      /\ t \in chain
      /\ \A c \in chain \ Roots : Wants(c) \cap chain # {}

(***************************************************************************)
(* exit_code 0 is the truth: every tool the plan was to install or repair  *)
(* works, unless its row says blocked or manual.                           *)
(***************************************************************************)
Failure == {"failed", "mismatch", "dependency_failed", "not_attempted", "crashed"}

ExitZeroIsTrue ==
  pc = "ended" /\ (\A t \in DOMAIN row : outcome[t] \notin Failure) =>
    \A t \in DOMAIN row :
      row[t] \in {"install", "repair", "reinstall"} /\ outcome[t] \notin {"blocked", "manual"}
        => t \in works

(***************************************************************************)
(* What a run did was asked for, and what it says of it in its exit code   *)
(* is true.                                                                *)
(***************************************************************************)
RunIsAccountedFor == DraggedInForSomebody /\ ExitZeroIsTrue

(***************************************************************************)
(* A run that halted or was stopped before its last row leaves the         *)
(* machine's hooks and settings alone, and settings are written only for   *)
(* rows that ended done.                                                   *)
(***************************************************************************)
HaltedWritesNothing ==
  /\ \A t \in written : outcome[t] = "done"
  /\ halted => ~swept /\ written = {}

(***************************************************************************)
(* At most one update runs at a time, from this run or from a catalog      *)
(* screen, and the run never ends holding the latch.                       *)
(***************************************************************************)
UpdatesExclude ==
  /\ Cardinality(updating) <= 1
  /\ pc = "ended" => latch # "run"

(***************************************************************************)
(* A run takes turns with the updates of other screens, and what follows   *)
(* its last row happens only when the rows allow it.                       *)
(***************************************************************************)
TailIsOrderly == HaltedWritesNothing /\ UpdatesExclude

(***************************************************************************)
(* The run ends, or waits for ever for an answer nobody gives.             *)
(***************************************************************************)
RunEnds == <>[](pc \in {"ended", "rejected", "asking"})
=============================================================================
