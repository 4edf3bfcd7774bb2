--------------------------------- MODULE Plan ---------------------------------
(***************************************************************************)
(* The install plan: installer/deps.py (resolve_dependencies) and          *)
(* installer/session.py (build_plan).  A pure computation from the         *)
(* selected tools, the registry and the published state of each tool to    *)
(* one disposition per row.                                                *)
(*                                                                         *)
(* `req` maps each tool to the tools it requires; the registry is acyclic  *)
(* (a cycle raises DependencyCycleError and there is no plan).             *)
(***************************************************************************)
EXTENDS Naturals

CONSTANT Tools       \* the catalog

Healths == {"checking", "missing", "unavailable", "broken", "misconfigured",
            "outdated", "ok"}
Dispositions == {"wait", "install", "update", "repair", "reconfigure",
                 "reinstall", "skip", "notNeeded", "blocked", "manual"}
Runnable == {"install", "update", "repair", "reconfigure", "reinstall"}

\* No cycle: every set of tools has one that requires none of the set.  The registry
\* has none, and topo raises DependencyCycleError for one it meets.
Acyclic(req) == \A S \in SUBSET Tools : S # {} => \E t \in S : req[t] \cap S = {}

\* The states in which a published tool is present and not broken.
Settled(h) == h \in {"misconfigured", "outdated", "ok"}

(***************************************************************************)
(* collect: the selected tools and everything they transitively require.   *)
(***************************************************************************)
Wanted(req, selected) ==
  LET needs[t \in Tools] == {t} \cup UNION {needs[d] : d \in req[t]}
  IN  UNION {needs[t] : t \in selected}

(***************************************************************************)
(* is_blocked: not installed, and itself or something it requires has no   *)
(* method on this platform.                                                *)
(***************************************************************************)
BlockedTools(req, health, avail) ==
  LET blocked[t \in Tools] ==
        /\ ~Settled(health[t])
        /\ t \notin avail \/ \E d \in req[t] : blocked[d]
  IN  {t \in Tools : blocked[t]}

(***************************************************************************)
(* _row: the dispositions a tool's published state allows.  Ownership, the *)
(* first method's kind, the configuration steps and the reinstall toggle   *)
(* decide which.                                                           *)
(***************************************************************************)
RowFor(h, direct) ==
  CASE h = "checking"    -> {"wait"}
    [] h = "missing"     -> {"install", "manual"}
    [] h = "unavailable" -> {"skip"}
    [] h = "broken"      -> {"repair", "manual", "blocked"}
    [] h # "broken" /\ Settled(h) /\ ~direct -> {"skip"}
    [] h = "misconfigured" /\ direct -> {"reconfigure", "blocked"}
    [] h = "outdated" /\ direct      -> {"update", "skip"}
    [] h = "ok" /\ direct            -> {"skip", "reinstall", "manual"}

\* _row for the closure, _blocked_row for the rows resolve_dependencies blocked.
FirstRow(req, health, avail, base) ==
  [t \in Tools |->
     IF t \notin BlockedTools(req, health, avail) THEN base[t]
     ELSE IF health[t] = "checking" THEN "wait" ELSE "blocked"]

(***************************************************************************)
(* The forward pass: a runnable row that needs an unsatisfied tool is      *)
(* blocked, and is unsatisfied in turn unless it is already installed.     *)
(* Rows are in dependency order, so one pass over them is this recursion.  *)
(***************************************************************************)
Unsatisfied(req, health, first) ==
  LET unsat[t \in Tools] ==
        /\ ~Settled(health[t])
        /\ \/ first[t] \in {"blocked", "manual"}
           \/ first[t] \in Runnable /\ \E d \in req[t] : unsat[d]
  IN  {t \in Tools : unsat[t]}

NeedsRow(req, health, first) ==
  [t \in Tools |->
     IF first[t] \in Runnable /\ req[t] \cap Unsatisfied(req, health, first) # {}
       THEN "blocked" ELSE first[t]]

(***************************************************************************)
(* The backward pass: a tool nobody selected is not needed when every row  *)
(* that requires it is blocked, manual or itself not needed.               *)
(***************************************************************************)
NotNeeded(req, selected, wanted, second) ==
  LET requiring(t) == {r \in wanted : t \in req[r]}
      idle[t \in Tools] ==
        /\ second[t] \in Runnable /\ t \notin selected
        /\ requiring(t) # {}
        /\ \A r \in requiring(t) : second[r] \in {"blocked", "manual"} \/ idle[r]
  IN  {t \in wanted : idle[t]}

\* build_plan.  `base` is what _row says of each tool taken alone.
BuildPlan(req, health, avail, selected, base) ==
  LET first  == FirstRow(req, health, avail, base)
      second == NeedsRow(req, health, first)
      wanted == Wanted(req, selected)
      idle   == NotNeeded(req, selected, wanted, second)
  IN  [t \in wanted |-> IF t \in idle THEN "notNeeded" ELSE second[t]]
=============================================================================
