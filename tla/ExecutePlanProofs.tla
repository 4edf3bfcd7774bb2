-------------------------- MODULE ExecutePlanProofs --------------------------
(***************************************************************************)
(* Machine-checked proofs about ExecutePlan, for any tools, acyclic        *)
(* registries, plans, agent hosts and update workers: what a run shares    *)
(* with the other screens, what it leaves alone when it did not get to its *)
(* end, that it runs nothing before what that needs, and that its exit     *)
(* code is true.                                                           *)
(***************************************************************************)
EXTENDS ExecutePlan, FiniteSetTheorems, TLAPS

\* Who is inside UpdateService.run holds the latch; the run does while it updates.
LatchInv ==
  /\ updating = IF latch = "none" THEN {} ELSE {latch}
  /\ latch = "run" <=> pc = "updating"

\* The hook sweep and the run options come after a last row with no halt before it.
TailInv ==
  /\ pc \notin {"options", "ended"} => written = {} /\ ~swept
  /\ pc \in {"sweep", "options"} => ~halted
  /\ HaltedWritesNothing

IInv == LatchInv /\ TailInv

LEMMA InitInv == Init => IInv
  BY DEF Init, IInv, LatchInv, TailInv, HaltedWritesNothing

LEMMA LatchStep == LatchInv /\ [Next]_vars => LatchInv'
<1> SUFFICES ASSUME LatchInv, [Next]_vars PROVE LatchInv'
  OBVIOUS
<1> USE ExecuteAssumption DEF ExecuteAssumption, LatchInv
<1>1. CASE UNCHANGED <<latch, updating>> /\ pc # "updating" /\ pc' # "updating"
  BY <1>1
<1>2. ASSUME NEW t \in Tools, StartUpdate(t) PROVE LatchInv'
  BY <1>2 DEF StartUpdate, Startable, Take
<1>3. ASSUME NEW r \in Results, UpdateEnds(r) PROVE LatchInv'
  BY <1>3 DEF UpdateEnds
<1>4. CASE RowCrashes
  BY <1>4 DEF RowCrashes
<1>5. CASE Cancel \/ UNCHANGED vars
  BY <1>5 DEF Cancel, vars
<1>6. ASSUME NEW w \in Others, OtherBegins(w) \/ OtherEnds(w) PROVE LatchInv'
  BY <1>6 DEF OtherBegins, OtherEnds, Take
<1>7. CASE Reject \/ Begin \/ LastRow \/ Sweep \/ WriteSettings \/ End \/ Again
  BY <1>1, <1>7 DEF Reject, Begin, LastRow, Sweep, WriteSettings, End, Again
<1>8. ASSUME NEW t \in Tools,
             \/ ReportRow(t) \/ SkipRow(t) \/ DependencyFailed(t)
             \/ StartInstall(t) \/ UpdateInFlight(t) \/ StartReconfigure(t)
      PROVE  LatchInv'
  BY <1>1, <1>8 DEF ReportRow, SkipRow, DependencyFailed, StartInstall, UpdateInFlight,
         StartReconfigure, Startable, Conclude
<1>9. ASSUME NEW s \in Statuses, InstallEnds(s) PROVE LatchInv'
  BY <1>1, <1>9 DEF InstallEnds, Conclude
<1>10. CASE LeaveIt
  BY <1>1, <1>10 DEF LeaveIt, Conclude
<1>11. ASSUME NEW attended \in BOOLEAN, Mismatch(attended) PROVE LatchInv'
  BY <1>1, <1>11 DEF Mismatch, Conclude, run
<1>12. ASSUME NEW r \in Results, ReconfigureEnds(r) PROVE LatchInv'
  BY <1>1, <1>12 DEF ReconfigureEnds
<1> QED
  BY <1>2, <1>3, <1>4, <1>5, <1>6, <1>7, <1>8, <1>9, <1>10, <1>11, <1>12 DEF Next, Work

LEMMA TailStep == TailInv /\ [Next]_vars => TailInv'
<1> SUFFICES ASSUME TailInv, [Next]_vars PROVE TailInv'
  OBVIOUS
<1> USE DEF TailInv, HaltedWritesNothing
\* Nothing is written before the last row is through.
<1>1. CASE /\ pc \notin {"sweep", "options", "ended"} /\ pc' \notin {"sweep", "options", "ended"}
           /\ UNCHANGED <<swept, written>>
  BY <1>1
<1>2. CASE LastRow
  BY <1>2 DEF LastRow, run
<1>3. CASE Sweep
  BY <1>3 DEF Sweep, run
<1>4. CASE WriteSettings
  BY <1>4 DEF WriteSettings, ToWrite, run
<1>5. CASE End \/ Cancel \/ UNCHANGED vars
  BY <1>5 DEF End, Cancel, vars, run
<1>6. ASSUME NEW w \in Others, OtherBegins(w) \/ OtherEnds(w) PROVE TailInv'
  BY <1>6 DEF OtherBegins, OtherEnds, run
<1>7. CASE Reject \/ Begin \/ Again \/ RowCrashes
  BY <1>1, <1>7 DEF Reject, Begin, Again, RowCrashes
<1>8. ASSUME NEW t \in Tools,
             \/ ReportRow(t) \/ SkipRow(t) \/ DependencyFailed(t)
             \/ StartInstall(t) \/ StartUpdate(t) \/ UpdateInFlight(t) \/ StartReconfigure(t)
      PROVE  TailInv'
  BY <1>1, <1>8 DEF ReportRow, SkipRow, DependencyFailed, StartInstall, StartUpdate,
         UpdateInFlight, StartReconfigure, Startable, Conclude
<1>9. ASSUME NEW s \in Statuses, InstallEnds(s) PROVE TailInv'
  BY <1>1, <1>9 DEF InstallEnds, Conclude
<1>10. CASE LeaveIt
  BY <1>1, <1>10 DEF LeaveIt, Conclude
<1>11. ASSUME NEW attended \in BOOLEAN, Mismatch(attended) PROVE TailInv'
  BY <1>1, <1>11 DEF Mismatch, Conclude, run
<1>12. ASSUME NEW r \in Results, UpdateEnds(r) \/ ReconfigureEnds(r) PROVE TailInv'
  BY <1>1, <1>12 DEF UpdateEnds, ReconfigureEnds
<1> QED
  BY <1>2, <1>3, <1>4, <1>5, <1>6, <1>7, <1>8, <1>9, <1>10, <1>11, <1>12 DEF Next, Work

(***************************************************************************)
(* At most one update runs, whoever began it, a run never ends with the    *)
(* latch, and one that halted leaves hooks and settings alone              *)
(* (UpdateService.begin and end, the tail of execute_plan).                *)
(***************************************************************************)
THEOREM TailAlwaysOrderly == Spec => []TailIsOrderly
<1>1. IInv => TailIsOrderly
  <2> SUFFICES ASSUME IInv PROVE HaltedWritesNothing /\ UpdatesExclude
    BY DEF TailIsOrderly
  <2>1. updating = {} \/ \E who : updating = {who}
    BY DEF IInv, LatchInv
  <2>2. Cardinality(updating) <= 1
    <3>1. CASE updating = {}
      <4>1. Cardinality({}) = 0
        BY FS_EmptySet
      <4> QED
        BY <3>1, <4>1
    <3>2. CASE \E who : updating = {who}
      <4>1. PICK who : updating = {who}
        BY <3>2
      <4>2. Cardinality({who}) = 1
        BY FS_Singleton
      <4> QED
        BY <4>1, <4>2
    <3> QED
      BY <2>1, <3>1, <3>2
  <2> QED
    BY <2>2 DEF IInv, LatchInv, TailInv, UpdatesExclude
<1>2. IInv /\ [Next]_vars => IInv'
  BY LatchStep, TailStep DEF IInv
<1> QED
  BY <1>1, <1>2, InitInv, PTL DEF Spec

-----------------------------------------------------------------------------
(***************************************************************************)
(* The plan.  Each recursive function of Plan is a least fixpoint, so it   *)
(* exists and satisfies its equation, whatever the graph.                  *)
(***************************************************************************)
Least(A, C, g) ==
  {t \in Tools : \A X \in SUBSET Tools :
     (\A u \in Tools : u \in A /\ (u \in C \/ g[u] \cap X # {}) => u \in X) => t \in X}

LEMMA LeastFixpoint ==
  ASSUME NEW A, NEW C, NEW g
  PROVE  \A t \in Tools :
           t \in Least(A, C, g) <=> t \in A /\ (t \in C \/ g[t] \cap Least(A, C, g) # {})
<1> DEFINE L       == Least(A, C, g)
           Step(X) == {u \in Tools : u \in A /\ (u \in C \/ g[u] \cap X # {})}
<1>1. \A X \in SUBSET Tools : Step(X) \subseteq X => L \subseteq X
  BY DEF Least
<1>2. \A t \in Tools : (\A X \in SUBSET Tools : Step(X) \subseteq X => t \in X) => t \in L
  BY DEF Least
<1>3. \A X, Y \in SUBSET Tools : X \subseteq Y => Step(X) \subseteq Step(Y)
  OBVIOUS
<1>4. L \in SUBSET Tools /\ \A X \in SUBSET Tools : Step(X) \in SUBSET Tools
  BY DEF Least
<1> HIDE DEF L
<1>5. Step(L) \subseteq L
  <2> SUFFICES ASSUME NEW t \in Step(L), NEW X \in SUBSET Tools, Step(X) \subseteq X
               PROVE  t \in X
    BY <1>2, <1>4
  <2> HIDE DEF Step
  <2> QED
    BY <1>1, <1>3, <1>4
<1>6. L \subseteq Step(L)
  <2> HIDE DEF Step
  <2> QED
    BY <1>1, <1>3, <1>4, <1>5
<1> QED
  BY <1>5, <1>6 DEF L

LEMMA Blocking ==
  ASSUME NEW g \in [Tools -> SUBSET Tools], NEW h, NEW a
  PROVE  \A t \in Tools : t \in BlockedTools(g, h, a) <=>
           ~Settled(h[t]) /\ (t \notin a \/ g[t] \cap BlockedTools(g, h, a) # {})
<1> DEFINE P(f) == f = [t \in Tools |-> /\ ~Settled(h[t])
                                        /\ t \notin a \/ \E d \in g[t] : f[d]]
           b == CHOOSE f : P(f)
           A == {t \in Tools : ~Settled(h[t])}
           C == Tools \ a
           L == Least(A, C, g)
<1>1. BlockedTools(g, h, a) = {t \in Tools : b[t]}
  BY DEF BlockedTools
<1>2. \A t \in Tools : t \in L <=> ~Settled(h[t]) /\ (t \notin a \/ g[t] \cap L # {})
  <2> HIDE DEF A, C
  <2>1. \A t \in Tools : t \in L <=> t \in A /\ (t \in C \/ g[t] \cap L # {})
    BY LeastFixpoint
  <2> HIDE DEF L
  <2> QED
    BY <2>1 DEF A, C
<1> HIDE DEF L
<1>3. P([t \in Tools |-> t \in L])
  <2> DEFINE f == [t \in Tools |-> t \in L]
  <2>1. \A t \in Tools : \A d \in g[t] : f[d] <=> d \in L
    OBVIOUS
  <2>2. \A t \in Tools : t \in L <=> ~Settled(h[t]) /\ (t \notin a \/ \E d \in g[t] : f[d])
    BY <1>2, <2>1
  <2>3. \A t \in Tools : f[t] = (~Settled(h[t]) /\ (t \notin a \/ \E d \in g[t] : f[d]))
    <3>1. \A t \in Tools : f[t] = (t \in L)
      OBVIOUS
    <3> HIDE DEF f
    <3> QED
      <4> TAKE t \in Tools
      <4> DEFINE e == ~Settled(h[t]) /\ (t \notin a \/ \E d \in g[t] : f[d])
      <4>1. (t \in L) <=> e
        BY <2>2
      <4>2. f[t] = (t \in L)
        BY <3>1
      <4> HIDE DEF e
      <4>3. f[t] = e
        <5>1. CASE e
          BY <4>1, <4>2, <5>1
        <5>2. CASE ~e
          BY <4>1, <4>2, <5>2
        <5> QED
          BY <5>1, <5>2
      <4> QED
        BY <4>3 DEF e
  <2>4. f = [t \in Tools |-> f[t]]
    OBVIOUS
  <2> HIDE DEF f
  <2>5. P(f)
    BY <2>3, <2>4
  <2> QED
    BY <2>5 DEF f
<1>4. P(b)
  BY <1>3
<1>5. \A t \in Tools : b[t] <=> ~Settled(h[t]) /\ (t \notin a \/ \E d \in g[t] : b[d])
  BY <1>4
<1> QED
  BY <1>1, <1>5

LEMMA Unsatisfying ==
  ASSUME NEW g \in [Tools -> SUBSET Tools], NEW h, NEW first
  PROVE  \A t \in Tools : t \in Unsatisfied(g, h, first) <=>
           /\ ~Settled(h[t])
           /\ \/ first[t] \in {"blocked", "manual"}
              \/ first[t] \in Runnable /\ g[t] \cap Unsatisfied(g, h, first) # {}
<1> DEFINE P(f) == f = [t \in Tools |->
                          /\ ~Settled(h[t])
                          /\ \/ first[t] \in {"blocked", "manual"}
                             \/ first[t] \in Runnable /\ \E d \in g[t] : f[d]]
           b == CHOOSE f : P(f)
           G == [t \in Tools |-> IF first[t] \in Runnable THEN g[t] ELSE {}]
           A == {t \in Tools : ~Settled(h[t])}
           C == {t \in Tools : first[t] \in {"blocked", "manual"}}
           L == Least(A, C, G)
<1>1. Unsatisfied(g, h, first) = {t \in Tools : b[t]}
  BY DEF Unsatisfied
<1>2. \A t \in Tools : t \in L <=>
        ~Settled(h[t]) /\ (first[t] \in {"blocked", "manual"} \/ G[t] \cap L # {})
  <2> HIDE DEF A, C, G
  <2>1. \A t \in Tools : t \in L <=> t \in A /\ (t \in C \/ G[t] \cap L # {})
    BY LeastFixpoint
  <2> HIDE DEF L
  <2> QED
    BY <2>1 DEF A, C
<1> HIDE DEF L
<1>3. P([t \in Tools |-> t \in L])
  <2> DEFINE f == [t \in Tools |-> t \in L]
  <2>1. \A t \in Tools : \A d \in g[t] : f[d] <=> d \in L
    OBVIOUS
  <2>2. \A t \in Tools : G[t] \cap L # {} <=> first[t] \in Runnable /\ \E d \in g[t] : f[d]
    BY <2>1
  <2>3. \A t \in Tools : t \in L <=>
          /\ ~Settled(h[t])
          /\ \/ first[t] \in {"blocked", "manual"}
             \/ first[t] \in Runnable /\ \E d \in g[t] : f[d]
    BY <1>2, <2>2
  <2>4. \A t \in Tools : f[t] =
          (/\ ~Settled(h[t])
           /\ \/ first[t] \in {"blocked", "manual"}
              \/ first[t] \in Runnable /\ \E d \in g[t] : f[d])
    <3>1. \A t \in Tools : f[t] = (t \in L)
      OBVIOUS
    <3> HIDE DEF f, G
    <3> QED
      <4> TAKE t \in Tools
      <4> DEFINE e == /\ ~Settled(h[t])
               /\ \/ first[t] \in {"blocked", "manual"}
                  \/ first[t] \in Runnable /\ \E d \in g[t] : f[d]
      <4>1. (t \in L) <=> e
        BY <2>3
      <4>2. f[t] = (t \in L)
        BY <3>1
      <4> HIDE DEF e
      <4>3. f[t] = e
        <5>1. CASE e
          BY <4>1, <4>2, <5>1
        <5>2. CASE ~e
          BY <4>1, <4>2, <5>2
        <5> QED
          BY <5>1, <5>2
      <4> QED
        BY <4>3 DEF e
  <2>5. f = [t \in Tools |-> f[t]]
    OBVIOUS
  <2> HIDE DEF f, G
  <2>6. P(f)
    BY <2>4, <2>5
  <2> QED
    BY <2>6 DEF f
<1>4. P(b)
  BY <1>3
<1>5. \A t \in Tools : b[t] <=>
        /\ ~Settled(h[t])
        /\ \/ first[t] \in {"blocked", "manual"}
           \/ first[t] \in Runnable /\ \E d \in g[t] : b[d]
  BY <1>4
<1> QED
  BY <1>1, <1>5

LEMMA Idling ==
  ASSUME NEW g, NEW chosen, NEW wanted \in SUBSET Tools, NEW disp
  PROVE  \A t \in wanted : t \in NotNeeded(g, chosen, wanted, disp) <=>
           /\ disp[t] \in Runnable /\ t \notin chosen /\ \E r \in wanted : t \in g[r]
           /\ \A r \in wanted : t \in g[r] =>
                disp[r] \in {"blocked", "manual"} \/ r \in NotNeeded(g, chosen, wanted, disp)
<1> DEFINE requiring(t) == {r \in wanted : t \in g[r]}
           P(f) == f = [t \in Tools |->
                          /\ disp[t] \in Runnable /\ t \notin chosen
                          /\ requiring(t) # {}
                          /\ \A r \in requiring(t) : disp[r] \in {"blocked", "manual"} \/ f[r]]
           b == CHOOSE f : P(f)
           C == {t \in Tools : ~(disp[t] \in Runnable /\ t \notin chosen /\ requiring(t) # {})}
           G == [t \in Tools |-> {r \in requiring(t) : disp[r] \notin {"blocked", "manual"}}]
           L == Least(Tools, C, G)
<1>1. NotNeeded(g, chosen, wanted, disp) = {t \in wanted : b[t]}
  BY DEF NotNeeded
<1>2. \A t \in Tools : t \in L <=> t \in C \/ G[t] \cap L # {}
  BY LeastFixpoint
<1> HIDE DEF L
<1>3. P([t \in Tools |-> t \notin L])
  BY <1>2
<1>4. P(b)
  BY <1>3
<1>5. \A t \in Tools : b[t] <=>
        /\ disp[t] \in Runnable /\ t \notin chosen
        /\ requiring(t) # {}
        /\ \A r \in requiring(t) : disp[r] \in {"blocked", "manual"} \/ b[r]
  BY <1>4
<1> QED
  BY <1>1, <1>5

LEMMA Wanting ==
  ASSUME NEW g \in [Tools -> SUBSET Tools], Acyclic(g), NEW chosen \in SUBSET Tools
  PROVE  /\ Wanted(g, chosen) \subseteq Tools
         /\ \A t \in Wanted(g, chosen) :
              /\ g[t] \subseteq Wanted(g, chosen)
              /\ t \in chosen \/ \E r \in Wanted(g, chosen) : t \in g[r]
<1> DEFINE P(f) == f = [t \in Tools |-> {t} \cup UNION {f[d] : d \in g[t]}]
           n == CHOOSE f : P(f)
           L(u) == Least(Tools, {u}, g)
           N == [t \in Tools |-> {u \in Tools : t \in L(u)}]
<1>1. Wanted(g, chosen) = UNION {n[t] : t \in chosen}
  BY DEF Wanted
<1>2. \A u, t \in Tools : t \in L(u) <=> t = u \/ g[t] \cap L(u) # {}
  BY LeastFixpoint
<1>3. \A u : L(u) \subseteq Tools
  BY DEF Least
<1> HIDE DEF L
<1>4. P(N)
  <2>1. \A t \in Tools : N[t] = {t} \cup UNION {N[d] : d \in g[t]}
    <3> TAKE t \in Tools
    <3>1. \A u \in Tools : u \in N[t] <=> u = t \/ \E d \in g[t] : u \in N[d]
      BY <1>2
    <3>2. N[t] \subseteq Tools /\ \A d \in g[t] : N[d] \subseteq Tools
      OBVIOUS
    <3> HIDE DEF N
    <3> QED
      BY <3>1, <3>2
  <2>2. N = [t \in Tools |-> N[t]]
    OBVIOUS
  <2> HIDE DEF N
  <2> QED
    BY <2>1, <2>2
<1>5. P(n)
  <2> HIDE DEF P, N
  <2> QED
    BY <1>4
<1>6. \A t \in Tools : n[t] = {t} \cup UNION {n[d] : d \in g[t]}
  BY <1>5
<1> HIDE DEF n
<1> DEFINE Good(s) == /\ n[s] \subseteq Tools
                      /\ \A t \in n[s] : /\ g[t] \subseteq n[s]
                                         /\ t = s \/ \E r \in n[s] : t \in g[r]
           Bad == {s \in Tools : ~Good(s)}
<1>7. Bad = {}
  <2> SUFFICES ASSUME Bad # {} PROVE FALSE
    OBVIOUS
  <2>1. PICK s \in Bad : g[s] \cap Bad = {}
    BY DEF Acyclic
  <2>2. s \in Tools /\ \A d \in g[s] : Good(d)
    BY <2>1
  <2>3. n[s] = {s} \cup UNION {n[d] : d \in g[s]}
    BY <1>6
  <2>4. n[s] \subseteq Tools
    BY <2>2, <2>3
  <2>5. ASSUME NEW t \in n[s]
        PROVE  g[t] \subseteq n[s] /\ (t = s \/ \E r \in n[s] : t \in g[r])
    <3>1. CASE t = s
      <4>1. \A d \in g[s] : d \in n[d]
        BY <1>6, <2>2
      <4> QED
        BY <3>1, <4>1, <2>3
    <3>2. CASE \E d \in g[s] : t \in n[d]
      <4>1. PICK d \in g[s] : t \in n[d]
        BY <3>2
      <4>2. n[d] \subseteq n[s] /\ s \in n[s]
        BY <2>3
      <4>3. g[t] \subseteq n[d] /\ (t = d \/ \E r \in n[d] : t \in g[r])
        BY <2>2, <4>1
      <4> QED
        BY <4>1, <4>2, <4>3
    <3> QED
      BY <2>3, <3>1, <3>2
  <2>6. Good(s)
    BY <2>4, <2>5
  <2> QED
    BY <2>1, <2>6
<1>8. \A s \in Tools : Good(s)
  BY <1>7
<1> QED
  BY <1>1, <1>8

-----------------------------------------------------------------------------
(***************************************************************************)
(* The rows.                                                               *)
(***************************************************************************)
\* A row that is to run requires rows that are to run, that the user was told to do,
\* that are still checking, or whose tool is there.
PlanInv ==
  /\ DOMAIN row \subseteq Tools /\ \A t \in DOMAIN row : row[t] \in Dispositions
  /\ \A t \in DOMAIN row : req[t] \subseteq DOMAIN row /\ t \notin req[t]
  /\ \A t \in DOMAIN row : row[t] \in {"update", "reconfigure", "reinstall"} => Settled(health[t])
  /\ \A t \in DOMAIN row : row[t] \in Runnable => \A d \in req[t] :
       /\ row[d] # "notNeeded"
       /\ row[d] = "blocked" \/ (row[d] = "skip" /\ ~Torn) => Settled(health[d])
       /\ d \in BlockedTools(req, health, avail) => row[d] = "wait"

\* The results of a row that do not claim its tool.
Excused == Failure \cup {"none", "blocked", "manual"}

Busy == {"installing", "updating", "reconfiguring", "asking"}

\* The running row.
CurInv ==
  /\ IF pc \in Busy THEN cur \in DOMAIN row /\ outcome[cur] = "none" ELSE cur = NoTool
  /\ pc \in {"installing", "asking"} => row[cur] \in {"install", "repair", "reinstall"}
  /\ pc = "updating" => row[cur] = "update"
  /\ pc = "reconfiguring" => row[cur] = "reconfigure"
  /\ second => pc = "installing"
  /\ pc = "asking" \/ second => cur \in avail
  /\ pc \in Busy /\ ~Torn => req[cur] \subseteq works \cup FailedUpdates

\* Where every tool of the plan is, before its row and after it.
RowInv ==
  /\ DOMAIN outcome = DOMAIN row
  /\ pc \notin {"ready", "rejected"} => \A t \in DOMAIN row : row[t] # "wait"
  /\ pc \in {"sweep", "options", "ended"} => \A t \in DOMAIN row : outcome[t] # "none"
  /\ \A t \in DOMAIN row : Settled(health[t]) /\ outcome[t] = "none" =>
       t \in works \/ (t = cur /\ (pc = "asking" \/ second))
  /\ \A t \in DOMAIN row : outcome[t] # "none" =>
       \/ halted \/ t \in works \cup FailedUpdates \cup unresolved
       \/ row[t] = "notNeeded" \/ (row[t] \in {"skip", "blocked"} /\ ~Settled(health[t]))
  /\ \A t \in DOMAIN row :
       row[t] \in {"install", "repair", "reinstall"} /\ outcome[t] \notin Excused
         => t \in works

PlanRunInv == PlanInv /\ CurInv /\ RowInv

LEMMA PlanMade == Init => PlanInv
<1> SUFFICES ASSUME Init PROVE PlanInv
  OBVIOUS
<1>1. PICK base \in [Tools -> Dispositions] :
        /\ \A t \in Tools : base[t] \in RowFor(health[t], t \in selected)
        /\ row = BuildPlan(req, health, avail, selected, base)
  BY DEF Init
<1> DEFINE blocked == BlockedTools(req, health, avail)
           first   == FirstRow(req, health, avail, base)
           unsat   == Unsatisfied(req, health, first)
           disp    == NeedsRow(req, health, first)
           wanted  == Wanted(req, selected)
           idle    == NotNeeded(req, selected, wanted, disp)
<1>2. /\ req \in [Tools -> SUBSET Tools] /\ Acyclic(req) /\ selected \in SUBSET Tools
      /\ \A t \in Tools : health[t] \in Healths
      /\ \A t \in Tools : ~Torn /\ health[t] = "unavailable" => t \notin avail
  BY ExecuteAssumption DEF Init, ExecuteAssumption
<1>3. row = [t \in wanted |-> IF t \in idle THEN "notNeeded" ELSE disp[t]]
  BY <1>1 DEF BuildPlan
<1>4. \A t \in Tools : t \in blocked <=>
        ~Settled(health[t]) /\ (t \notin avail \/ req[t] \cap blocked # {})
  BY <1>2, Blocking
<1>5. \A t \in Tools : t \in unsat <=>
        /\ ~Settled(health[t])
        /\ \/ first[t] \in {"blocked", "manual"}
           \/ first[t] \in Runnable /\ req[t] \cap unsat # {}
  BY <1>2, Unsatisfying
<1>6. wanted \subseteq Tools /\ \A t \in wanted : req[t] \subseteq wanted
  BY <1>2, Wanting
<1>7. \A t \in wanted : t \in idle =>
        \A r \in wanted : t \in req[r] => disp[r] \in {"blocked", "manual"} \/ r \in idle
  BY <1>6, Idling
<1>8. \A t \in Tools : first[t] = IF t \notin blocked THEN base[t]
                                  ELSE IF health[t] = "checking" THEN "wait" ELSE "blocked"
  BY DEF FirstRow
<1>9. \A t \in Tools : disp[t] = IF first[t] \in Runnable /\ req[t] \cap unsat # {}
                                   THEN "blocked" ELSE first[t]
  BY DEF NeedsRow
<1>10. \A t \in Tools :
         /\ base[t] # "notNeeded"
         /\ base[t] = "skip" => health[t] = "unavailable" \/ Settled(health[t])
         /\ base[t] \in {"update", "reconfigure", "reinstall"} => Settled(health[t])
  BY <1>1, <1>2 DEF RowFor, Healths, Settled
<1> HIDE DEF blocked, first, unsat, disp, wanted, idle
<1>11. \A t \in Tools : base[t] \in Dispositions
  BY <1>1
<1>12. DOMAIN row = wanted /\ \A t \in wanted : row[t] = IF t \in idle THEN "notNeeded" ELSE disp[t]
  BY <1>3
<1>13. \A t \in DOMAIN row : row[t] \in Dispositions
  BY <1>6, <1>8, <1>9, <1>11, <1>12 DEF Dispositions
<1>14. \A t \in Tools : t \notin req[t]
  <2> TAKE t \in Tools
  <2>1. PICK u \in {t} : req[u] \cap {t} = {}
    BY <1>2 DEF Acyclic
  <2> QED
    BY <2>1
<1>15. \A t \in DOMAIN row : row[t] \in {"update", "reconfigure", "reinstall"} => Settled(health[t])
  BY <1>6, <1>8, <1>9, <1>10, <1>12
<1>16. ASSUME NEW t \in DOMAIN row, row[t] \in Runnable, NEW d \in req[t]
       PROVE  /\ row[d] # "notNeeded"
              /\ row[d] = "blocked" \/ (row[d] = "skip" /\ ~Torn) => Settled(health[d])
              /\ d \in blocked => row[d] = "wait"
  <2>1. t \in wanted /\ d \in wanted /\ t \in Tools /\ d \in Tools
    BY <1>6, <1>12
  <2>2. row[t] = disp[t] /\ t \notin idle /\ disp[t] \notin {"blocked", "manual"}
    BY <1>12, <1>16, <2>1 DEF Runnable
  <2>3. d \notin idle
    BY <1>7, <2>1, <2>2
  <2>4. row[d] = disp[d]
    BY <1>12, <2>1, <2>3
  <2>5. disp[t] = first[t] /\ d \notin unsat
    BY <1>9, <1>16, <2>1, <2>2
  <2>6. row[d] # "notNeeded"
    BY <1>8, <1>9, <1>10, <2>1, <2>4
  <2>7. d \in blocked => row[d] = "wait"
    BY <1>4, <1>5, <1>8, <1>9, <2>1, <2>4, <2>5 DEF Runnable
  <2>8. row[d] = "blocked" => Settled(health[d])
    BY <1>5, <1>9, <2>1, <2>4, <2>5
  <2>9. row[d] = "skip" /\ ~Torn => Settled(health[d])
    <3> SUFFICES ASSUME row[d] = "skip", ~Torn, ~Settled(health[d]) PROVE FALSE
      OBVIOUS
    <3>1. d \notin blocked /\ base[d] = "skip"
      BY <1>8, <1>9, <2>1, <2>4
    <3>2. health[d] = "unavailable"
      BY <1>10, <2>1, <3>1
    <3> QED
      BY <1>2, <1>4, <2>1, <3>1, <3>2
  <2> QED
    BY <2>6, <2>7, <2>8, <2>9
<1> QED
  BY <1>6, <1>12, <1>13, <1>14, <1>15, <1>16 DEF PlanInv, blocked

LEMMA RowsBegin == Init => PlanRunInv
<1> SUFFICES ASSUME Init PROVE PlanRunInv
  OBVIOUS
<1>1. CurInv
  BY DEF Init, CurInv, Busy
<1>2. RowInv
  BY PlanMade DEF Init, RowInv, PlanInv, Excused
<1> QED
  BY <1>1, <1>2, PlanMade DEF PlanRunInv

\* The plan stands, and what is recorded of a row stays.
LEMMA PlanStays == ASSUME PlanInv, UNCHANGED plan PROVE PlanInv'
  BY DEF PlanInv, plan

\* A row that may start finds what it requires.
LEMMA StartIsMet ==
  ASSUME PlanRunInv, NEW t, Startable(t), req[t] \cap unresolved = {}, ~Torn
  PROVE  req[t] \subseteq works \cup FailedUpdates
<1> SUFFICES ASSUME NEW d \in req[t] PROVE d \in works \cup FailedUpdates
  OBVIOUS
<1>1. /\ t \in DOMAIN row /\ row[t] \in Runnable /\ ~halted /\ pc = "row"
      /\ d \in Decided \cup BlockedTools(req, health, avail)
  BY DEF Startable, NextRows
<1>2. /\ d \in DOMAIN row /\ row[d] # "wait" /\ row[d] # "notNeeded"
      /\ row[d] \in {"blocked", "skip"} => Settled(health[d])
      /\ d \notin BlockedTools(req, health, avail)
  BY <1>1 DEF PlanRunInv, PlanInv, RowInv
<1> QED
  BY <1>1, <1>2 DEF PlanRunInv, RowInv, Decided

\* A row starts.
LEMMA RowStarts ==
  ASSUME PlanRunInv, NEW t, Startable(t), req[t] \cap unresolved = {},
         cur' = t, pc' \in {"installing", "updating", "reconfiguring"}, ~second',
         pc' = "installing" => row[t] \in {"install", "repair", "reinstall"},
         pc' = "updating" => row[t] = "update",
         pc' = "reconfiguring" => row[t] = "reconfigure",
         UNCHANGED <<plan, works, outcome, unresolved, halted>>
  PROVE  PlanRunInv'
<1>1. t \in DOMAIN row /\ outcome[t] = "none"
  BY DEF Startable, NextRows, Decided
<1>2. ~Torn => req[t] \subseteq works \cup FailedUpdates
  BY StartIsMet
<1>3. CurInv'
  BY <1>1, <1>2 DEF CurInv, Busy, plan, FailedUpdates
<1>4. RowInv'
  BY DEF PlanRunInv, CurInv, Busy, RowInv, plan, FailedUpdates, Startable
<1> QED
  BY <1>3, <1>4, PlanStays DEF PlanRunInv

\* A row that did not start is recorded.
LEMMA RowRecorded ==
  ASSUME PlanRunInv, NEW t, NEW result, pc = "row", t \in NextRows, pc' = "row",
         cur' = NoTool, ~second', Record(t, result), result # "none",
         UNCHANGED <<plan, works>>, halted => halted', unresolved \subseteq unresolved',
         \/ halted' \/ t \in works \cup unresolved' \/ row[t] = "notNeeded"
         \/ row[t] \in {"skip", "blocked"} /\ ~Settled(health[t]),
         row[t] \in {"install", "repair", "reinstall"} => result \in Excused
  PROVE  PlanRunInv'
<1>1. /\ t \in DOMAIN row /\ outcome[t] = "none" /\ DOMAIN outcome' = DOMAIN row
      /\ outcome'[t] = result
      /\ \A d \in DOMAIN row \ {t} : outcome'[d] = outcome[d]
  BY DEF NextRows, Decided, Record, PlanRunInv, RowInv
<1>2. FailedUpdates \subseteq FailedUpdates'
  BY <1>1 DEF FailedUpdates, plan
<1>3. CurInv'
  BY DEF CurInv, Busy
<1>4. RowInv'
  BY <1>1, <1>2 DEF PlanRunInv, CurInv, Busy, RowInv, plan
<1> QED
  BY <1>3, <1>4, PlanStays DEF PlanRunInv

\* The running row ends; it can lose only its own tool.
LEMMA RowEnds ==
  ASSUME PlanRunInv, pc \in Busy, NEW result, pc' = "row", cur' = NoTool, ~second',
         Record(cur, result), result # "none", UNCHANGED plan,
         halted => halted', unresolved \subseteq unresolved', works \ {cur} \subseteq works',
         \/ halted' \/ cur \in works' \cup unresolved'
         \/ row[cur] = "update" /\ result = "failed",
         row[cur] \in {"install", "repair", "reinstall"} /\ result \notin Excused
           => cur \in works'
  PROVE  PlanRunInv'
<1>1. /\ cur \in DOMAIN row /\ outcome[cur] = "none" /\ DOMAIN outcome' = DOMAIN row
      /\ outcome'[cur] = result
      /\ \A d \in DOMAIN row \ {cur} : outcome'[d] = outcome[d]
  BY DEF Record, PlanRunInv, RowInv, CurInv
<1>2. FailedUpdates \subseteq FailedUpdates'
  BY <1>1 DEF FailedUpdates, plan
<1>3. row[cur] = "update" /\ result = "failed" => cur \in FailedUpdates'
  BY <1>1 DEF FailedUpdates, plan
<1>4. CurInv'
  BY DEF CurInv, Busy
<1>5. RowInv'
  BY <1>1, <1>2, <1>3 DEF PlanRunInv, Busy, RowInv, plan
<1> QED
  BY <1>4, <1>5, PlanStays DEF PlanRunInv

\* The engine answers: the tool is there, or its row is unresolved.
LEMMA InstallConcludes ==
  ASSUME PlanRunInv, NEW status \in Statuses \cup {"mismatch"}, pc = "installing",
         EngineAnswers(status), Conclude(cur, status), UNCHANGED <<plan, halted>>
  PROVE  PlanRunInv'
<1>1. /\ cur \in DOMAIN row /\ cur \in Tools /\ outcome[cur] = "none"
      /\ row[cur] \in {"install", "repair", "reinstall"}
      /\ second => cur \in avail
      /\ Settled(health[cur]) /\ ~second => cur \in works
      /\ row[cur] = "reinstall" => Settled(health[cur])
  BY DEF PlanRunInv, PlanInv, CurInv, RowInv, Busy
<1>2. /\ Record(cur, ResultOf(status)) /\ pc' = "row" /\ cur' = NoTool /\ second' = FALSE
      /\ unresolved' = IF status \in UnresolvedStatuses(row[cur])
                         THEN unresolved \cup {cur} ELSE unresolved
  BY DEF Conclude
<1>3. works \ {cur} \subseteq works'
  BY DEF EngineAnswers, Statuses
<1>4. ResultOf(status) # "none" /\ (ResultOf(status) \notin Excused => cur \in works')
  BY <1>1 DEF EngineAnswers, Statuses, ResultOf, Excused, Failure
<1>5. cur \in works' \cup unresolved'
  <2>1. CASE status \in {"failed", "mismatch"}
    BY <1>2, <2>1 DEF UnresolvedStatuses
  <2>2. CASE status \in {"installed", "already"}
    BY <1>1, <2>2 DEF EngineAnswers
  <2>3. CASE status \in {"no_method", "manual"}
    <3>1. CASE row[cur] \in {"install", "repair"}
      BY <1>2, <2>3, <3>1 DEF UnresolvedStatuses
    <3>2. CASE row[cur] = "reinstall"
      BY <1>1, <2>3, <3>2 DEF EngineAnswers
    <3> QED
      BY <1>1, <3>1, <3>2
  <2> QED
    BY <2>1, <2>2, <2>3 DEF Statuses
<1> QED
  BY <1>2, <1>3, <1>4, <1>5, RowEnds DEF Busy

LEMMA RowsStep == PlanRunInv /\ [Next]_vars => PlanRunInv'
<1> SUFFICES ASSUME PlanRunInv, [Next]_vars PROVE PlanRunInv'
  OBVIOUS
\* No row changes.
<1>1. ASSUME UNCHANGED <<plan, works, run>>, pc' = pc \/ (pc \notin Busy /\ pc' \notin Busy),
             pc' \notin {"ready", "rejected"} => \A t \in DOMAIN row : row[t] # "wait",
             pc' \in {"sweep", "options", "ended"} => \A t \in DOMAIN row : outcome[t] # "none"
      PROVE  PlanRunInv'
  BY <1>1, PlanStays DEF PlanRunInv, CurInv, RowInv, Busy, plan, run, FailedUpdates
<1>2. CASE Reject \/ Begin
  BY <1>1, <1>2 DEF Reject, Begin, Busy
<1>3. CASE LastRow \/ Sweep \/ WriteSettings \/ End \/ Cancel \/ UNCHANGED vars
           \/ \E w \in Others : OtherBegins(w) \/ OtherEnds(w)
  <2>1. /\ pc \notin {"ready", "rejected"} => \A t \in DOMAIN row : row[t] # "wait"
        /\ pc \in {"sweep", "options", "ended"} => \A t \in DOMAIN row : outcome[t] # "none"
    BY DEF PlanRunInv, RowInv
  <2>2. CASE LastRow
    BY <1>1, <2>1, <2>2 DEF LastRow, Decided, Busy
  <2>3. CASE Sweep \/ End
    BY <1>1, <2>1, <2>3 DEF Sweep, End, Busy
  <2>4. CASE WriteSettings \/ Cancel \/ UNCHANGED vars
    BY <1>1, <2>1, <2>4 DEF WriteSettings, Cancel, vars
  <2>5. CASE \E w \in Others : OtherBegins(w) \/ OtherEnds(w)
    BY <1>1, <2>1, <2>5 DEF OtherBegins, OtherEnds
  <2> QED
    BY <1>3, <2>2, <2>3, <2>4, <2>5
<1>5. ASSUME NEW t \in Tools, StartInstall(t) \/ StartUpdate(t) \/ StartReconfigure(t)
      PROVE  PlanRunInv'
  <2>1. pc = "row" /\ ~second
    BY <1>5 DEF StartInstall, StartUpdate, StartReconfigure, Startable, PlanRunInv, CurInv
  <2> QED
    BY <1>5, <2>1, RowStarts DEF StartInstall, StartUpdate, StartReconfigure
\* A row whose tool is settled and that did not run finds it where it was.
<1>6. ASSUME NEW t \in NextRows, pc = "row"
      PROVE  /\ t \in DOMAIN row /\ cur = NoTool /\ second = FALSE
             /\ Settled(health[t]) => t \in works
             /\ row[t] \in {"update", "reconfigure", "reinstall"} => t \in works
  BY <1>6, ExecuteAssumption DEF NextRows, Decided, PlanRunInv, PlanInv, CurInv, RowInv, Busy
<1>7. ASSUME NEW t \in Tools, ReportRow(t) PROVE PlanRunInv'
  <2>1. pc = "row" /\ t \in NextRows /\ row[t] \notin Runnable /\ pc' = pc /\ cur' = cur
        /\ second' = second /\ UNCHANGED <<plan, works, halted>>
    BY <1>7 DEF ReportRow
  <2>2. row[t] \in {"skip", "notNeeded", "blocked", "manual"}
    BY <2>1, <1>6 DEF PlanRunInv, PlanInv, RowInv, Dispositions, Runnable
  <2>3. \E result \in {"skipped", "blocked", "manual"} : Record(t, result)
    BY <1>7, <2>2 DEF ReportRow
  <2>4. unresolved \subseteq unresolved' /\ (row[t] = "manual" => t \in unresolved')
    BY <1>7 DEF ReportRow
  <2> QED
    BY <1>6, <2>1, <2>2, <2>3, <2>4, RowRecorded DEF Runnable
<1>8. ASSUME NEW t \in Tools, SkipRow(t) PROVE PlanRunInv'
  BY <1>6, <1>8, RowRecorded DEF SkipRow, Excused, Failure
<1>9. ASSUME NEW t \in Tools, DependencyFailed(t) PROVE PlanRunInv'
  <2>1. /\ t \in NextRows /\ pc = "row" /\ row[t] \in Runnable
        /\ UNCHANGED <<plan, works, halted>>
        /\ pc' = "row" /\ cur' = NoTool /\ second' = FALSE /\ Record(t, "dependency_failed")
        /\ unresolved' = IF row[t] \in {"install", "repair"}
                           THEN unresolved \cup {t} ELSE unresolved
    BY <1>9 DEF DependencyFailed, Startable, Conclude, ResultOf, UnresolvedStatuses
  <2>2. t \in works \cup unresolved'
    BY <1>6, <2>1 DEF Runnable
  <2> QED
    BY <2>1, <2>2, RowRecorded DEF Excused, Failure
<1>10. ASSUME NEW t \in Tools, UpdateInFlight(t) PROVE PlanRunInv'
  <2>1. /\ t \in NextRows /\ pc = "row" /\ row[t] = "update"
        /\ UNCHANGED <<plan, works, halted, pc, cur, second, unresolved>>
        /\ Record(t, "blocked")
    BY <1>10 DEF UpdateInFlight, Startable
  <2> QED
    BY <1>6, <2>1, RowRecorded
<1>11. ASSUME NEW status \in Statuses, InstallEnds(status) PROVE PlanRunInv'
  BY <1>11, InstallConcludes DEF InstallEnds
<1>12. ASSUME NEW attended \in BOOLEAN, Mismatch(attended) PROVE PlanRunInv'
  <2>1. CASE attended /\ ~second
    <3>1. /\ pc = "installing" /\ pc' = "asking" /\ UNCHANGED <<plan, run>>
          /\ cur \in avail /\ works \ {cur} \subseteq works'
      BY <1>12, <2>1 DEF Mismatch, EngineAnswers
    <3>2. /\ cur \in DOMAIN row /\ cur \notin req[cur] /\ outcome[cur] = "none"
      BY <3>1 DEF PlanRunInv, PlanInv, CurInv, Busy
    <3>3. CurInv'
      BY <2>1, <3>1, <3>2 DEF PlanRunInv, CurInv, Busy, plan, run, FailedUpdates
    <3>4. RowInv'
      BY <2>1, <3>1, <3>2 DEF PlanRunInv, RowInv, plan, run, FailedUpdates, Excused
    <3> QED
      BY <3>1, <3>3, <3>4, PlanStays DEF PlanRunInv
  <2>2. CASE ~(attended /\ ~second)
    BY <1>12, <2>2, InstallConcludes DEF Mismatch
  <2> QED
    BY <2>1, <2>2
<1>13. CASE Again
  BY <1>13, PlanStays DEF Again, PlanRunInv, CurInv, RowInv, Busy, plan, FailedUpdates
<1>14. CASE LeaveIt
  <2>1. /\ pc \in Busy /\ pc' = "row" /\ cur' = NoTool /\ second' = FALSE
        /\ UNCHANGED <<plan, works, halted>>
        /\ Record(cur, "mismatch") /\ unresolved' = unresolved \cup {cur}
    BY <1>14 DEF LeaveIt, Conclude, ResultOf, UnresolvedStatuses, Busy
  <2> QED
    BY <2>1, RowEnds DEF Excused, Failure
<1>15. ASSUME NEW result \in Results, UpdateEnds(result) PROVE PlanRunInv'
  <2>1. /\ pc = "updating" /\ result \in {"done", "failed", "blocked"} /\ pc' = "row"
        /\ cur' = NoTool /\ UNCHANGED <<plan, second, unresolved, halted>>
        /\ Record(cur, result) /\ works \ {cur} \subseteq works'
        /\ result # "failed" => works' = works
    BY <1>15 DEF UpdateEnds
  <2>2. row[cur] = "update" /\ ~second /\ cur \in works
    BY <2>1 DEF PlanRunInv, PlanInv, CurInv, RowInv, Busy
  <2> QED
    BY <2>1, <2>2, RowEnds DEF Busy
<1>16. ASSUME NEW result \in Results, ReconfigureEnds(result) PROVE PlanRunInv'
  <2>1. /\ pc = "reconfiguring" /\ result \in {"done", "failed"} /\ pc' = "row"
        /\ cur' = NoTool /\ UNCHANGED <<plan, works, second, unresolved, halted>>
        /\ Record(cur, result)
    BY <1>16 DEF ReconfigureEnds
  <2>2. row[cur] = "reconfigure" /\ ~second /\ cur \in works
    BY <2>1 DEF PlanRunInv, PlanInv, CurInv, RowInv, Busy
  <2> QED
    BY <2>1, <2>2, RowEnds DEF Busy
<1>17. CASE RowCrashes
  <2>1. /\ pc \in Busy /\ pc' = "row" /\ cur' = NoTool /\ second' = FALSE /\ halted' = TRUE
        /\ Record(cur, "crashed") /\ UNCHANGED <<plan, unresolved>>
        /\ works \ {cur} \subseteq works'
    BY <1>17 DEF RowCrashes, Busy
  <2> QED
    BY <2>1, RowEnds DEF Excused, Failure
<1> QED
  BY <1>2, <1>3, <1>5, <1>7, <1>8, <1>9, <1>10, <1>11, <1>12, <1>13, <1>14, <1>15, <1>16,
     <1>17 DEF Next, Work

LEMMA RowsAlways == Spec => []PlanRunInv
  BY RowsBegin, RowsStep, PTL DEF Spec

(***************************************************************************)
(* No row runs while a tool it requires is not working, for every acyclic  *)
(* registry, whatever failed, was blocked, left to the user or lost, any   *)
(* number of links away (deps.py, build_plan, the loop of execute_plan).   *)
(***************************************************************************)
THEOREM NeedsAlwaysMet == ASSUME Torn = FALSE PROVE Spec => []NeedsAreMet
<1>1. PlanRunInv => NeedsAreMet
  BY DEF PlanRunInv, CurInv, Busy, NeedsAreMet
<1> QED
  BY <1>1, RowsAlways, PTL

\* Every row but a blocked one leads, link by link, to a tool that was asked for.
LEMMA NobodyIsDragged ==
  ASSUME Torn = FALSE, "checking" \notin Catalog, Init PROVE DraggedInForSomebody
<1>1. PICK base \in [Tools -> Dispositions] :
        /\ \A t \in Tools : base[t] \in RowFor(health[t], t \in selected)
        /\ row = BuildPlan(req, health, avail, selected, base)
  BY DEF Init
<1> DEFINE blocked == BlockedTools(req, health, avail)
           first   == FirstRow(req, health, avail, base)
           unsat   == Unsatisfied(req, health, first)
           disp    == NeedsRow(req, health, first)
           wanted  == Wanted(req, selected)
           idle    == NotNeeded(req, selected, wanted, disp)
<1>2. /\ req \in [Tools -> SUBSET Tools] /\ Acyclic(req) /\ selected \in SUBSET Tools
      /\ \A t \in Tools : health[t] \in Healths /\ health[t] # "checking"
      /\ \A t \in Tools : health[t] = "unavailable" => t \notin avail
  BY ExecuteAssumption DEF Init, ExecuteAssumption
<1>3. row = [t \in wanted |-> IF t \in idle THEN "notNeeded" ELSE disp[t]]
  BY <1>1 DEF BuildPlan
<1>4. \A t \in Tools : t \in blocked <=>
        ~Settled(health[t]) /\ (t \notin avail \/ req[t] \cap blocked # {})
  BY <1>2, Blocking
<1>5. /\ wanted \subseteq Tools
      /\ \A t \in wanted : t \in selected \/ \E r \in wanted : t \in req[r]
  BY <1>2, Wanting
<1>6. \A t \in wanted : t \in idle <=>
        /\ disp[t] \in Runnable /\ t \notin selected /\ \E r \in wanted : t \in req[r]
        /\ \A r \in wanted : t \in req[r] => disp[r] \in {"blocked", "manual"} \/ r \in idle
  <2> HIDE DEF wanted, disp
  <2> QED
    BY <1>5, Idling
<1>7. \A t \in Tools : disp[t] \in {"blocked", first[t]}
  BY DEF NeedsRow
<1>8. \A t \in Tools : first[t] = IF t \notin blocked THEN base[t]
                                  ELSE IF health[t] = "checking" THEN "wait" ELSE "blocked"
  BY DEF FirstRow
<1>9. \A t \in Tools :
        /\ base[t] \in Runnable \cup {"skip", "blocked", "manual"}
        /\ base[t] = "skip" => health[t] = "unavailable" \/ Settled(health[t])
  BY <1>1, <1>2 DEF RowFor, Healths, Settled, Runnable
<1> HIDE DEF blocked, first, unsat, disp, wanted, idle
<1>10. DOMAIN row = wanted /\ \A t \in wanted : row[t] = IF t \in idle THEN "notNeeded" ELSE disp[t]
  BY <1>3
<1>11. \A t \in wanted : disp[t] \in Runnable \cup {"blocked", "manual"} \/ Settled(health[t])
  BY <1>2, <1>4, <1>5, <1>7, <1>8, <1>9
<1> DEFINE chain == {c \in wanted : row[c] \in Runnable} \cup Roots
<1>12. chain \in SUBSET DOMAIN row
  BY <1>10 DEF Roots
<1>13. ASSUME NEW c \in chain \ Roots PROVE Wants(c) \cap chain # {}
  <2>1. c \in wanted /\ c \notin selected /\ row[c] \in Runnable
    BY <1>10, <1>13 DEF Roots
  <2>2. c \notin idle /\ disp[c] \in Runnable
    BY <1>10, <2>1 DEF Runnable
  <2>3. PICK r \in wanted : c \in req[r] /\ disp[r] \notin {"blocked", "manual"} /\ r \notin idle
    BY <1>5, <1>6, <2>1, <2>2
  <2>4. row[r] = disp[r] /\ (row[r] \in Runnable \/ Settled(health[r]))
    BY <1>10, <1>11, <2>3
  <2>5. disp[r] # "notNeeded"
    BY <1>2, <1>5, <1>7, <1>8, <1>9, <2>3 DEF Runnable
  <2> QED
    BY <1>10, <2>3, <2>4, <2>5 DEF Wants, Roots
<1>14. ASSUME NEW t \in DOMAIN row, row[t] \in Runnable PROVE t \in chain
  BY <1>10, <1>14
<1> HIDE DEF chain
<1> QED
  BY <1>12, <1>13, <1>14 DEF DraggedInForSomebody

(***************************************************************************)
(* An exit code 0 is the truth: what was to be installed or repaired is    *)
(* there, also for a plan made while the platform was read again.          *)
(***************************************************************************)
THEOREM ExitZeroAlwaysTrue == Spec => []ExitZeroIsTrue
<1>1. PlanRunInv => ExitZeroIsTrue
  BY DEF PlanRunInv, RowInv, ExitZeroIsTrue, Excused
<1> QED
  BY <1>1, RowsAlways, PTL

(***************************************************************************)
(* What a run does was asked for, and what it says of it is true, for      *)
(* every plan without a row that is still checking (one with such a row is *)
(* refused) and any acyclic registry (build_plan, execute_plan).           *)
(***************************************************************************)
THEOREM RunAlwaysAccounted ==
  ASSUME Torn = FALSE, "checking" \notin Catalog PROVE Spec => []RunIsAccountedFor
<1>1. Init => DraggedInForSomebody
  BY NobodyIsDragged
<1>2. DraggedInForSomebody /\ [Next]_vars => DraggedInForSomebody'
  <2> SUFFICES ASSUME DraggedInForSomebody, [Next]_vars PROVE DraggedInForSomebody'
    OBVIOUS
  <2>1. UNCHANGED plan
    BY DEF Next, Work, vars, Reject, Begin, ReportRow, SkipRow, DependencyFailed, StartInstall,
       StartUpdate, UpdateInFlight, StartReconfigure, InstallEnds, Mismatch, UpdateEnds,
       ReconfigureEnds, LastRow, Sweep, WriteSettings, End, RowCrashes, Again, LeaveIt, Cancel,
       OtherBegins, OtherEnds
  <2> QED
    BY <2>1 DEF DraggedInForSomebody, Roots, Wants, plan
<1>3. Spec => []DraggedInForSomebody
  BY <1>1, <1>2, PTL DEF Spec
<1> QED
  BY <1>3, ExitZeroAlwaysTrue, PTL DEF RunIsAccountedFor
=============================================================================
