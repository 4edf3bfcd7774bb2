---------------------------- MODULE RefreshProofs ----------------------------
(***************************************************************************)
(* Machine-checked proofs about Refresh, for any number of tools, keys,    *)
(* callers, mutators, passes, changes and audits: nothing stale is shown,  *)
(* the newest pass wins, and the callers of one key share one flight.      *)
(***************************************************************************)
EXTENDS Refresh, TLAPS

-----------------------------------------------------------------------------
(***************************************************************************)
(* The inductive invariant.  A pass resolves between its start and its     *)
(* `finally`; what it has seen so far is in its locals.                    *)
(***************************************************************************)
Resolving(c) == pc[c] \in {"begin", "load", "query", "read"}

\* Every flight is a pass over one key, and a later one is of a later epoch.
FlightInv ==
  /\ \A c \in Callers : mine[c] <= seq /\ (pc[c] # "idle" => mine[c] # 0)
  /\ \A c \in Callers : pc[c] \in {"idle", "finish"} /\ result[c] = "ok" => mine[c] # 0
  /\ \A k \in Keys : inflight[k] <= seq /\ (inflight[k] # 0 => flight[inflight[k]].key = k)
  /\ \A s \in 1..seq : flight[s].epoch <= epoch /\ flight[s].key \in Keys
  /\ \A s, r \in 1..seq : s <= r => flight[s].epoch <= flight[r].epoch

\* A published state is of the flight that published it.
StateInv ==
  \A t \in Tools : states[t] # None =>
    states[t].seq \in 1..seq /\ states[t].epoch = flight[states[t].seq].epoch

\* A pass that has come to the tools has a listing to show, maybe an empty one.
SnapInv == \A c \in Callers : pc[c] = "read" => local[c].snap # None

PendingInv == \A t \in pending : states[t] = None

Current == {world, None}

\* All that this pass has seen is of the present.
SeesPresent(c) ==
  /\ local[c].snap # None => local[c].snap.val \in Current
  /\ \A t \in Tools : local[c].ev[t] \in Current /\ local[c].got[t] \in Current

AuditInv == audit.on /\ audit.epoch = epoch => audit.found \in Current

ShownInv ==
  \A t \in Tools : StateOf(t) # None =>
    StateOf(t).val = world /\ StateOf(t).mgr \in Current /\ StateOf(t).ev \in Current

\* Everything seen in the present epoch is of the present.
AllPresent ==
  /\ ~invalid /\ disk # None => disk.val \in Current
  /\ \A t \in Tools : evidence[t] \in Current
  /\ \A c \in Callers : Resolving(c) /\ flight[mine[c]].epoch = epoch => SeesPresent(c)
  /\ AuditInv /\ ShownInv

CurrentInv == ~Window => AllPresent

\* The answer of a flight of the present epoch is there, or its tool is hidden.
Answered(s) ==
  flight[s].epoch = epoch => \A t \in flight[s].key : t \in pending \/ StateOf(t) # None

AnswerInv ==
  /\ \A s \in 1..seq : flight[s].done /\ ~flight[s].failed => Answered(s)
  /\ \A c \in Callers : pc[c] \in {"idle", "finish"} /\ result[c] = "ok" => Answered(mine[c])
  /\ \A c \in Callers : pc[c] = "finish" => result[c] \in {"ok", "raised"}

\* A running pass of the present epoch is the one registered for its key.
OwnInv ==
  /\ \A c, d \in Callers : c # d /\ Running(c) /\ Running(d) => mine[c] # mine[d]
  /\ \A c \in Callers : Running(c) /\ flight[mine[c]].epoch = epoch
                          => inflight[flight[mine[c]].key] = mine[c]

IInv ==
  /\ TypeOK /\ FlightInv /\ StateInv /\ SnapInv /\ PendingInv /\ audit.epoch <= epoch
  /\ CurrentInv /\ AnswerInv /\ OwnInv /\ SingleFlight

-----------------------------------------------------------------------------
(***************************************************************************)
(* The records the passes work on are of their types.                      *)
(***************************************************************************)
LEMMA NothingIsLocal == Nothing \in Locals
  BY DEF Nothing, Locals, Obs

LEMMA LocalsUpdated ==
  ASSUME NEW l \in Locals, NEW s \in Snap \cup {None}, NEW e \in [Tools -> Obs]
  PROVE  /\ [l EXCEPT !.ev = e] \in Locals /\ [l EXCEPT !.snap = s] \in Locals
         /\ [l EXCEPT !.snap = s, !.persist = TRUE] \in Locals
         /\ [l EXCEPT !.got = e] \in Locals
  BY DEF Locals

LEMMA FlightEnded ==
  ASSUME NEW f \in Flight, NEW b \in BOOLEAN
  PROVE  [f EXCEPT !.done = TRUE, !.failed = b] \in Flight
  BY DEF Flight

LEMMA NewFlight ==
  ASSUME TypeOK, NEW k \in SUBSET Tools
  PROVE  [epoch |-> epoch, key |-> k, done |-> FALSE, failed |-> FALSE] \in Flight
  BY DEF TypeOK, Flight

LEMMA ProducedIsState ==
  ASSUME TypeOK, SnapInv, NEW c \in Callers, pc[c] = "read", mine[c] # 0, Unread(c) = {},
         NEW t \in flight[mine[c]].key
  PROVE  Produced(c, t) \in State
<1>1. mine[c] \in 1..MaxSeq /\ mine[c] \in Nat
  BY RefreshAssumption DEF RefreshAssumption, TypeOK
<1>2. flight[mine[c]] \in Flight
  BY <1>1 DEF TypeOK
<1>3. flight[mine[c]].epoch \in Nat /\ t \in Tools
  BY <1>2 DEF Flight
<1>4. local[c] \in Locals /\ local[c].snap # None
  BY DEF TypeOK, SnapInv
<1>5. local[c].snap.val \in Obs /\ local[c].ev[t] \in Obs /\ local[c].got[t] \in Obs
  BY <1>3, <1>4 DEF Locals, Snap
<1>6. local[c].got[t] \in Nat
  BY <1>5 DEF Unread, Obs
<1> QED
  BY <1>1, <1>3, <1>5, <1>6 DEF Produced, State

-----------------------------------------------------------------------------
(***************************************************************************)
(* The type invariant, with what a pass at the tools has.                  *)
(***************************************************************************)
LEMMA TypeInit == Init => TypeOK /\ SnapInv
<1> SUFFICES ASSUME Init PROVE TypeOK /\ SnapInv
  OBVIOUS
<1> USE RefreshAssumption DEF RefreshAssumption
<1>1. disk \in Snap \cup {None}
  <2>1. [val |-> 0, failed |-> FALSE] \in Snap
    BY DEF Snap, Obs
  <2> QED
    BY <2>1 DEF Init
<1>2. NoFlight \in Flight
  BY DEF NoFlight, Flight
<1>3. audit \in [left : Nat, on : BOOLEAN, epoch : Nat, found : Obs]
  BY DEF Init, Obs
<1>4. local \in [Callers -> Locals] /\ flight \in [1..MaxSeq -> Flight]
  BY <1>2, NothingIsLocal DEF Init
<1>5. inflight \in [Keys -> 0..MaxSeq] /\ mine \in [Callers -> 0..MaxSeq] /\ seq \in 0..MaxSeq
  BY DEF Init
<1>6. /\ mut \in [Mutators -> {"idle", "marked", "changed"}]
      /\ pc \in [Callers -> {"idle", "wait", "begin", "load", "query", "read", "finish"}]
      /\ result \in [Callers -> {"none", "ok", "raised"}]
  BY DEF Init
<1>7. /\ world \in Nat /\ epoch \in Nat /\ invalid \in BOOLEAN /\ pending \subseteq Tools
      /\ states \in [Tools -> State \cup {None}] /\ evidence \in [Tools -> Obs]
  BY DEF Init, Obs
<1>8. SnapInv
  BY DEF Init, SnapInv
<1> QED
  BY <1>1, <1>3, <1>4, <1>5, <1>6, <1>7, <1>8 DEF TypeOK

LEMMA TypeStep == TypeOK /\ SnapInv /\ FlightInv /\ [Next]_vars => TypeOK' /\ SnapInv'
<1> SUFFICES ASSUME TypeOK, SnapInv, FlightInv, [Next]_vars PROVE TypeOK' /\ SnapInv'
  OBVIOUS
<1> USE RefreshAssumption DEF RefreshAssumption, TypeOK, SnapInv, passes, service
<1>1. ASSUME NEW c \in Callers, NEW k \in Keys, Join(c, k) PROVE TypeOK' /\ SnapInv'
  BY <1>1 DEF Join
<1>2. ASSUME NEW c \in Callers, NEW k \in Keys, Start(c, k) PROVE TypeOK' /\ SnapInv'
  <2>1. [epoch |-> epoch, key |-> k, done |-> FALSE, failed |-> FALSE] \in Flight
    BY NewFlight
  <2>2. flight' \in [1..MaxSeq -> Flight]
    BY <1>2, <2>1 DEF Start
  <2>3. local' \in [Callers -> Locals]
    BY <1>2, NothingIsLocal DEF Start
  <2> QED
    BY <1>2, <2>2, <2>3 DEF Start
<1>3. ASSUME NEW c \in Callers, Wake(c) PROVE TypeOK' /\ SnapInv'
  BY <1>3 DEF Wake
<1>4. ASSUME NEW c \in Callers, CopyEvidence(c) PROVE TypeOK' /\ SnapInv'
  <2>1. [local[c] EXCEPT !.ev = evidence] \in Locals
    BY LocalsUpdated
  <2> QED
    BY <1>4, <2>1 DEF CopyEvidence
<1>5. ASSUME NEW c \in Callers, LoadSnapshot(c) PROVE TypeOK' /\ SnapInv'
  <2> DEFINE stored == IF invalid THEN None ELSE disk
  <2>1. [local[c] EXCEPT !.snap = stored] \in Locals
    BY LocalsUpdated
  <2>2. local' = [local EXCEPT ![c] = [local[c] EXCEPT !.snap = stored]]
    BY <1>5 DEF LoadSnapshot
  <2>3. local' \in [Callers -> Locals]
    BY <2>1, <2>2
  <2>4. local'[c].snap = stored
    BY <2>1, <2>2 DEF Locals
  <2>5. (pc' = [pc EXCEPT ![c] = "read"] /\ stored # None) \/ pc' = [pc EXCEPT ![c] = "query"]
    BY <1>5 DEF LoadSnapshot
  <2>6. SnapInv'
    BY <2>2, <2>4, <2>5
  <2> QED
    BY <1>5, <2>3, <2>5, <2>6 DEF LoadSnapshot
<1>6. ASSUME NEW c \in Callers, QueryManagers(c) PROVE TypeOK' /\ SnapInv'
  <2>1. PICK new \in Snap :
          local' = [local EXCEPT ![c] = [local[c] EXCEPT !.snap = new, !.persist = TRUE]]
    <3>1. PICK answered \in BOOLEAN :
            local' = [local EXCEPT
              ![c].snap = IF answered
                            THEN [val |-> world, failed |-> FALSE]
                            ELSE [val |-> IF local[c].snap = None THEN None
                                          ELSE local[c].snap.val, failed |-> TRUE],
              ![c].persist = TRUE]
      BY <1>6 DEF QueryManagers
    <3>2. local[c].snap # None => local[c].snap.val \in Obs
      BY DEF Locals, Snap
    <3> DEFINE new == IF answered
                        THEN [val |-> world, failed |-> FALSE]
                        ELSE [val |-> IF local[c].snap = None THEN None
                                      ELSE local[c].snap.val, failed |-> TRUE]
    <3>3. new \in Snap
      BY <3>2 DEF Snap, Obs
    <3>4. local' = [local EXCEPT ![c] = [local[c] EXCEPT !.snap = new, !.persist = TRUE]]
      BY <3>1
    <3> QED
      BY <3>3, <3>4
  <2>2. [local[c] EXCEPT !.snap = new, !.persist = TRUE] \in Locals
    BY LocalsUpdated
  <2>3. local' \in [Callers -> Locals] /\ local'[c].snap = new /\ new # None
    BY <2>1, <2>2 DEF Locals
  <2>4. pc' = [pc EXCEPT ![c] = "read"]
    BY <1>6 DEF QueryManagers
  <2>5. SnapInv'
    BY <2>1, <2>3, <2>4
  <2> QED
    BY <1>6, <2>3, <2>4, <2>5 DEF QueryManagers
<1>7. ASSUME NEW c \in Callers, ReadTool(c) PROVE TypeOK' /\ SnapInv'
  <2>1. PICK t : local' = [local EXCEPT ![c] = [local[c] EXCEPT !.got = [@ EXCEPT ![t] = world]]]
    BY <1>7 DEF ReadTool
  <2>2. [local[c] EXCEPT !.got = [@ EXCEPT ![t] = world]] \in Locals
    <3>1. local[c] \in Locals /\ world \in Nat
      OBVIOUS
    <3>2. local[c].got \in [Tools -> Obs]
      BY <3>1 DEF Locals
    <3>3. [local[c].got EXCEPT ![t] = world] \in [Tools -> Obs]
      BY <3>1, <3>2 DEF Obs
    <3>4. [local[c] EXCEPT !.got = [local[c].got EXCEPT ![t] = world]] \in Locals
      BY <3>1, <3>3, LocalsUpdated
    <3> QED
      BY <3>4
  <2>3. local' \in [Callers -> Locals] /\ local'[c].snap = local[c].snap
    BY <2>1, <2>2 DEF Locals
  <2> QED
    BY <1>7, <2>1, <2>3 DEF ReadTool
<1>8. ASSUME NEW c \in Callers, Discard(c) PROVE TypeOK' /\ SnapInv'
  BY <1>8, NothingIsLocal DEF Discard, Finished
<1>9. ASSUME NEW c \in Callers, Publish(c) PROVE TypeOK' /\ SnapInv'
  <2>1. \A t \in Fresh(c) : Produced(c, t) \in State
    <3> TAKE t \in Fresh(c)
    <3>1. pc[c] = "read" /\ mine[c] # 0 /\ Unread(c) = {} /\ t \in flight[mine[c]].key
      BY <1>9 DEF Publish, FlightInv, Fresh
    <3> QED
      BY <3>1, ProducedIsState
  <2>2. states' \in [Tools -> State \cup {None}]
    BY <1>9, <2>1 DEF Publish
  <2>3. disk' \in Snap \cup {None} /\ invalid' \in BOOLEAN
    BY <1>9 DEF Publish, Locals
  <2>4. local' \in [Callers -> Locals]
    BY <1>9, NothingIsLocal DEF Publish, Finished
  <2> QED
    BY <1>9, <2>2, <2>3, <2>4 DEF Publish, Finished
<1>10. ASSUME NEW c \in Callers, Raise(c) PROVE TypeOK' /\ SnapInv'
  BY <1>10, NothingIsLocal DEF Raise, Finished
<1>11. ASSUME NEW c \in Callers, Finish(c) PROVE TypeOK' /\ SnapInv'
  <2>1. mine[c] \in 1..MaxSeq
    BY <1>11 DEF Finish, FlightInv
  <2>2. [flight[mine[c]] EXCEPT !.done = TRUE, !.failed = (result[c] = "raised")] \in Flight
    BY <2>1, FlightEnded
  <2>3. flight' = [flight EXCEPT ![mine[c]] =
                     [flight[mine[c]] EXCEPT !.done = TRUE, !.failed = (result[c] = "raised")]]
    BY <1>11 DEF Finish
  <2>4. flight' \in [1..MaxSeq -> Flight]
    BY <2>2, <2>3
  <2>5. inflight' \in [Keys -> 0..MaxSeq]
    <3> DEFINE k == flight[mine[c]].key
    <3>1. inflight' = inflight \/ inflight' = [inflight EXCEPT ![k] = 0]
      BY <1>11 DEF Finish
    <3>2. 0 \in 0..MaxSeq
      OBVIOUS
    <3> HIDE DEF k
    <3> QED
      BY <3>1, <3>2
  <2> QED
    BY <1>11, <2>4, <2>5 DEF Finish
<1>12. ASSUME NEW m \in Mutators, NEW ids \in SUBSET Tools, MarkPending(m, ids)
       PROVE TypeOK' /\ SnapInv'
  BY <1>12 DEF MarkPending
<1>13. ASSUME NEW m \in Mutators, Change(m) PROVE TypeOK' /\ SnapInv'
  BY <1>13 DEF Change
<1>14. ASSUME NEW m \in Mutators, Invalidate(m) PROVE TypeOK' /\ SnapInv'
  BY <1>14 DEF Invalidate, Obs
<1>15. ASSUME AuditStart PROVE TypeOK' /\ SnapInv'
  <2>1. audit' \in [left : Nat, on : BOOLEAN, epoch : Nat, found : Obs]
    BY <1>15 DEF AuditStart, Obs
  <2> QED
    BY <1>15, <2>1 DEF AuditStart
<1>16. ASSUME AuditExamine PROVE TypeOK' /\ SnapInv'
  <2>1. audit' \in [left : Nat, on : BOOLEAN, epoch : Nat, found : Obs]
    BY <1>16 DEF AuditExamine, Obs
  <2> QED
    BY <1>16, <2>1 DEF AuditExamine
<1>17. ASSUME NEW t \in Tools, RecordEvidence(t) PROVE TypeOK' /\ SnapInv'
  <2>1. audit' \in [left : Nat, on : BOOLEAN, epoch : Nat, found : Obs]
    BY <1>17 DEF RecordEvidence, Obs
  <2>2. evidence' \in [Tools -> Obs]
    BY <1>17 DEF RecordEvidence, Obs
  <2> QED
    BY <1>17, <2>1, <2>2 DEF RecordEvidence
<1>18. CASE UNCHANGED vars
  BY <1>18 DEF vars
<1> QED
  BY <1>1, <1>2, <1>3, <1>4, <1>5, <1>6, <1>7, <1>8, <1>9, <1>10, <1>11, <1>12, <1>13, <1>14,
     <1>15, <1>16, <1>17, <1>18 DEF Next, PassStep

-----------------------------------------------------------------------------
(***************************************************************************)
(* The flights: what starting and ending one does.                         *)
(***************************************************************************)
Started(c, k) ==
  /\ seq \in Nat /\ seq' = seq + 1 /\ seq' \in 1..MaxSeq /\ epoch' = epoch
  /\ \A s \in 1..seq : flight'[s] = flight[s]
  /\ flight'[seq'].epoch = epoch /\ flight'[seq'].key = k /\ flight'[seq'].done = FALSE
  /\ mine'[c] = seq' /\ pc'[c] = "begin" /\ result'[c] = "none" /\ inflight'[k] = seq'
  /\ \A d \in Callers \ {c} : mine'[d] = mine[d] /\ pc'[d] = pc[d] /\ result'[d] = result[d]
  /\ \A i \in Keys \ {k} : inflight'[i] = inflight[i]

LEMMA StartFacts ==
  ASSUME TypeOK, NEW c \in Callers, NEW k \in Keys, Start(c, k)
  PROVE  Started(c, k)
<1>1. seq' = seq + 1 /\ seq \in Nat /\ seq' \in 1..MaxSeq /\ epoch' = epoch
  BY RefreshAssumption DEF RefreshAssumption, TypeOK, Start
<1>2. flight' = [flight EXCEPT ![seq + 1] =
                  [epoch |-> epoch, key |-> k, done |-> FALSE, failed |-> FALSE]]
  BY DEF Start
<1>3. \A s \in 1..seq : flight'[s] = flight[s]
  BY <1>1, <1>2 DEF TypeOK
<1>4. flight'[seq'] = [epoch |-> epoch, key |-> k, done |-> FALSE, failed |-> FALSE]
  BY <1>1, <1>2 DEF TypeOK
<1>5. /\ mine'[c] = seq' /\ pc'[c] = "begin" /\ result'[c] = "none" /\ inflight'[k] = seq'
      /\ \A d \in Callers \ {c} : mine'[d] = mine[d] /\ pc'[d] = pc[d] /\ result'[d] = result[d]
      /\ \A i \in Keys \ {k} : inflight'[i] = inflight[i]
  BY DEF TypeOK, Start
<1> QED
  BY <1>1, <1>3, <1>4, <1>5 DEF Started

LEMMA FinishFacts ==
  ASSUME TypeOK, FlightInv, NEW c \in Callers, Finish(c)
  PROVE  /\ mine[c] \in 1..seq /\ mine[c] \in 1..MaxSeq
         /\ \A s \in 1..MaxSeq : s # mine[c] => flight'[s] = flight[s]
         /\ \A s \in 1..MaxSeq : flight'[s].epoch = flight[s].epoch /\ flight'[s].key = flight[s].key
         /\ flight'[mine[c]].done = TRUE /\ flight'[mine[c]].failed = (result[c] = "raised")
<1>1. mine[c] \in 1..seq /\ mine[c] \in 1..MaxSeq
  BY RefreshAssumption DEF RefreshAssumption, TypeOK, FlightInv, Finish
<1>2. flight' = [flight EXCEPT ![mine[c]] =
                   [flight[mine[c]] EXCEPT !.done = TRUE, !.failed = (result[c] = "raised")]]
  BY DEF Finish
<1>3. flight[mine[c]] \in Flight
  BY <1>1 DEF TypeOK
<1>4. ASSUME NEW f \in Flight, NEW b \in BOOLEAN
      PROVE  LET g == [f EXCEPT !.done = TRUE, !.failed = b]
             IN  g.epoch = f.epoch /\ g.key = f.key /\ g.done = TRUE /\ g.failed = b
  BY DEF Flight
<1>5. flight'[mine[c]] = [flight[mine[c]] EXCEPT !.done = TRUE, !.failed = (result[c] = "raised")]
  BY <1>1, <1>2 DEF TypeOK
<1>6. (result[c] = "raised") \in BOOLEAN
  OBVIOUS
<1>7. /\ flight'[mine[c]].epoch = flight[mine[c]].epoch /\ flight'[mine[c]].key = flight[mine[c]].key
      /\ flight'[mine[c]].done = TRUE /\ flight'[mine[c]].failed = (result[c] = "raised")
  BY <1>3, <1>4, <1>5, <1>6
<1>8. \A s \in 1..MaxSeq : s # mine[c] => flight'[s] = flight[s]
  BY <1>2 DEF TypeOK
<1> QED
  BY <1>1, <1>7, <1>8

\* What a pass does at the machine leaves the flights alone.
Reads(c) == CopyEvidence(c) \/ LoadSnapshot(c) \/ QueryManagers(c) \/ ReadTool(c)

LEMMA ReadsFacts ==
  ASSUME TypeOK, NEW c \in Callers, Reads(c)
  PROVE  /\ UNCHANGED <<world, mut, service, mine, result, audit>>
         /\ Resolving(c) /\ Resolving(c)' /\ \A d \in Callers : d # c => pc'[d] = pc[d]
         /\ \A d \in Callers : d # c => local'[d] = local[d]
  BY DEF TypeOK, Reads, CopyEvidence, LoadSnapshot, QueryManagers, ReadTool, Resolving

\* The three ends of a pass before its `finally`.
Ends(c) == Discard(c) \/ Publish(c) \/ Raise(c)

LEMMA EndsFacts ==
  ASSUME TypeOK, NEW c \in Callers, Ends(c)
  PROVE  /\ Resolving(c) /\ pc' = [pc EXCEPT ![c] = "finish"]
         /\ UNCHANGED <<world, mut, epoch, seq, pending, evidence, inflight, flight, mine, audit>>
         /\ \A d \in Callers : d # c => result'[d] = result[d] /\ local'[d] = local[d]
         /\ ~Publish(c) => UNCHANGED <<states, invalid, disk>>
  BY DEF TypeOK, Ends, Discard, Publish, Raise, Finished, Resolving

LEMMA FlightStep == TypeOK /\ FlightInv /\ [Next]_vars => FlightInv'
<1> SUFFICES ASSUME TypeOK, FlightInv, [Next]_vars PROVE FlightInv'
  OBVIOUS
<1> USE RefreshAssumption DEF RefreshAssumption
<1>1. ASSUME NEW c \in Callers, NEW k \in Keys, Join(c, k) PROVE FlightInv'
  BY <1>1 DEF TypeOK, FlightInv, Join, Joinable, service
<1>2. ASSUME NEW c \in Callers, NEW k \in Keys, Start(c, k) PROVE FlightInv'
  <2>0. Started(c, k) /\ epoch \in Nat
    BY <1>2, StartFacts DEF TypeOK
  <2>1. \A d \in Callers : mine'[d] <= seq' /\ (pc'[d] # "idle" => mine'[d] # 0)
    <3>1. \A d \in Callers : mine[d] \in Nat /\ mine[d] <= seq /\ (pc[d] # "idle" => mine[d] # 0)
      BY DEF TypeOK, FlightInv
    <3> QED
      BY <2>0, <3>1 DEF Started
  <2>2. \A d \in Callers : pc'[d] \in {"idle", "finish"} /\ result'[d] = "ok" => mine'[d] # 0
    BY <2>0 DEF FlightInv, Started
  <2>3. \A i \in Keys : inflight'[i] <= seq' /\ (inflight'[i] # 0 => flight'[inflight'[i]].key = i)
    <3>1. \A i \in Keys : inflight[i] \in Nat /\ inflight[i] <= seq
      BY DEF TypeOK, FlightInv
    <3>3. \A i \in Keys : inflight[i] # 0 => flight[inflight[i]].key = i
      BY DEF FlightInv
    <3>2. ASSUME NEW i \in Keys \ {k}
          PROVE  inflight'[i] <= seq' /\ (inflight'[i] # 0 => flight'[inflight'[i]].key = i)
      <4>1. inflight'[i] = inflight[i] /\ seq \in Nat /\ seq' = seq + 1
        BY <2>0 DEF Started
      <4>2. inflight[i] \in Nat /\ inflight[i] <= seq
        BY <3>1
      <4>3. CASE inflight[i] # 0
        <5>1. inflight[i] \in 1..seq
          BY <4>1, <4>2, <4>3
        <5>2. flight'[inflight[i]] = flight[inflight[i]]
          BY <2>0, <5>1 DEF Started
        <5> QED
          BY <3>3, <4>1, <4>2, <4>3, <5>2
      <4> QED
        BY <4>1, <4>2, <4>3
    <3> QED
      BY <2>0, <3>2 DEF Started
  <2>4. \A s \in 1..seq' : s \in 1..seq \/ s = seq'
    BY <2>0 DEF Started
  <2>5. \A s \in 1..seq' : flight'[s].epoch <= epoch' /\ flight'[s].key \in Keys
    BY <2>0, <2>4 DEF FlightInv, Started
  <2>6. \A s, r \in 1..seq' : s <= r => flight'[s].epoch <= flight'[r].epoch
    <3> TAKE s, r \in 1..seq'
    <3>1. CASE r = seq'
      BY <2>0, <2>5, <3>1 DEF Started
    <3>2. CASE r # seq' /\ s <= r
      <4>1. s \in 1..seq /\ r \in 1..seq
        BY <2>0, <2>4, <3>2 DEF Started
      <4> QED
        BY <2>0, <4>1 DEF FlightInv, Started
    <3> QED
      BY <3>1, <3>2
  <2> QED
    BY <2>1, <2>2, <2>3, <2>5, <2>6 DEF FlightInv
<1>3. ASSUME NEW c \in Callers, Wake(c) PROVE FlightInv'
  BY <1>3 DEF TypeOK, FlightInv, Wake, service
<1>4. ASSUME NEW c \in Callers, Reads(c) PROVE FlightInv'
  <2>1. UNCHANGED <<epoch, seq, mine, result, inflight, flight>> /\ pc[c] # "idle"
    BY <1>4, ReadsFacts DEF Resolving, service
  <2>2. pc'[c] \notin {"idle", "finish"} /\ \A d \in Callers : d # c => pc'[d] = pc[d]
    BY <1>4, ReadsFacts DEF Resolving
  <2> QED
    BY <2>1, <2>2 DEF FlightInv
<1>5. ASSUME NEW c \in Callers, Ends(c) PROVE FlightInv'
  <2>1. UNCHANGED <<epoch, seq, mine, inflight, flight>> /\ pc[c] # "idle"
    BY <1>5, EndsFacts DEF Resolving
  <2>2. pc' = [pc EXCEPT ![c] = "finish"] /\ \A d \in Callers : d # c => result'[d] = result[d]
    BY <1>5, EndsFacts
  <2>3. \A d \in Callers : d # c => pc'[d] = pc[d]
    BY <2>2 DEF TypeOK
  <2> QED
    BY <2>1, <2>2, <2>3 DEF FlightInv
<1>6. ASSUME NEW c \in Callers, Finish(c) PROVE FlightInv'
  <2>1. UNCHANGED <<epoch, seq, mine, result>> /\ pc' = [pc EXCEPT ![c] = "idle"]
    BY <1>6 DEF Finish
  <2>2. \A i \in Keys : inflight'[i] \in {0, inflight[i]}
    BY <1>6 DEF Finish, TypeOK
  <2>3. \A s \in 1..seq : flight'[s].epoch = flight[s].epoch /\ flight'[s].key = flight[s].key
    <3>1. /\ seq \in 0..MaxSeq
          /\ \A s \in 1..MaxSeq : flight'[s].epoch = flight[s].epoch /\ flight'[s].key = flight[s].key
      BY <1>6, FinishFacts DEF TypeOK
    <3> QED
      BY <3>1
  <2>4. \A i \in Keys : inflight[i] # 0 => inflight[i] \in 1..seq
    BY DEF TypeOK, FlightInv
  <2>5. \A i \in Keys : inflight'[i] <= seq' /\ (inflight'[i] # 0 => flight'[inflight'[i]].key = i)
    BY <2>1, <2>2, <2>3, <2>4 DEF TypeOK, FlightInv
  <2>6. mine[c] # 0
    BY <1>6 DEF FlightInv, Finish
  <2> QED
    BY <2>1, <2>3, <2>5, <2>6 DEF TypeOK, FlightInv
<1>7. ASSUME NEW m \in Mutators, Invalidate(m) PROVE FlightInv'
  <2>1. epoch \in Nat /\ \A s \in 1..seq : flight[s].epoch \in Nat
    BY DEF TypeOK, Flight
  <2> QED
    BY <1>7, <2>1 DEF FlightInv, Invalidate, passes
<1>8. ASSUME UNCHANGED <<epoch, seq, pc, mine, result, inflight, flight>> PROVE FlightInv'
  BY <1>8 DEF FlightInv
<1>9. ASSUME NEW m \in Mutators, NEW ids \in SUBSET Tools, MarkPending(m, ids) PROVE FlightInv'
  BY <1>8, <1>9 DEF MarkPending, passes
<1>10. ASSUME NEW m \in Mutators, Change(m) PROVE FlightInv'
  BY <1>8, <1>10 DEF Change, passes, service
<1>11. CASE AuditStart \/ AuditExamine
  BY <1>8, <1>11 DEF AuditStart, AuditExamine, passes, service
<1>12. ASSUME NEW t \in Tools, RecordEvidence(t) PROVE FlightInv'
  BY <1>8, <1>12 DEF RecordEvidence, passes
<1>13. CASE UNCHANGED vars
  BY <1>8, <1>13 DEF vars, passes, service
<1> QED
  BY <1>1, <1>2, <1>3, <1>4, <1>5, <1>6, <1>7, <1>9, <1>10, <1>11, <1>12, <1>13
     DEF Next, PassStep, Reads, Ends

(***************************************************************************)
(* A flight keeps its key and its epoch for ever.                          *)
(***************************************************************************)
FlightsStay ==
  \A s \in 1..seq : s \in 1..seq' /\ flight'[s].epoch = flight[s].epoch /\ flight'[s].key = flight[s].key

LEMMA FlightsKept == TypeOK /\ FlightInv /\ [Next]_vars => FlightsStay
<1> SUFFICES ASSUME TypeOK, FlightInv, [Next]_vars PROVE FlightsStay
  OBVIOUS
<1>1. ASSUME NEW c \in Callers, NEW k \in Keys, Start(c, k) PROVE FlightsStay
  <2>1. Started(c, k)
    BY <1>1, StartFacts
  <2> QED
    BY <2>1 DEF Started, FlightsStay
<1>2. ASSUME NEW c \in Callers, Finish(c) PROVE FlightsStay
  <2>1. seq \in 0..MaxSeq /\ MaxSeq \in Nat /\ seq' = seq
    BY <1>2, RefreshAssumption DEF RefreshAssumption, TypeOK, Finish
  <2>2. \A s \in 1..MaxSeq : flight'[s].epoch = flight[s].epoch /\ flight'[s].key = flight[s].key
    BY <1>2, FinishFacts
  <2>3. \A s \in 1..seq : s \in 1..MaxSeq
    BY <2>1
  <2> QED
    BY <2>1, <2>2, <2>3 DEF FlightsStay
<1>3. CASE UNCHANGED <<seq, flight>>
  BY <1>3 DEF FlightsStay
<1>4. ASSUME NEW c \in Callers, Reads(c) \/ Ends(c) PROVE FlightsStay
  BY <1>3, <1>4, ReadsFacts, EndsFacts DEF service
<1>5. ASSUME NEW c \in Callers, NEW k \in Keys, Join(c, k) PROVE FlightsStay
  BY <1>3, <1>5 DEF Join, service
<1>6. ASSUME NEW m \in Mutators, NEW ids \in SUBSET Tools, MarkPending(m, ids) PROVE FlightsStay
  BY <1>3, <1>6 DEF MarkPending
<1>7. ASSUME NEW t \in Tools, RecordEvidence(t) PROVE FlightsStay
  BY <1>3, <1>7 DEF RecordEvidence
<1>8. CASE UNCHANGED vars
  BY <1>3, <1>8 DEF vars, service
<1>9. CASE AuditStart \/ AuditExamine
  BY <1>3, <1>9 DEF AuditStart, AuditExamine, service
<1>10. ASSUME NEW c \in Callers, Wake(c) PROVE FlightsStay
  BY <1>3, <1>10 DEF Wake, service
<1>11. ASSUME NEW m \in Mutators, Change(m) \/ Invalidate(m) PROVE FlightsStay
  BY <1>3, <1>11 DEF Change, Invalidate, service
<1> QED
  BY <1>1, <1>2, <1>4, <1>5, <1>6, <1>7, <1>8, <1>9, <1>10, <1>11 DEF Next, PassStep, Reads, Ends

-----------------------------------------------------------------------------
(***************************************************************************)
(* The published states and the hidden tools.                              *)
(***************************************************************************)
\* What a publication does to the state of each tool.
LEMMA PublishFacts ==
  ASSUME TypeOK, FlightInv, NEW c \in Callers, Publish(c)
  PROVE  /\ mine[c] \in 1..seq /\ mine[c] \in 1..MaxSeq
         /\ flight[mine[c]].epoch = epoch /\ pc[c] = "read" /\ Unread(c) = {}
         /\ \A t \in Fresh(c) : t \in flight[mine[c]].key /\ t \notin pending
         /\ \A t \in Tools : states'[t] = IF t \in Fresh(c) THEN Produced(c, t) ELSE states[t]
<1>1. mine[c] \in 0..MaxSeq /\ mine[c] # 0 /\ mine[c] <= seq /\ seq \in 0..MaxSeq /\ MaxSeq \in Nat
  BY RefreshAssumption DEF RefreshAssumption, TypeOK, FlightInv, Publish
<1>2. mine[c] \in 1..seq /\ mine[c] \in 1..MaxSeq
  BY <1>1
<1> QED
  BY <1>2 DEF Publish, Fresh

LEMMA StatesStep ==
  TypeOK /\ FlightInv /\ StateInv /\ PendingInv /\ [Next]_vars => StateInv' /\ PendingInv'
<1> SUFFICES ASSUME TypeOK, FlightInv, StateInv, PendingInv, [Next]_vars
             PROVE  StateInv' /\ PendingInv'
  OBVIOUS
<1>1. FlightsStay
  BY FlightsKept
<1>2. ASSUME UNCHANGED <<states, pending>> PROVE StateInv' /\ PendingInv'
  <2>1. PendingInv'
    BY <1>2 DEF PendingInv
  <2>2. \A t \in Tools : states[t] # None =>
          /\ states[t].seq \in 1..seq /\ states[t].epoch = flight[states[t].seq].epoch
          /\ states[t].seq \in 1..seq' /\ flight'[states[t].seq].epoch = flight[states[t].seq].epoch
    BY <1>1 DEF StateInv, FlightsStay
  <2> QED
    BY <1>2, <2>1, <2>2 DEF StateInv
<1>3. ASSUME NEW c \in Callers, Publish(c) PROVE StateInv' /\ PendingInv'
  <2>1. UNCHANGED <<seq, flight, pending>>
    BY <1>3 DEF Publish, Finished
  <2>2. \A t \in Tools : states'[t] = IF t \in Fresh(c) THEN Produced(c, t) ELSE states[t]
    BY <1>3, PublishFacts
  <2>3. \A t \in Fresh(c) : t \notin pending
    BY <1>3, PublishFacts
  <2>4. mine[c] \in 1..seq
    BY <1>3, PublishFacts
  <2>5. \A t \in Tools : Produced(c, t).seq = mine[c] /\ Produced(c, t).epoch = flight[mine[c]].epoch
    BY DEF Produced
  <2>6. StateInv'
    BY <2>1, <2>2, <2>4, <2>5 DEF StateInv
  <2>7. \A t \in pending : t \in Tools
    BY DEF TypeOK
  <2>8. PendingInv'
    BY <2>1, <2>2, <2>3, <2>7 DEF PendingInv
  <2> QED
    BY <2>6, <2>8
<1>4. ASSUME NEW m \in Mutators, NEW ids \in SUBSET Tools, MarkPending(m, ids)
      PROVE  StateInv' /\ PendingInv'
  <2>1. UNCHANGED <<seq, flight>> /\ pending' \subseteq Tools
    BY <1>4 DEF MarkPending, TypeOK
  <2>2. \A t \in Tools : states'[t] = IF t \in pending' THEN None ELSE states[t]
    BY <1>4 DEF MarkPending
  <2> QED
    BY <2>1, <2>2 DEF StateInv, PendingInv
<1>5. ASSUME NEW m \in Mutators, Invalidate(m) PROVE StateInv' /\ PendingInv'
  BY <1>5 DEF Invalidate, StateInv, PendingInv
<1>6. ASSUME NEW c \in Callers, NEW k \in Keys, Join(c, k) \/ Start(c, k)
      PROVE StateInv' /\ PendingInv'
  BY <1>2, <1>6 DEF Join, Start, service
<1>7. ASSUME NEW c \in Callers, Wake(c) \/ Reads(c) \/ Finish(c) PROVE StateInv' /\ PendingInv'
  BY <1>2, <1>7, ReadsFacts DEF Wake, Finish, service
<1>8. ASSUME NEW c \in Callers, Discard(c) \/ Raise(c) PROVE StateInv' /\ PendingInv'
  BY <1>2, <1>8 DEF Discard, Raise, Finished
<1>9. ASSUME NEW m \in Mutators, Change(m) PROVE StateInv' /\ PendingInv'
  BY <1>2, <1>9 DEF Change, service
<1>10. CASE AuditStart \/ AuditExamine
  BY <1>2, <1>10 DEF AuditStart, AuditExamine, service
<1>11. ASSUME NEW t \in Tools, RecordEvidence(t) PROVE StateInv' /\ PendingInv'
  BY <1>2, <1>11 DEF RecordEvidence
<1>12. CASE UNCHANGED vars
  BY <1>2, <1>12 DEF vars, service
<1> QED
  BY <1>3, <1>4, <1>5, <1>6, <1>7, <1>8, <1>9, <1>10, <1>11, <1>12 DEF Next, PassStep, Reads

-----------------------------------------------------------------------------
(***************************************************************************)
(* Callers and the flights they run.                                       *)
(***************************************************************************)
LEMMA OwnStep ==
  TypeOK /\ FlightInv /\ OwnInv /\ SingleFlight /\ [Next]_vars => OwnInv' /\ SingleFlight'
<1> SUFFICES ASSUME TypeOK, FlightInv, OwnInv, SingleFlight, [Next]_vars
             PROVE  OwnInv' /\ SingleFlight'
  OBVIOUS
<1>0. \A d \in Callers : Running(d) => mine[d] \in 1..seq /\ flight[mine[d]].key \in Keys
  <2>1. \A d \in Callers : Running(d) => mine[d] \in 1..seq
    BY RefreshAssumption DEF RefreshAssumption, TypeOK, FlightInv, Running
  <2> QED
    BY <2>1 DEF FlightInv
<1>1. ASSUME \A d \in Callers : Running(d)' => Running(d) /\ mine'[d] = mine[d],
             UNCHANGED <<inflight, flight, epoch>>
      PROVE  OwnInv' /\ SingleFlight'
  BY <1>1 DEF OwnInv, SingleFlight
<1>2. ASSUME NEW c \in Callers, NEW k \in Keys, Start(c, k) PROVE OwnInv' /\ SingleFlight'
  <2>1. Started(c, k) /\ ~Joinable(k) /\ pc[c] = "idle"
    BY <1>2, StartFacts DEF Start
  <2>2. ~Running(c) /\ mine'[c] = seq' /\ flight'[seq'].key = k /\ inflight'[k] = seq' /\ epoch' = epoch
    BY <2>1 DEF Started, Running
  <2>3. ASSUME NEW d \in Callers, Running(d)', d # c
        PROVE  /\ Running(d) /\ mine'[d] = mine[d] /\ mine[d] \in 1..seq /\ mine[d] # seq'
               /\ flight'[mine[d]] = flight[mine[d]]
               /\ flight[mine[d]].epoch = epoch =>
                    flight[mine[d]].key # k /\ inflight'[flight[mine[d]].key] = mine[d]
    <3>1. mine'[d] = mine[d] /\ pc'[d] = pc[d]
      BY <2>1, <2>3 DEF Started
    <3>2. Running(d)
      BY <2>3, <3>1 DEF Running
    <3>3. mine[d] \in 1..seq /\ flight[mine[d]].key \in Keys
      BY <1>0, <3>2
    <3>4. mine[d] # seq' /\ mine[d] # 0 /\ flight'[mine[d]] = flight[mine[d]]
      BY <2>1, <3>3 DEF Started
    <3>5. CASE flight[mine[d]].epoch = epoch
      <4>1. inflight[flight[mine[d]].key] = mine[d]
        BY <3>2, <3>5 DEF OwnInv
      <4>2. flight[mine[d]].key # k
        BY <2>1, <3>4, <3>5, <4>1 DEF Joinable
      <4>3. inflight'[flight[mine[d]].key] = inflight[flight[mine[d]].key]
        BY <2>1, <3>3, <4>2 DEF Started
      <4> QED
        BY <3>1, <3>2, <3>3, <3>4, <4>1, <4>2, <4>3
    <3> QED
      BY <3>1, <3>2, <3>3, <3>4, <3>5
  <2>4. OwnInv'
    <3>1. \A d, e \in Callers : d # e /\ Running(d)' /\ Running(e)' => mine'[d] # mine'[e]
      BY <2>2, <2>3 DEF OwnInv
    <3>2. \A d \in Callers : Running(d)' /\ flight'[mine'[d]].epoch = epoch'
                            => inflight'[flight'[mine'[d]].key] = mine'[d]
      BY <2>2, <2>3
    <3> QED
      BY <3>1, <3>2 DEF OwnInv
  <2>5. ASSUME NEW d \in Callers, NEW e \in Callers, d # e, Running(d)', Running(e)',
               flight'[mine'[d]].key = flight'[mine'[e]].key
        PROVE  flight'[mine'[d]].epoch # flight'[mine'[e]].epoch
    <3>1. flight'[seq'].epoch = epoch
      BY <2>1 DEF Started
    <3>2. CASE d = c
      BY <2>2, <2>3, <2>5, <3>1, <3>2
    <3>3. CASE e = c
      BY <2>2, <2>3, <2>5, <3>1, <3>3
    <3>4. CASE d # c /\ e # c
      BY <2>3, <2>5, <3>4 DEF SingleFlight
    <3> QED
      BY <3>2, <3>3, <3>4
  <2> QED
    BY <2>4, <2>5 DEF SingleFlight
<1>3. ASSUME NEW c \in Callers, Finish(c) PROVE OwnInv' /\ SingleFlight'
  <2>1. /\ UNCHANGED <<epoch, mine>> /\ Running(c)
        /\ inflight' = IF inflight[flight[mine[c]].key] = mine[c]
                         THEN [inflight EXCEPT ![flight[mine[c]].key] = 0] ELSE inflight
    BY <1>3 DEF Finish, Running
  <2>2. \A d \in Callers : Running(d)' => d # c /\ Running(d)
    BY <1>3 DEF Finish, Running, TypeOK
  <2>3. \A d \in Callers : Running(d) => /\ flight'[mine[d]].epoch = flight[mine[d]].epoch
                                        /\ flight'[mine[d]].key = flight[mine[d]].key
    <3>1. \A d \in Callers : Running(d) => mine[d] \in 1..MaxSeq
      BY <1>0, RefreshAssumption DEF RefreshAssumption, TypeOK
    <3>2. \A s \in 1..MaxSeq : flight'[s].epoch = flight[s].epoch /\ flight'[s].key = flight[s].key
      BY <1>3, FinishFacts
    <3> QED
      BY <3>1, <3>2
  <2>4. ASSUME NEW d \in Callers, d # c, Running(d), inflight[flight[mine[d]].key] = mine[d]
        PROVE  inflight'[flight[mine[d]].key] = mine[d]
    <3>1. mine[d] # mine[c] /\ flight[mine[d]].key \in Keys
      BY <1>0, <2>1, <2>4 DEF OwnInv
    <3>2. CASE flight[mine[d]].key = flight[mine[c]].key
      BY <2>1, <2>4, <3>1, <3>2
    <3>3. CASE flight[mine[d]].key # flight[mine[c]].key
      BY <2>1, <2>4, <3>1, <3>3 DEF TypeOK
    <3> QED
      BY <3>2, <3>3
  <2>5. OwnInv'
    BY <2>1, <2>2, <2>3, <2>4 DEF OwnInv
  <2>6. SingleFlight'
    BY <2>1, <2>2, <2>3 DEF SingleFlight
  <2> QED
    BY <2>5, <2>6
<1>4. ASSUME NEW m \in Mutators, Invalidate(m) PROVE OwnInv' /\ SingleFlight'
  <2>1. UNCHANGED <<pc, mine, inflight, flight>> /\ epoch' = epoch + 1 /\ epoch \in Nat
    BY <1>4 DEF Invalidate, passes, TypeOK
  <2>2. \A d \in Callers : Running(d) => flight[mine[d]].epoch # epoch + 1
    <3>1. \A s \in 1..seq : flight[s].epoch <= epoch /\ s \in 1..MaxSeq
      BY RefreshAssumption DEF RefreshAssumption, TypeOK, FlightInv
    <3>2. \A s \in 1..MaxSeq : flight[s].epoch \in Nat
      BY DEF TypeOK, Flight
    <3> QED
      BY <1>0, <2>1, <3>1, <3>2
  <2>3. \A d \in Callers : Running(d)' = Running(d)
    BY <2>1 DEF Running
  <2> QED
    BY <2>1, <2>2, <2>3 DEF OwnInv, SingleFlight
<1>5. ASSUME NEW c \in Callers, NEW k \in Keys, Join(c, k) PROVE OwnInv' /\ SingleFlight'
  <2>1. \A d \in Callers : Running(d)' => Running(d) /\ mine'[d] = mine[d]
    BY <1>5 DEF Join, Running, TypeOK
  <2> QED
    BY <1>1, <1>5, <2>1 DEF Join, service
<1>6. ASSUME NEW c \in Callers, Wake(c) PROVE OwnInv' /\ SingleFlight'
  <2>1. \A d \in Callers : Running(d)' => Running(d) /\ mine'[d] = mine[d]
    BY <1>6 DEF Wake, Running, TypeOK
  <2> QED
    BY <1>1, <1>6, <2>1 DEF Wake, service
<1>7. ASSUME NEW c \in Callers, Reads(c) \/ Ends(c) PROVE OwnInv' /\ SingleFlight'
  <2>1. UNCHANGED <<inflight, flight, epoch, mine>> /\ Resolving(c)
    BY <1>7, ReadsFacts, EndsFacts DEF service
  <2>2. \A d \in Callers : d # c => pc'[d] = pc[d]
    BY <1>7, ReadsFacts, EndsFacts DEF TypeOK
  <2>3. \A d \in Callers : Running(d)' => Running(d)
    BY <2>1, <2>2 DEF Running, Resolving
  <2> QED
    BY <1>1, <2>1, <2>3
<1>8. ASSUME UNCHANGED <<pc, mine, inflight, flight, epoch>> PROVE OwnInv' /\ SingleFlight'
  BY <1>1, <1>8 DEF Running
<1>9. ASSUME NEW m \in Mutators, NEW ids \in SUBSET Tools, MarkPending(m, ids)
      PROVE OwnInv' /\ SingleFlight'
  BY <1>8, <1>9 DEF MarkPending, passes
<1>10. ASSUME NEW m \in Mutators, Change(m) PROVE OwnInv' /\ SingleFlight'
  BY <1>8, <1>10 DEF Change, passes, service
<1>11. CASE AuditStart \/ AuditExamine
  BY <1>8, <1>11 DEF AuditStart, AuditExamine, passes, service
<1>12. ASSUME NEW t \in Tools, RecordEvidence(t) PROVE OwnInv' /\ SingleFlight'
  BY <1>8, <1>12 DEF RecordEvidence, passes
<1>13. CASE UNCHANGED vars
  BY <1>8, <1>13 DEF vars, passes, service
<1> QED
  BY <1>2, <1>3, <1>4, <1>5, <1>6, <1>7, <1>9, <1>10, <1>11, <1>12, <1>13
     DEF Next, PassStep, Reads, Ends

-----------------------------------------------------------------------------
(***************************************************************************)
(* The answers of the flights that ended well.                             *)
(***************************************************************************)
LEMMA AnsweredKept ==
  TypeOK /\ SnapInv /\ FlightInv /\ [Next]_vars =>
    \A s \in 1..seq : Answered(s) => Answered(s)'
<1> SUFFICES ASSUME TypeOK, SnapInv, FlightInv, [Next]_vars, NEW s \in 1..seq, Answered(s)
             PROVE  Answered(s)'
  OBVIOUS
<1>0. /\ flight'[s].epoch = flight[s].epoch /\ flight'[s].key = flight[s].key
      /\ flight[s].key \subseteq Tools
  BY FlightsKept, RefreshAssumption DEF FlightsStay, FlightInv, RefreshAssumption
<1>1. ASSUME UNCHANGED <<epoch, pending, states>> PROVE Answered(s)'
  BY <1>0, <1>1 DEF Answered, StateOf
<1>2. ASSUME NEW c \in Callers, Publish(c) PROVE Answered(s)'
  <2>1. UNCHANGED <<epoch, pending>>
    BY <1>2 DEF Publish, Finished
  <2>2. \A t \in Tools : states'[t] = IF t \in Fresh(c) THEN Produced(c, t) ELSE states[t]
    BY <1>2, PublishFacts
  <2>3. \A t \in Fresh(c) : Produced(c, t) # None /\ Produced(c, t).epoch = epoch
    <3> TAKE t \in Fresh(c)
    <3>1. /\ pc[c] = "read" /\ mine[c] # 0 /\ Unread(c) = {} /\ t \in flight[mine[c]].key
          /\ flight[mine[c]].epoch = epoch
      BY <1>2, PublishFacts DEF Publish, FlightInv
    <3>2. Produced(c, t) \in State
      BY <3>1, ProducedIsState
    <3> QED
      BY <3>1, <3>2, RefreshAssumption DEF RefreshAssumption, Produced
  <2> QED
    BY <1>0, <2>1, <2>2, <2>3 DEF Answered, StateOf
<1>3. ASSUME NEW m \in Mutators, NEW ids \in SUBSET Tools, MarkPending(m, ids) PROVE Answered(s)'
  <2>1. epoch' = epoch /\ pending \subseteq pending'
    BY <1>3 DEF MarkPending
  <2>2. \A t \in Tools : t \in pending' \/ states'[t] = states[t]
    BY <1>3 DEF MarkPending
  <2> QED
    BY <1>0, <2>1, <2>2 DEF Answered, StateOf
<1>4. ASSUME NEW m \in Mutators, Invalidate(m) PROVE Answered(s)'
  <2>1. epoch' = epoch + 1
    BY <1>4 DEF Invalidate
  <2>2. s \in 1..MaxSeq /\ epoch \in Nat /\ flight[s].epoch <= epoch
    BY RefreshAssumption DEF RefreshAssumption, TypeOK, FlightInv
  <2>3. flight[s].epoch \in Nat
    BY <2>2 DEF TypeOK, Flight
  <2>4. flight[s].epoch # epoch'
    BY <2>1, <2>2, <2>3
  <2> QED
    BY <1>0, <2>4 DEF Answered
<1>5. ASSUME NEW c \in Callers, NEW k \in Keys, Join(c, k) \/ Start(c, k) PROVE Answered(s)'
  BY <1>1, <1>5 DEF Join, Start, service
<1>6. ASSUME NEW c \in Callers, Wake(c) \/ Reads(c) \/ Finish(c) PROVE Answered(s)'
  BY <1>1, <1>6, ReadsFacts DEF Wake, Finish, service
<1>7. ASSUME NEW c \in Callers, Discard(c) \/ Raise(c) PROVE Answered(s)'
  BY <1>1, <1>7 DEF Discard, Raise, Finished
<1>8. ASSUME NEW m \in Mutators, Change(m) PROVE Answered(s)'
  BY <1>1, <1>8 DEF Change, service
<1>9. CASE AuditStart \/ AuditExamine
  BY <1>1, <1>9 DEF AuditStart, AuditExamine, service
<1>10. ASSUME NEW t \in Tools, RecordEvidence(t) PROVE Answered(s)'
  BY <1>1, <1>10 DEF RecordEvidence
<1>11. CASE UNCHANGED vars
  BY <1>1, <1>11 DEF vars, service
<1> QED
  BY <1>2, <1>3, <1>4, <1>5, <1>6, <1>7, <1>8, <1>9, <1>10, <1>11 DEF Next, PassStep, Reads

(***************************************************************************)
(* A pass that publishes answers its flight: what it may not publish is    *)
(* hidden, or was published by a later pass of the same epoch.             *)
(***************************************************************************)
LEMMA PublishAnswers ==
  ASSUME TypeOK, SnapInv, FlightInv, StateInv, NEW c \in Callers, Publish(c)
  PROVE  Answered(mine[c])'
<1>1. /\ mine[c] \in 1..seq /\ flight[mine[c]].epoch = epoch /\ pc[c] = "read" /\ Unread(c) = {}
      /\ \A t \in Tools : states'[t] = IF t \in Fresh(c) THEN Produced(c, t) ELSE states[t]
  BY PublishFacts
<1>2. UNCHANGED <<epoch, pending, flight, mine>> /\ epoch \in Nat /\ seq \in Nat
  BY DEF Publish, Finished, TypeOK
<1>3. flight[mine[c]].key \subseteq Tools
  BY <1>1, RefreshAssumption DEF RefreshAssumption, FlightInv
<1>4. ASSUME NEW t \in flight[mine[c]].key, t \notin pending PROVE StateOf(t)' # None
  <2>1. t \in Tools
    BY <1>3
  <2>2. CASE t \in Fresh(c)
    <3>1. mine[c] # 0
      BY DEF FlightInv, Publish
    <3>2. Produced(c, t) \in State
      BY <1>1, <1>4, <3>1, ProducedIsState
    <3>3. Produced(c, t) # None /\ Produced(c, t).epoch = epoch
      BY <1>1, <3>2, RefreshAssumption DEF RefreshAssumption, Produced
    <3> QED
      BY <1>1, <1>2, <2>1, <2>2, <3>3 DEF StateOf
  <2>3. CASE t \notin Fresh(c)
    <3>1. states[t] # None /\ ~(states[t].seq < mine[c])
      BY <1>4, <2>3 DEF Fresh
    <3>2. states[t].seq \in 1..seq /\ states[t].epoch = flight[states[t].seq].epoch
      BY <2>1, <3>1 DEF StateInv
    <3>3. mine[c] <= states[t].seq
      BY <1>1, <1>2, <3>1, <3>2
    <3>4. /\ flight[mine[c]].epoch <= flight[states[t].seq].epoch
          /\ flight[states[t].seq].epoch <= epoch
      BY <1>1, <3>2, <3>3 DEF FlightInv
    <3>5. flight[states[t].seq].epoch \in Nat
      BY <3>2, RefreshAssumption DEF RefreshAssumption, TypeOK, Flight
    <3>6. states[t].epoch = epoch
      BY <1>1, <1>2, <3>2, <3>4, <3>5
    <3> QED
      BY <1>1, <1>2, <2>1, <2>3, <3>1, <3>6 DEF StateOf
  <2> QED
    BY <2>2, <2>3
<1> QED
  BY <1>2, <1>4 DEF Answered

LEMMA AnswerStep ==
  TypeOK /\ SnapInv /\ FlightInv /\ StateInv /\ AnswerInv /\ [Next]_vars => AnswerInv'
<1> SUFFICES ASSUME TypeOK, SnapInv, FlightInv, StateInv, AnswerInv, [Next]_vars PROVE AnswerInv'
  OBVIOUS
<1>0. /\ \A s \in 1..seq : Answered(s) => Answered(s)'
      /\ \A d \in Callers : mine[d] # 0 => mine[d] \in 1..seq
      /\ \A d \in Callers : pc[d] \in {"idle", "finish"} /\ result[d] = "ok" => mine[d] \in 1..seq
  <2>1. \A s \in 1..seq : Answered(s) => Answered(s)'
    BY AnsweredKept
  <2>2. \A d \in Callers : mine[d] # 0 => mine[d] \in 1..seq
    BY RefreshAssumption DEF RefreshAssumption, TypeOK, FlightInv
  <2> QED
    BY <2>1, <2>2 DEF FlightInv
<1> DEFINE Told(d) == pc[d] \in {"idle", "finish"} /\ result[d] = "ok"
<1>1. ASSUME UNCHANGED <<seq, flight, mine>>,
             \A d \in Callers : Told(d)' => Told(d) \/ Answered(mine[d])',
             \A d \in Callers : pc'[d] = "finish" => result'[d] \in {"ok", "raised"}
      PROVE  AnswerInv'
  <2>1. \A s \in 1..seq' : flight'[s].done /\ ~flight'[s].failed => Answered(s)'
    BY <1>0, <1>1 DEF AnswerInv
  <2>2. \A d \in Callers : Told(d)' => Answered(mine[d])'
    <3> TAKE d \in Callers
    <3>1. CASE Told(d)
      <4>1. mine[d] \in 1..seq /\ Answered(mine[d])
        BY <1>0, <3>1 DEF AnswerInv
      <4>2. Answered(mine[d])'
        BY <1>0, <1>1, <4>1 DEF Answered
      <4> QED
        BY <4>2
    <3> QED
      BY <1>1, <3>1
  <2> QED
    BY <1>1, <2>1, <2>2 DEF AnswerInv
<1>2. ASSUME NEW c \in Callers, NEW k \in Keys, Start(c, k) PROVE AnswerInv'
  <2>1. Started(c, k)
    BY <1>2, StartFacts
  <2>2. ASSUME NEW s \in 1..seq', flight'[s].done, ~flight'[s].failed PROVE Answered(s)'
    <3>1. s \in 1..seq /\ flight'[s] = flight[s]
      BY <2>1, <2>2 DEF Started
    <3> QED
      BY <1>0, <2>2, <3>1 DEF AnswerInv
  <2>3. \A d \in Callers : pc'[d] \in {"idle", "finish"} => d # c /\ pc'[d] = pc[d] /\ result'[d] = result[d]
                                                          /\ mine'[d] = mine[d]
    BY <2>1 DEF Started
  <2>4. ASSUME NEW d \in Callers, Told(d)' PROVE Answered(mine[d])'
    <3>1. Told(d) /\ mine'[d] = mine[d]
      BY <2>3, <2>4
    <3>2. mine[d] \in 1..seq /\ Answered(mine[d])
      BY <1>0, <3>1 DEF AnswerInv
    <3>3. mine'[d] \in 1..seq /\ Answered(mine'[d])
      BY <3>1, <3>2
    <3>4. flight'[mine[d]] = flight[mine[d]] /\ UNCHANGED <<epoch, pending, states>>
      BY <1>2, <2>1, <3>2 DEF Started, Start
    <3> QED
      BY <3>1, <3>2, <3>4 DEF Answered, StateOf
  <2> QED
    BY <2>2, <2>3, <2>4 DEF AnswerInv
<1>3. ASSUME NEW c \in Callers, Finish(c) PROVE AnswerInv'
  <2>1. /\ pc' = [pc EXCEPT ![c] = "idle"] /\ pc[c] = "finish"
        /\ UNCHANGED <<epoch, seq, states, pending, mine, result>>
    BY <1>3 DEF Finish
  <2>2. \A s \in 1..seq : s \in 1..MaxSeq
    BY RefreshAssumption DEF RefreshAssumption, TypeOK
  <2>3. ASSUME NEW s \in 1..seq', flight'[s].done, ~flight'[s].failed PROVE Answered(s)'
    <3>1. CASE s = mine[c]
      <4>1. result[c] # "raised"
        BY <1>3, <2>3, <3>1, FinishFacts
      <4> QED
        BY <1>0, <2>1, <3>1, <4>1 DEF AnswerInv
    <3>2. CASE s # mine[c]
      <4>1. flight'[s] = flight[s]
        BY <1>3, <2>1, <2>2, <2>3, <3>2, FinishFacts
      <4> QED
        BY <1>0, <2>1, <2>3, <4>1 DEF AnswerInv
    <3> QED
      BY <3>1, <3>2
  <2>4. ASSUME NEW d \in Callers, Told(d)' PROVE Answered(mine[d])'
    <3>1. Told(d)
      BY <2>1, <2>4 DEF TypeOK
    <3>2. mine[d] \in 1..seq /\ Answered(mine[d])
      BY <1>0, <3>1 DEF AnswerInv
    <3>3. mine[d] \in 1..MaxSeq
      BY <2>2, <3>2
    <3>4. flight'[mine[d]].epoch = flight[mine[d]].epoch /\ flight'[mine[d]].key = flight[mine[d]].key
      BY <1>3, <3>3, FinishFacts
    <3> QED
      BY <2>1, <3>2, <3>4 DEF Answered, StateOf
  <2>5. \A d \in Callers : pc'[d] = "finish" => result'[d] \in {"ok", "raised"}
    BY <2>1 DEF AnswerInv, TypeOK
  <2> QED
    BY <2>3, <2>4, <2>5 DEF AnswerInv
<1>4. ASSUME NEW c \in Callers, Wake(c) PROVE AnswerInv'
  <2>1. /\ UNCHANGED <<epoch, seq, flight, mine, states, pending>> /\ pc[c] = "wait" /\ flight[mine[c]].done
        /\ pc' = [pc EXCEPT ![c] = "idle"]
        /\ result' = [result EXCEPT ![c] = IF flight[mine[c]].failed THEN "raised" ELSE "ok"]
    BY <1>4 DEF Wake, service
  <2>2. mine[c] \in 1..seq
    BY <1>0, <2>1 DEF FlightInv
  <2>3. result'[c] = "ok" => Answered(mine[c])
    BY <2>1, <2>2 DEF AnswerInv, TypeOK
  <2>4. \A d \in Callers : d # c => pc'[d] = pc[d] /\ result'[d] = result[d]
    BY <2>1 DEF TypeOK
  <2>5. \A d \in Callers : Told(d)' => Answered(mine[d])
    BY <2>3, <2>4 DEF AnswerInv
  <2>6. \A d \in Callers : Told(d)' => Answered(mine[d])'
    BY <2>1, <2>5 DEF Answered, StateOf
  <2>7. \A d \in Callers : pc'[d] = "finish" => result'[d] \in {"ok", "raised"}
    BY <2>1, <2>4 DEF AnswerInv, TypeOK
  <2> QED
    BY <1>1, <2>1, <2>6, <2>7
<1>5. ASSUME NEW c \in Callers, Ends(c) PROVE AnswerInv'
  <2>1. /\ UNCHANGED <<epoch, pending, seq, flight, mine>> /\ pc' = [pc EXCEPT ![c] = "finish"]
        /\ \A d \in Callers : d # c => result'[d] = result[d]
    BY <1>5, EndsFacts
  <2>2. result'[c] \in {"ok", "raised"}
    BY <1>5 DEF Ends, Discard, Publish, Raise, TypeOK
  <2>3. \A d \in Callers : d # c => pc'[d] = pc[d]
    BY <2>1 DEF TypeOK
  <2>4. result'[c] = "ok" => Answered(mine[c])'
    <3>1. CASE Discard(c)
      <4>1. flight[mine[c]].epoch # epoch
        BY <3>1 DEF Discard
      <4> QED
        BY <2>1, <4>1 DEF Answered
    <3>2. CASE Publish(c)
      BY <3>2, PublishAnswers
    <3>3. CASE Raise(c)
      BY <3>3 DEF Raise, TypeOK
    <3> QED
      BY <1>5, <3>1, <3>2, <3>3 DEF Ends
  <2>5. \A d \in Callers : Told(d)' => Told(d) \/ Answered(mine[d])'
    BY <2>3, <2>1, <2>4
  <2>6. \A d \in Callers : pc'[d] = "finish" => result'[d] \in {"ok", "raised"}
    BY <2>1, <2>2, <2>3 DEF AnswerInv
  <2> QED
    BY <1>1, <2>1, <2>5, <2>6
<1>6. ASSUME NEW c \in Callers, Reads(c) PROVE AnswerInv'
  <2>1. UNCHANGED <<seq, flight, mine, result>> /\ Resolving(c)'
    BY <1>6, ReadsFacts DEF service
  <2>2. \A d \in Callers : d # c => pc'[d] = pc[d]
    BY <1>6, ReadsFacts
  <2>3. \A d \in Callers : pc'[d] \in {"idle", "finish"} => d # c /\ pc'[d] = pc[d]
    BY <2>1, <2>2 DEF Resolving
  <2> QED
    BY <1>1, <2>1, <2>3 DEF AnswerInv
<1>7. ASSUME NEW c \in Callers, NEW k \in Keys, Join(c, k) PROVE AnswerInv'
  <2>1. /\ UNCHANGED <<epoch, seq, flight, states, pending>>
        /\ \A d \in Callers : d # c => pc'[d] = pc[d] /\ mine'[d] = mine[d] /\ result'[d] = result[d]
        /\ pc'[c] = "wait"
    BY <1>7 DEF Join, service, TypeOK
  <2>2. \A s \in 1..seq' : flight'[s].done /\ ~flight'[s].failed => Answered(s)'
    BY <1>0, <2>1 DEF AnswerInv
  <2>3. ASSUME NEW d \in Callers, Told(d)' PROVE Answered(mine[d])'
    <3>1. Told(d) /\ mine'[d] = mine[d]
      BY <2>1, <2>3
    <3>2. Answered(mine[d])
      BY <3>1 DEF AnswerInv
    <3> QED
      BY <2>1, <3>1, <3>2 DEF Answered, StateOf
  <2>4. \A d \in Callers : pc'[d] = "finish" => result'[d] \in {"ok", "raised"}
    BY <2>1 DEF AnswerInv
  <2> QED
    BY <2>2, <2>3, <2>4 DEF AnswerInv
<1>8. ASSUME UNCHANGED <<seq, flight, mine, pc, result>> PROVE AnswerInv'
  BY <1>1, <1>8 DEF AnswerInv
<1>9. ASSUME NEW m \in Mutators, NEW ids \in SUBSET Tools, MarkPending(m, ids) PROVE AnswerInv'
  BY <1>8, <1>9 DEF MarkPending, passes
<1>10. ASSUME NEW m \in Mutators, Change(m) \/ Invalidate(m) PROVE AnswerInv'
  BY <1>8, <1>10 DEF Change, Invalidate, passes, service
<1>11. CASE AuditStart \/ AuditExamine
  BY <1>8, <1>11 DEF AuditStart, AuditExamine, passes, service
<1>12. ASSUME NEW t \in Tools, RecordEvidence(t) PROVE AnswerInv'
  BY <1>8, <1>12 DEF RecordEvidence, passes
<1>13. CASE UNCHANGED vars
  BY <1>8, <1>13 DEF vars, passes, service
<1> QED
  BY <1>2, <1>3, <1>4, <1>5, <1>6, <1>7, <1>9, <1>10, <1>11, <1>12, <1>13
     DEF Next, PassStep, Reads, Ends

-----------------------------------------------------------------------------
(***************************************************************************)
(* What is known of the machine outside a window.                          *)
(***************************************************************************)
LEMMA AuditStep == TypeOK /\ audit.epoch <= epoch /\ [Next]_vars => (audit.epoch <= epoch)'
<1> SUFFICES ASSUME TypeOK, audit.epoch <= epoch, [Next]_vars PROVE (audit.epoch <= epoch)'
  OBVIOUS
<1>0. epoch \in Nat /\ audit \in [left : Nat, on : BOOLEAN, epoch : Nat, found : Obs]
  BY DEF TypeOK
<1>1. ASSUME UNCHANGED <<audit, epoch>> PROVE (audit.epoch <= epoch)'
  BY <1>1
<1>2. ASSUME NEW m \in Mutators, Invalidate(m) PROVE (audit.epoch <= epoch)'
  <2>1. audit' = audit /\ epoch' = epoch + 1 /\ audit.epoch \in Nat
    BY <1>0, <1>2 DEF Invalidate
  <2> QED
    BY <1>0, <2>1
<1>3. CASE AuditStart
  <2>1. audit'.epoch = epoch /\ epoch' = epoch
    BY <1>3 DEF AuditStart, service
  <2> QED
    BY <1>0, <2>1
<1>4. CASE AuditExamine
  <2>1. audit'.epoch = audit.epoch /\ epoch' = epoch
    BY <1>0, <1>4 DEF AuditExamine, service
  <2> QED
    BY <2>1
<1>5. ASSUME NEW t \in Tools, RecordEvidence(t) PROVE (audit.epoch <= epoch)'
  <2>1. audit'.epoch = 0 /\ epoch' = epoch
    BY <1>5 DEF RecordEvidence
  <2> QED
    BY <1>0, <2>1
<1>6. ASSUME NEW c \in Callers, NEW k \in Keys, Join(c, k) \/ Start(c, k)
      PROVE (audit.epoch <= epoch)'
  BY <1>1, <1>6 DEF Join, Start, service
<1>7. ASSUME NEW c \in Callers, Wake(c) \/ Reads(c) \/ Ends(c) \/ Finish(c)
      PROVE (audit.epoch <= epoch)'
  BY <1>1, <1>7, ReadsFacts, EndsFacts DEF Wake, Finish, service
<1>8. ASSUME NEW m \in Mutators, NEW ids \in SUBSET Tools, MarkPending(m, ids)
      PROVE (audit.epoch <= epoch)'
  BY <1>1, <1>8 DEF MarkPending
<1>9. ASSUME NEW m \in Mutators, Change(m) PROVE (audit.epoch <= epoch)'
  BY <1>1, <1>9 DEF Change, service
<1>10. CASE UNCHANGED vars
  BY <1>1, <1>10 DEF vars, service
<1> QED
  BY <1>2, <1>3, <1>4, <1>5, <1>6, <1>7, <1>8, <1>9, <1>10 DEF Next, PassStep, Reads, Ends

\* One read at the machine, of the present, leaves a pass with the present.
LEMMA ReadsPresent ==
  ASSUME TypeOK, SnapInv, AllPresent, NEW c \in Callers, Reads(c), SeesPresent(c)
  PROVE  SeesPresent(c)'
<1>0. world' = world /\ local[c] \in Locals /\ Current' = Current
  BY ReadsFacts DEF TypeOK, Current
<1>1. CASE CopyEvidence(c)
  <2>1. local' = [local EXCEPT ![c] = [local[c] EXCEPT !.ev = evidence]]
    BY <1>1 DEF CopyEvidence
  <2>2. /\ local'[c].ev = evidence /\ local'[c].snap = local[c].snap
        /\ local'[c].got = local[c].got
    BY <1>0, <2>1 DEF TypeOK, Locals
  <2> QED
    BY <1>0, <2>2 DEF SeesPresent, AllPresent
<1>2. CASE LoadSnapshot(c)
  <2> DEFINE stored == IF invalid THEN None ELSE disk
  <2>1. local' = [local EXCEPT ![c] = [local[c] EXCEPT !.snap = stored]]
    BY <1>2 DEF LoadSnapshot
  <2>2. /\ local'[c].snap = stored /\ local'[c].ev = local[c].ev /\ local'[c].got = local[c].got
    BY <1>0, <2>1 DEF TypeOK, Locals
  <2>3. stored # None => stored.val \in Current
    BY DEF AllPresent
  <2> QED
    BY <1>0, <2>2, <2>3 DEF SeesPresent
<1>3. CASE QueryManagers(c)
  <2>1. PICK new : /\ local' = [local EXCEPT ![c] = [local[c] EXCEPT !.snap = new, !.persist = TRUE]]
                   /\ new.val \in Current
    <3>1. PICK answered \in BOOLEAN :
            local' = [local EXCEPT
              ![c].snap = IF answered
                            THEN [val |-> world, failed |-> FALSE]
                            ELSE [val |-> IF local[c].snap = None THEN None
                                          ELSE local[c].snap.val, failed |-> TRUE],
              ![c].persist = TRUE]
      BY <1>3 DEF QueryManagers
    <3> DEFINE new == IF answered
                        THEN [val |-> world, failed |-> FALSE]
                        ELSE [val |-> IF local[c].snap = None THEN None
                                      ELSE local[c].snap.val, failed |-> TRUE]
    <3>2. new.val \in Current
      BY DEF SeesPresent, Current
    <3>3. local' = [local EXCEPT ![c] = [local[c] EXCEPT !.snap = new, !.persist = TRUE]]
      BY <3>1
    <3> QED
      BY <3>2, <3>3
  <2>2. /\ local'[c].snap = new /\ local'[c].ev = local[c].ev /\ local'[c].got = local[c].got
    BY <1>0, <2>1 DEF TypeOK, Locals
  <2> QED
    BY <1>0, <2>1, <2>2 DEF SeesPresent
<1>4. CASE ReadTool(c)
  <2>1. PICK t : local' = [local EXCEPT ![c] = [local[c] EXCEPT !.got = [@ EXCEPT ![t] = world]]]
    BY <1>4 DEF ReadTool
  <2>2. /\ local'[c].got = [local[c].got EXCEPT ![t] = world]
        /\ local'[c].ev = local[c].ev /\ local'[c].snap = local[c].snap
    BY <1>0, <2>1 DEF TypeOK, Locals
  <2>3. \A u \in Tools : local'[c].got[u] \in {local[c].got[u], world}
    BY <1>0, <2>2 DEF Locals
  <2> QED
    BY <1>0, <2>2, <2>3 DEF SeesPresent, Current
<1> QED
  BY <1>1, <1>2, <1>3, <1>4 DEF Reads

LEMMA CurrentStep ==
  /\ TypeOK /\ SnapInv /\ FlightInv /\ StateInv /\ audit.epoch <= epoch /\ CurrentInv
  /\ [Next]_vars
  => CurrentInv'
<1> SUFFICES ASSUME TypeOK, SnapInv, FlightInv, StateInv, audit.epoch <= epoch, CurrentInv,
                    [Next]_vars, ~Window'
             PROVE  AllPresent'
  BY DEF CurrentInv
<1> DEFINE Watched(d) == Resolving(d) /\ flight[mine[d]].epoch = epoch
<1>0. mut \in [Mutators -> {"idle", "marked", "changed"}]
  BY DEF TypeOK
<1>1. ASSUME UNCHANGED <<world, mut, epoch, states, evidence, invalid, disk, audit>>,
             \A d \in Callers : Watched(d)' => SeesPresent(d)' \/ (Watched(d) /\ local'[d] = local[d])
      PROVE  AllPresent'
  <2>1. AllPresent
    BY <1>1 DEF CurrentInv, Window
  <2>2. \A d \in Callers : Watched(d)' => SeesPresent(d)'
    BY <1>1, <2>1 DEF AllPresent, SeesPresent, Current
  <2>3. AuditInv' /\ ShownInv'
    BY <1>1, <2>1 DEF AllPresent, AuditInv, ShownInv, StateOf, Current
  <2> QED
    BY <1>1, <2>1, <2>2, <2>3 DEF AllPresent, Current
<1>2. ASSUME NEW c \in Callers, NEW k \in Keys, Join(c, k) PROVE AllPresent'
  <2>1. UNCHANGED <<world, mut, epoch, states, evidence, invalid, disk, audit, flight, local>>
    BY <1>2 DEF Join, service
  <2>2. \A d \in Callers : Resolving(d)' => Resolving(d) /\ mine'[d] = mine[d]
    BY <1>2 DEF Join, Resolving, TypeOK
  <2> QED
    BY <1>1, <2>1, <2>2
<1>3. ASSUME NEW c \in Callers, NEW k \in Keys, Start(c, k) PROVE AllPresent'
  <2>1. UNCHANGED <<world, mut, epoch, states, evidence, invalid, disk, audit>>
    BY <1>3 DEF Start
  <2>2. Started(c, k) /\ local' = [local EXCEPT ![c] = Nothing]
    BY <1>3, StartFacts DEF Start
  <2>3. ASSUME NEW d \in Callers, d = c PROVE SeesPresent(d)'
    <3>1. local'[d] = Nothing
      BY <2>2, <2>3 DEF TypeOK
    <3> QED
      BY <3>1 DEF SeesPresent, Nothing, Current
  <2>4. ASSUME NEW d \in Callers, d # c, Watched(d)' PROVE Watched(d) /\ local'[d] = local[d]
    <3>1. pc'[d] = pc[d] /\ mine'[d] = mine[d] /\ local'[d] = local[d]
      BY <2>2, <2>4 DEF Started, TypeOK
    <3>2. Resolving(d)
      BY <2>4, <3>1 DEF Resolving
    <3>3. mine[d] \in 1..seq
      BY <3>2, RefreshAssumption DEF RefreshAssumption, TypeOK, FlightInv, Resolving
    <3>4. flight'[mine[d]] = flight[mine[d]]
      BY <2>2, <3>3 DEF Started
    <3> QED
      BY <2>1, <2>4, <3>1, <3>2, <3>4
  <2>5. \A d \in Callers : Watched(d)' => SeesPresent(d)' \/ (Watched(d) /\ local'[d] = local[d])
    <3> TAKE d \in Callers
    <3>1. CASE d = c
      BY <2>3, <3>1
    <3>2. CASE d # c
      BY <2>4, <3>2
    <3> QED
      BY <3>1, <3>2
  <2> QED
    BY <1>1, <2>1, <2>5
<1>4. ASSUME NEW c \in Callers, Wake(c) PROVE AllPresent'
  <2>1. UNCHANGED <<world, mut, epoch, states, evidence, invalid, disk, audit, flight, local, mine>>
    BY <1>4 DEF Wake, service
  <2>2. \A d \in Callers : Resolving(d)' => Resolving(d)
    BY <1>4 DEF Wake, Resolving, TypeOK
  <2> QED
    BY <1>1, <2>1, <2>2
<1>5. ASSUME NEW c \in Callers, Reads(c) PROVE AllPresent'
  <2>1. UNCHANGED <<world, mut, epoch, states, evidence, invalid, disk, audit, flight, mine>>
    BY <1>5, ReadsFacts DEF service
  <2>2. /\ Resolving(c)
        /\ \A d \in Callers : d # c => pc'[d] = pc[d] /\ local'[d] = local[d]
    BY <1>5, ReadsFacts
  <2>3. AllPresent
    BY <2>1 DEF CurrentInv, Window
  <2>4. ASSUME NEW d \in Callers, d = c, Watched(d)' PROVE SeesPresent(d)'
    <3>1. Reads(d) /\ Resolving(d)
      BY <1>5, <2>2, <2>4 DEF Resolving
    <3>2. SeesPresent(d)
      BY <2>1, <2>3, <2>4, <3>1 DEF AllPresent
    <3> QED
      BY <2>3, <3>1, <3>2, ReadsPresent
  <2>5. \A d \in Callers : d # c => (Watched(d)' => Watched(d) /\ local'[d] = local[d])
    BY <2>1, <2>2 DEF Resolving
  <2>6. \A d \in Callers : Watched(d)' => SeesPresent(d)' \/ (Watched(d) /\ local'[d] = local[d])
    <3> TAKE d \in Callers
    <3>1. CASE d = c
      BY <2>4, <3>1
    <3>2. CASE d # c
      BY <2>5, <3>2
    <3> QED
      BY <3>1, <3>2
  <2> QED
    BY <1>1, <2>1, <2>6
<1>6. ASSUME NEW c \in Callers, Discard(c) \/ Raise(c) PROVE AllPresent'
  <2>1. UNCHANGED <<world, mut, epoch, states, evidence, invalid, disk, audit, flight, mine>>
    BY <1>6 DEF Discard, Raise, Finished
  <2>2. pc' = [pc EXCEPT ![c] = "finish"] /\ local' = [local EXCEPT ![c] = Nothing]
    BY <1>6 DEF Discard, Raise, Finished
  <2>3. \A d \in Callers : Resolving(d)' => Resolving(d) /\ local'[d] = local[d]
    BY <2>2 DEF Resolving, TypeOK
  <2> QED
    BY <1>1, <2>1, <2>3
<1>7. ASSUME NEW c \in Callers, Publish(c) PROVE AllPresent'
  <2>1. /\ UNCHANGED <<world, mut, epoch, evidence, audit, flight, mine>>
        /\ pc' = [pc EXCEPT ![c] = "finish"] /\ local' = [local EXCEPT ![c] = Nothing]
    BY <1>7 DEF Publish, Finished
  <2>2. AllPresent
    BY <2>1 DEF CurrentInv, Window
  <2>3. /\ mine[c] \in 1..MaxSeq /\ flight[mine[c]].epoch = epoch /\ pc[c] = "read" /\ Unread(c) = {}
        /\ \A t \in Fresh(c) : t \in flight[mine[c]].key
        /\ \A t \in Tools : states'[t] = IF t \in Fresh(c) THEN Produced(c, t) ELSE states[t]
    BY <1>7, PublishFacts
  <2>4. SeesPresent(c) /\ local[c].snap # None
    BY <2>2, <2>3 DEF AllPresent, Resolving, SnapInv
  <2>5. \A d \in Callers : Watched(d)' => SeesPresent(d)'
    <3>1. \A d \in Callers : Resolving(d)' => Resolving(d) /\ local'[d] = local[d]
      BY <2>1 DEF Resolving, TypeOK
    <3> QED
      BY <2>1, <2>2, <3>1 DEF AllPresent, SeesPresent, Current
  <2>6. ~invalid' /\ disk' # None => disk'.val \in Current
    BY <1>7, <2>2, <2>4 DEF Publish, AllPresent, SeesPresent
  <2>7. AuditInv'
    BY <2>1, <2>2 DEF AllPresent, AuditInv, Current
  <2>8. \A t \in Fresh(c) : /\ Produced(c, t).val = world /\ Produced(c, t).mgr \in Current
                            /\ Produced(c, t).ev \in Current
    <3> TAKE t \in Fresh(c)
    <3>1. t \in Tools /\ local[c].got[t] # None
      BY <2>3 DEF TypeOK, Flight, Unread
    <3>2. local[c].got[t] \in Current /\ local[c].ev[t] \in Current /\ local[c].snap.val \in Current
      BY <2>4, <3>1 DEF SeesPresent
    <3> QED
      BY <3>1, <3>2 DEF Produced, Current
  <2>9. ShownInv'
    BY <2>1, <2>2, <2>3, <2>8 DEF AllPresent, ShownInv, StateOf, Current
  <2> QED
    BY <2>1, <2>2, <2>5, <2>6, <2>7, <2>9 DEF AllPresent, Current
<1>8. ASSUME NEW c \in Callers, Finish(c) PROVE AllPresent'
  <2>1. /\ UNCHANGED <<world, mut, epoch, states, evidence, invalid, disk, audit, mine, local>>
        /\ pc' = [pc EXCEPT ![c] = "idle"]
    BY <1>8 DEF Finish
  <2>2. \A d \in Callers : Resolving(d)' => Resolving(d) /\ mine[d] \in 1..MaxSeq
    <3>1. \A d \in Callers : Resolving(d)' => Resolving(d)
      BY <2>1 DEF Resolving, TypeOK
    <3>2. \A d \in Callers : Resolving(d) => mine[d] \in 1..MaxSeq
      BY RefreshAssumption DEF RefreshAssumption, TypeOK, FlightInv, Resolving
    <3> QED
      BY <3>1, <3>2
  <2>3. \A s \in 1..MaxSeq : flight'[s].epoch = flight[s].epoch
    BY <1>8, FinishFacts
  <2> QED
    BY <1>1, <2>1, <2>2, <2>3
<1>9. ASSUME NEW m \in Mutators, NEW ids \in SUBSET Tools, MarkPending(m, ids) PROVE AllPresent'
  <2>1. /\ UNCHANGED <<world, epoch, evidence, invalid, disk, audit, flight, pc, mine, local>>
        /\ \A t \in Tools : states'[t] \in {None, states[t]}
    BY <1>9 DEF MarkPending, passes
  <2>2. ~Window
    BY <1>0, <1>9 DEF MarkPending, Window
  <2>3. AllPresent
    BY <2>2 DEF CurrentInv
  <2>4. ShownInv'
    BY <2>1, <2>3 DEF AllPresent, ShownInv, StateOf, Current
  <2> QED
    BY <2>1, <2>3, <2>4 DEF AllPresent, AuditInv, Resolving, SeesPresent, Current
<1>10. ASSUME NEW m \in Mutators, Change(m) PROVE AllPresent'
  <2>1. mut'[m] = "changed"
    BY <1>0, <1>10 DEF Change
  <2> QED
    BY <2>1 DEF Window
<1>11. ASSUME NEW m \in Mutators, Invalidate(m) PROVE AllPresent'
  <2>1. /\ UNCHANGED <<states, flight, pc, mine, audit, seq>> /\ epoch' = epoch + 1 /\ epoch \in Nat
        /\ invalid' = TRUE /\ evidence' = [t \in Tools |-> None]
    BY <1>11 DEF Invalidate, passes, TypeOK
  <2>2. \A s \in 1..seq : flight[s].epoch # epoch'
    <3>1. \A s \in 1..seq : flight[s].epoch <= epoch /\ s \in 1..MaxSeq
      BY RefreshAssumption DEF RefreshAssumption, TypeOK, FlightInv
    <3>2. \A s \in 1..MaxSeq : flight[s].epoch \in Nat
      BY DEF TypeOK, Flight
    <3> QED
      BY <2>1, <3>1, <3>2
  <2>3. \A d \in Callers : Resolving(d) => mine[d] \in 1..seq
    BY RefreshAssumption DEF RefreshAssumption, TypeOK, FlightInv, Resolving
  <2>4. \A d \in Callers : ~Watched(d)'
    BY <2>1, <2>2, <2>3 DEF Resolving
  <2>5. \A t \in Tools : states[t] # None => states[t].epoch # epoch'
    BY <2>2 DEF StateInv
  <2>6. ShownInv'
    BY <2>1, <2>5 DEF ShownInv, StateOf
  <2>7. audit.epoch # epoch'
    BY <2>1 DEF TypeOK
  <2> QED
    BY <2>1, <2>4, <2>6, <2>7 DEF AllPresent, AuditInv, Current
<1>12. CASE AuditStart \/ AuditExamine
  <2>1. UNCHANGED <<world, mut, epoch, states, evidence, invalid, disk, flight, pc, mine, local>>
    BY <1>12 DEF AuditStart, AuditExamine, service, passes
  <2>2. AllPresent
    BY <2>1 DEF CurrentInv, Window
  <2>3. audit'.found \in Current
    BY <1>12 DEF AuditStart, AuditExamine, Current, TypeOK
  <2> QED
    BY <2>1, <2>2, <2>3 DEF AllPresent, AuditInv, ShownInv, StateOf, Resolving, SeesPresent, Current
<1>13. ASSUME NEW u \in Tools, RecordEvidence(u) PROVE AllPresent'
  <2>1. UNCHANGED <<world, mut, epoch, states, invalid, disk, flight, pc, mine, local>>
    BY <1>13 DEF RecordEvidence, passes
  <2>2. AllPresent
    BY <2>1 DEF CurrentInv, Window
  <2>3. ~audit'.on
    BY <1>13 DEF RecordEvidence
  <2>4. \A t \in Tools : evidence'[t] \in Current
    <3>1. CASE audit.epoch = epoch
      <4>1. PICK new \in {None, audit.found} : evidence' = [evidence EXCEPT ![u] = new]
        BY <1>13, <3>1 DEF RecordEvidence
      <4>2. new \in Current
        BY <1>13, <2>2, <3>1 DEF RecordEvidence, AllPresent, AuditInv, Current
      <4> QED
        BY <2>2, <4>1, <4>2 DEF AllPresent, TypeOK
    <3>2. CASE audit.epoch # epoch
      BY <1>13, <2>2, <3>2 DEF RecordEvidence, AllPresent
    <3> QED
      BY <3>1, <3>2
  <2> QED
    BY <2>1, <2>2, <2>3, <2>4
       DEF AllPresent, AuditInv, ShownInv, StateOf, Resolving, SeesPresent, Current
<1>14. CASE UNCHANGED vars
  BY <1>1, <1>14 DEF vars, service, passes, Resolving
<1> QED
  BY <1>2, <1>3, <1>4, <1>5, <1>6, <1>7, <1>8, <1>9, <1>10, <1>11, <1>12, <1>13, <1>14
     DEF Next, PassStep, Reads

-----------------------------------------------------------------------------
(***************************************************************************)
(* The invariant is inductive.                                             *)
(***************************************************************************)
LEMMA InitInv == Init => IInv
<1> SUFFICES ASSUME Init PROVE IInv
  OBVIOUS
<1>1. TypeOK /\ SnapInv
  BY TypeInit
<1>2. FlightInv
  <2>1. seq = 0 /\ \A s \in 1..seq : FALSE
    BY DEF Init
  <2> QED
    BY <2>1 DEF Init, FlightInv
<1>3. StateInv /\ PendingInv /\ audit.epoch <= epoch
  BY DEF Init, StateInv, PendingInv
<1>4. CurrentInv
  <2>1. disk # None => disk.val \in Current
    BY DEF Init, Current
  <2>2. AuditInv /\ ShownInv
    BY DEF Init, AuditInv, ShownInv, StateOf
  <2>3. \A c \in Callers : ~Resolving(c)
    BY DEF Init, Resolving
  <2> QED
    BY <2>1, <2>2, <2>3 DEF Init, CurrentInv, AllPresent, Current
<1>5. AnswerInv
  <2>1. \A s \in 1..seq : FALSE
    BY DEF Init
  <2> QED
    BY <2>1 DEF Init, AnswerInv
<1>6. OwnInv /\ SingleFlight
  <2>1. \A c \in Callers : ~Running(c)
    BY DEF Init, Running
  <2> QED
    BY <2>1 DEF OwnInv, SingleFlight
<1> QED
  BY <1>1, <1>2, <1>3, <1>4, <1>5, <1>6 DEF IInv

LEMMA StepInv == IInv /\ [Next]_vars => IInv'
<1> SUFFICES ASSUME IInv, [Next]_vars PROVE IInv'
  OBVIOUS
<1>1. TypeOK' /\ SnapInv'
  BY TypeStep DEF IInv
<1>2. FlightInv'
  BY FlightStep DEF IInv
<1>3. StateInv' /\ PendingInv' /\ (audit.epoch <= epoch)'
  BY StatesStep, AuditStep DEF IInv
<1>4. CurrentInv'
  BY CurrentStep DEF IInv
<1>5. AnswerInv'
  BY AnswerStep DEF IInv
<1>6. OwnInv' /\ SingleFlight'
  BY OwnStep DEF IInv
<1> QED
  BY <1>1, <1>2, <1>3, <1>4, <1>5, <1>6 DEF IInv

LEMMA Invariance == Spec => []IInv
<1>1. Init => IInv
  BY InitInv
<1>2. IInv /\ [Next]_vars => IInv'
  BY StepInv
<1> QED
  BY <1>1, <1>2, PTL DEF Spec

-----------------------------------------------------------------------------
(***************************************************************************)
(* However many passes, mutators and audits there are, and whatever they   *)
(* interleave: outside a window no screen is shown a state, a listing or a *)
(* finding from before the last change, nor a tool under removal           *)
(* (VersionRefreshService: _pass, invalidate, record_evidence).            *)
(***************************************************************************)
THEOREM NothingStaleEver == Spec => []NothingStaleIsShown
<1>1. IInv => NothingStaleIsShown
  <2> SUFFICES ASSUME IInv PROVE NothingStaleIsShown
    OBVIOUS
  <2>1. VisibleIsCurrent /\ EvidenceIsCurrent
    BY DEF IInv, CurrentInv, AllPresent, ShownInv, VisibleIsCurrent, EvidenceIsCurrent, Current
  <2>2. PendingHidden
    BY DEF IInv, PendingInv, PendingHidden, StateOf, TypeOK
  <2> QED
    BY <2>1, <2>2 DEF NothingStaleIsShown
<1> QED
  BY <1>1, Invariance, PTL

(***************************************************************************)
(* One key is resolved once per epoch whatever callers there are, and each *)
(* of them, woken or done, finds the answer published (refresh, _pass and  *)
(* its `finally`).                                                         *)
(***************************************************************************)
THEOREM FlightsAlwaysShared == Spec => []FlightsAreShared
<1>1. IInv => FlightsAreShared
  <2> SUFFICES ASSUME IInv PROVE FlightsAreShared
    OBVIOUS
  <2>1. SingleFlight
    BY DEF IInv
  <2>2. ReturnedMeansPublished
    BY DEF IInv, AnswerInv, Answered, ReturnedMeansPublished
  <2> QED
    BY <2>1, <2>2 DEF FlightsAreShared
<1> QED
  BY <1>1, Invariance, PTL

(***************************************************************************)
(* The record of a newer pass is never overwritten by an older one (the    *)
(* guard of _pass, under the lock).                                        *)
(***************************************************************************)
THEOREM NewestAlwaysWins == Spec => NewestWins
<1> DEFINE Kept == \A t \in Tools :
       states[t] # None /\ states'[t] # None => states'[t].seq >= states[t].seq
<1>1. IInv /\ [Next]_vars => [Kept]_vars
  <2> SUFFICES ASSUME IInv, [Next]_vars PROVE Kept
    OBVIOUS
  <2>0. \A t \in Tools : states[t] # None => states[t].seq \in Nat
    BY RefreshAssumption DEF RefreshAssumption, IInv, TypeOK, State
  <2>1. CASE states' = states
    BY <2>0, <2>1
  <2>2. ASSUME NEW c \in Callers, Publish(c) PROVE Kept
    <3>1. mine[c] \in Nat
      BY RefreshAssumption DEF RefreshAssumption, IInv, TypeOK
    <3>2. \A t \in Tools : states'[t] = IF t \in Fresh(c) THEN Produced(c, t) ELSE states[t]
      BY <2>2, PublishFacts DEF IInv
    <3>3. \A t \in Fresh(c) : Produced(c, t).seq = mine[c]
                            /\ (states[t] # None => states[t].seq < mine[c])
      BY DEF Produced, Fresh
    <3> QED
      BY <2>0, <3>1, <3>2, <3>3
  <2>3. ASSUME NEW m \in Mutators, NEW ids \in SUBSET Tools, MarkPending(m, ids) PROVE Kept
    <3>1. \A t \in Tools : states'[t] \in {None, states[t]}
      BY <2>3 DEF MarkPending
    <3> QED
      BY <2>0, <3>1
  <2>4. ASSUME NEW c \in Callers, NEW k \in Keys, Join(c, k) \/ Start(c, k) PROVE Kept
    BY <2>1, <2>4 DEF Join, Start, service
  <2>5. ASSUME NEW c \in Callers, Wake(c) \/ Reads(c) \/ Finish(c) PROVE Kept
    BY <2>1, <2>5, ReadsFacts DEF IInv, Wake, Finish, service
  <2>6. ASSUME NEW c \in Callers, Discard(c) \/ Raise(c) PROVE Kept
    BY <2>1, <2>6 DEF Discard, Raise, Finished
  <2>7. ASSUME NEW m \in Mutators, Change(m) \/ Invalidate(m) PROVE Kept
    BY <2>1, <2>7 DEF Change, Invalidate, service
  <2>8. CASE AuditStart \/ AuditExamine
    BY <2>1, <2>8 DEF AuditStart, AuditExamine, service
  <2>9. ASSUME NEW t \in Tools, RecordEvidence(t) PROVE Kept
    BY <2>1, <2>9 DEF RecordEvidence
  <2>10. CASE UNCHANGED vars
    BY <2>1, <2>10 DEF vars, service
  <2> QED
    BY <2>2, <2>3, <2>4, <2>5, <2>6, <2>7, <2>8, <2>9, <2>10 DEF Next, PassStep, Reads
<1> QED
  BY <1>1, Invariance, PTL DEF Spec, NewestWins
=============================================================================
