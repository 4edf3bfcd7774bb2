------------------------------- MODULE Refresh -------------------------------
(***************************************************************************)
(* VersionRefreshService (installer/version_status.py): the one store of   *)
(* tool states that the Tools, Uninstall and Doctor screens share.         *)
(*                                                                         *)
(* Several worker threads refresh overlapping sets of tools while other    *)
(* workers change the machine (install, update, remove) and a Doctor audit *)
(* hands in its findings.  Everything done under `_lock` is one action;    *)
(* everything a pass does outside it (reading the machine, running a       *)
(* package manager, loading the cache) is a step others interleave with.   *)
(*                                                                         *)
(* What a tool looks like is abstracted to `world`, a count of the changes *)
(* made to the machine: an observation is the count it was made at, and it *)
(* is current when that is still the count.                                *)
(***************************************************************************)
EXTENDS Naturals, FiniteSets

CONSTANTS Tools,        \* tool ids
          Keys,         \* the sets of ids the callers refresh
          Callers,      \* worker threads that call refresh()
          Mutators,     \* workers that change the machine
          None,         \* Python's None: no state, no snapshot, no finding
          MaxSeq,       \* bound: passes started
          MaxChanges,   \* bound: changes to the machine
          MaxEpoch,     \* bound: epochs in which a mutator may begin
          MaxAudits     \* bound: Doctor audits

Obs   == Nat \cup {None}
Snap  == [val : Obs, failed : BOOLEAN]
State == [epoch : Nat, seq : Nat, val : Nat, mgr : Obs, ev : Obs]

ASSUME RefreshAssumption ==
  /\ Keys \subseteq SUBSET Tools
  /\ None \notin Nat \cup Snap \cup State
  /\ MaxSeq \in Nat /\ MaxChanges \in Nat /\ MaxEpoch \in Nat /\ MaxAudits \in Nat

VARIABLES
  world,      \* changes made to the machine so far
  mut,        \* what each mutator is doing: "idle", "marked" or "changed"
  epoch,      \* _epoch
  seq,        \* _seq
  states,     \* _states: the published state of each tool, or None
  pending,    \* _pending_ids
  evidence,   \* _evidence: the audit finding for each tool, or None
  invalid,    \* _managers_invalid
  disk,       \* the manager snapshot in the cache file, or None
  inflight,   \* _inflight: per key, the sequence number of a flight (0: none)
  flight,     \* per sequence number: [epoch, key, done, failed]
  pc,         \* where each caller is in refresh()/_pass()
  mine,       \* the flight a caller runs or waits for (0: none)
  local,      \* a pass's local variables: [ev, snap, persist, got]
  result,     \* how a caller's last refresh() ended
  audit       \* the Doctor audit: [left, on, epoch, found]

service == <<epoch, seq, states, pending, evidence, invalid, disk, inflight, flight>>
passes  == <<pc, mine, local, result>>
vars    == <<world, mut, service, passes, audit>>

Flight    == [epoch : Nat, key : SUBSET Tools, done : BOOLEAN, failed : BOOLEAN]
Locals    == [ev : [Tools -> Obs], snap : Snap \cup {None}, persist : BOOLEAN,
              got : [Tools -> Obs]]
Nothing   == [ev |-> [t \in Tools |-> None], snap |-> None, persist |-> FALSE,
              got |-> [t \in Tools |-> None]]
NoFlight  == [epoch |-> 0, key |-> {}, done |-> FALSE, failed |-> FALSE]

Init ==
  /\ world = 0 /\ mut = [m \in Mutators |-> "idle"]
  /\ epoch = 0 /\ seq = 0
  /\ states = [t \in Tools |-> None] /\ pending = {}
  /\ evidence = [t \in Tools |-> None]
  /\ invalid = FALSE
  /\ disk \in {None, [val |-> 0, failed |-> FALSE]}
  /\ inflight = [k \in Keys |-> 0]
  /\ flight = [s \in 1..MaxSeq |-> NoFlight]
  /\ pc = [c \in Callers |-> "idle"] /\ mine = [c \in Callers |-> 0]
  /\ local = [c \in Callers |-> Nothing]
  /\ result = [c \in Callers |-> "none"]
  /\ audit = [left |-> MaxAudits, on |-> FALSE, epoch |-> 0, found |-> None]

(***************************************************************************)
(* state_of: the published state, unless it is from an older epoch.        *)
(***************************************************************************)
StateOf(t) ==
  IF states[t] # None /\ states[t].epoch = epoch THEN states[t] ELSE None

-----------------------------------------------------------------------------
(***************************************************************************)
(* refresh: join the pass in flight for this key at this epoch, or start   *)
(* one.                                                                    *)
(***************************************************************************)
Joinable(k) == inflight[k] # 0 /\ flight[inflight[k]].epoch = epoch

Join(c, k) ==
  /\ pc[c] = "idle" /\ Joinable(k)
  /\ pc' = [pc EXCEPT ![c] = "wait"]
  /\ mine' = [mine EXCEPT ![c] = inflight[k]]
  /\ result' = [result EXCEPT ![c] = "none"]
  /\ UNCHANGED <<world, mut, service, local, audit>>

Start(c, k) ==
  /\ pc[c] = "idle" /\ ~Joinable(k)
  /\ seq < MaxSeq
  /\ seq' = seq + 1
  /\ flight' = [flight EXCEPT ![seq + 1] =
                  [epoch |-> epoch, key |-> k, done |-> FALSE, failed |-> FALSE]]
  /\ inflight' = [inflight EXCEPT ![k] = seq + 1]
  /\ pc' = [pc EXCEPT ![c] = "begin"]
  /\ mine' = [mine EXCEPT ![c] = seq + 1]
  /\ local' = [local EXCEPT ![c] = Nothing]
  /\ result' = [result EXCEPT ![c] = "none"]
  /\ UNCHANGED <<world, mut, epoch, states, pending, evidence, invalid, disk, audit>>

\* Mutant of Wake: a joiner does not wait for the flight to be done.
WakeAtOnce(c) ==
  /\ pc[c] = "wait"
  /\ pc' = [pc EXCEPT ![c] = "idle"]
  /\ result' = [result EXCEPT ![c] = IF flight[mine[c]].failed THEN "raised" ELSE "ok"]
  /\ UNCHANGED <<world, mut, service, mine, local, audit>>

\* A joiner returns once the flight is done, with the flight's own outcome.
Wake(c) ==
  /\ pc[c] = "wait" /\ flight[mine[c]].done
  /\ pc' = [pc EXCEPT ![c] = "idle"]
  /\ result' = [result EXCEPT ![c] = IF flight[mine[c]].failed THEN "raised" ELSE "ok"]
  /\ UNCHANGED <<world, mut, service, mine, local, audit>>

(***************************************************************************)
(* _pass.                                                                  *)
(***************************************************************************)
CopyEvidence(c) ==
  /\ pc[c] = "begin"
  /\ local' = [local EXCEPT ![c].ev = evidence]
  /\ pc' = [pc EXCEPT ![c] = "load"]
  /\ UNCHANGED <<world, mut, service, mine, result, audit>>

\* Mutant of LoadSnapshot: the in-memory flag of a failed invalidate is not read.
LoadWhateverIsStored(c) ==
  /\ pc[c] = "load"
  /\ local' = [local EXCEPT ![c].snap = disk]
  /\ \/ disk # None /\ pc' = [pc EXCEPT ![c] = "read"]
     \/ pc' = [pc EXCEPT ![c] = "query"]
  /\ UNCHANGED <<world, mut, service, mine, result, audit>>

\* _load_or_query_snapshot, before the query.  Whether a stored snapshot is
\* still fresh is a matter of time, so a pass may query over any snapshot.
LoadSnapshot(c) ==
  /\ pc[c] = "load"
  /\ LET stored == IF invalid THEN None ELSE disk
     IN  /\ local' = [local EXCEPT ![c].snap = stored]
         /\ \/ stored # None /\ pc' = [pc EXCEPT ![c] = "read"]
            \/ pc' = [pc EXCEPT ![c] = "query"]
  /\ UNCHANGED <<world, mut, service, mine, result, audit>>

\* The managers answer, or they fail and the previous inventory stands in.
QueryManagers(c) ==
  /\ pc[c] = "query"
  /\ \E answered \in BOOLEAN :
       LET previous == local[c].snap
           snapshot == IF answered
                         THEN [val |-> world, failed |-> FALSE]
                         ELSE [val |-> IF previous = None THEN None ELSE previous.val,
                               failed |-> TRUE]
       IN  local' = [local EXCEPT ![c].snap = snapshot, ![c].persist = TRUE]
  /\ pc' = [pc EXCEPT ![c] = "read"]
  /\ UNCHANGED <<world, mut, service, mine, result, audit>>

Unread(c) == {t \in flight[mine[c]].key : local[c].got[t] = None}

\* The loop over the pass's tools, each probed at a moment of its own.
ReadTool(c) ==
  /\ pc[c] = "read" /\ Unread(c) # {}
  /\ LET t == CHOOSE t \in Unread(c) : TRUE
     IN  local' = [local EXCEPT ![c].got[t] = world]
  /\ UNCHANGED <<world, mut, service, pc, mine, result, audit>>

\* Mutant of Fresh: without the order of passes.
FreshWhenVisible(c) == {t \in flight[mine[c]].key : t \notin pending}

\* The tools of this pass that nothing forbids publishing.
Fresh(c) ==
  {t \in flight[mine[c]].key :
     t \notin pending /\ (states[t] = None \/ states[t].seq < mine[c])}

Produced(c, t) ==
  [epoch |-> flight[mine[c]].epoch, seq |-> mine[c], val |-> local[c].got[t],
   mgr |-> local[c].snap.val, ev |-> local[c].ev[t]]

Finished(c) ==
  /\ pc' = [pc EXCEPT ![c] = "finish"]
  /\ local' = [local EXCEPT ![c] = Nothing]
  /\ UNCHANGED <<world, mut, epoch, seq, pending, evidence, inflight, flight, mine, audit>>

\* An invalidate landed while this pass was resolving: all of it is dropped.
Discard(c) ==
  /\ pc[c] = "read" /\ Unread(c) = {}
  /\ flight[mine[c]].epoch # epoch
  /\ result' = [result EXCEPT ![c] = "ok"]
  /\ UNCHANGED <<states, invalid, disk>>
  /\ Finished(c)

\* The one publication point, and the best-effort save behind it.
Publish(c) ==
  /\ pc[c] = "read" /\ Unread(c) = {}
  /\ flight[mine[c]].epoch = epoch
  /\ states' = [t \in Tools |-> IF t \in Fresh(c) THEN Produced(c, t) ELSE states[t]]
  /\ \/ /\ Fresh(c) # {} /\ local[c].persist
        /\ disk' = local[c].snap /\ invalid' = FALSE
     \/ UNCHANGED <<disk, invalid>>     \* nothing to save, or the save failed
  /\ result' = [result EXCEPT ![c] = "ok"]
  /\ Finished(c)

\* Mutant of Raise: no `finally`, so the flight is never marked done.
RaiseWithoutFinally(c) ==
  /\ pc[c] \in {"begin", "load", "query", "read"}
  /\ result' = [result EXCEPT ![c] = "raised"]
  /\ pc' = [pc EXCEPT ![c] = "idle"]
  /\ UNCHANGED <<world, mut, service, mine, local, audit>>

\* Any helper of the pass may raise before it publishes.
Raise(c) ==
  /\ pc[c] \in {"begin", "load", "query", "read"}
  /\ result' = [result EXCEPT ![c] = "raised"]
  /\ UNCHANGED <<states, invalid, disk>>
  /\ Finished(c)

\* The `finally` block: forget the flight if it is still the registered one.
Finish(c) ==
  /\ pc[c] = "finish"
  /\ LET k == flight[mine[c]].key
     IN  inflight' = IF inflight[k] = mine[c] THEN [inflight EXCEPT ![k] = 0] ELSE inflight
  /\ flight' = [flight EXCEPT ![mine[c]].done = TRUE,
                              ![mine[c]].failed = (result[c] = "raised")]
  /\ pc' = [pc EXCEPT ![c] = "idle"]
  /\ UNCHANGED <<world, mut, epoch, seq, states, pending, evidence, invalid, disk, mine,
                 local, result, audit>>

-----------------------------------------------------------------------------
(***************************************************************************)
(* The workers that change the machine: the install run, the uninstall     *)
(* run, a row update, a pnpm reinstall.  The uninstall run hides its tools *)
(* first; every one of them ends with invalidate().                        *)
(***************************************************************************)
MarkPending(m, ids) ==
  /\ mut[m] = "idle" /\ ids # {} /\ epoch < MaxEpoch
  /\ mut' = [mut EXCEPT ![m] = "marked"]
  /\ pending' = pending \cup ids
  /\ states' = [t \in Tools |-> IF t \in pending' THEN None ELSE states[t]]
  /\ UNCHANGED <<world, epoch, seq, evidence, invalid, disk, inflight, flight, passes, audit>>

Change(m) ==
  /\ world < MaxChanges /\ (mut[m] = "idle" => epoch < MaxEpoch)
  /\ world' = world + 1
  /\ mut' = [mut EXCEPT ![m] = "changed"]
  /\ UNCHANGED <<service, passes, audit>>

\* The flag first: the write of the cleared snapshot may fail.
Invalidate(m) ==
  /\ mut[m] # "idle"
  /\ mut' = [mut EXCEPT ![m] = "idle"]
  /\ epoch' = epoch + 1
  /\ pending' = {}
  /\ evidence' = [t \in Tools |-> None]
  /\ invalid' = TRUE
  /\ disk' \in {None, disk}
  /\ UNCHANGED <<world, seq, states, inflight, flight, passes, audit>>

(***************************************************************************)
(* A Doctor audit notes the epoch, examines the machine, and hands in what *)
(* it found; record_evidence drops findings from before an invalidate.     *)
(***************************************************************************)
AuditStart ==
  /\ ~audit.on /\ audit.left > 0
  /\ audit' = [left |-> audit.left - 1, on |-> TRUE, epoch |-> epoch, found |-> None]
  /\ UNCHANGED <<world, mut, service, passes>>

AuditExamine ==
  /\ audit.on /\ audit.found = None
  /\ audit' = [audit EXCEPT !.found = world]
  /\ UNCHANGED <<world, mut, service, passes>>

RecordEvidence(t) ==
  /\ audit.on /\ audit.found # None
  /\ IF audit.epoch = epoch
       THEN \E new \in {None, audit.found} : evidence' = [evidence EXCEPT ![t] = new]
       ELSE UNCHANGED evidence
  /\ audit' = [left |-> audit.left, on |-> FALSE, epoch |-> 0, found |-> None]
  /\ UNCHANGED <<world, mut, epoch, seq, states, pending, invalid, disk, inflight, flight,
                 passes>>

-----------------------------------------------------------------------------
PassStep(c) ==
  \/ Wake(c) \/ CopyEvidence(c) \/ LoadSnapshot(c) \/ QueryManagers(c)
  \/ ReadTool(c)
  \/ Discard(c) \/ Publish(c) \/ Raise(c) \/ Finish(c)

Next ==
  \/ \E c \in Callers, k \in Keys : Join(c, k) \/ Start(c, k)
  \/ \E c \in Callers : PassStep(c)
  \/ \E m \in Mutators, ids \in SUBSET Tools : MarkPending(m, ids)
  \/ \E m \in Mutators : Change(m) \/ Invalidate(m)
  \/ AuditStart \/ AuditExamine
  \/ \E t \in Tools : RecordEvidence(t)

Spec == Init /\ [][Next]_vars

\* A pass runs on a worker thread of its own: nothing stops it for ever.
FairSpec == Spec /\ \A c \in Callers : WF_vars(PassStep(c))
-----------------------------------------------------------------------------
(***************************************************************************)
(* The type of every variable.                                             *)
(***************************************************************************)
TypeOK ==
  /\ world \in Nat /\ epoch \in Nat /\ seq \in 0..MaxSeq
  /\ mut \in [Mutators -> {"idle", "marked", "changed"}]
  /\ states \in [Tools -> State \cup {None}]
  /\ pending \subseteq Tools
  /\ evidence \in [Tools -> Obs]
  /\ invalid \in BOOLEAN
  /\ disk \in Snap \cup {None}
  /\ inflight \in [Keys -> 0..MaxSeq]
  /\ flight \in [1..MaxSeq -> Flight]
  /\ pc \in [Callers -> {"idle", "wait", "begin", "load", "query", "read", "finish"}]
  /\ mine \in [Callers -> 0..MaxSeq]
  /\ local \in [Callers -> Locals]
  /\ result \in [Callers -> {"none", "ok", "raised"}]
  /\ audit \in [left : Nat, on : BOOLEAN, epoch : Nat, found : Obs]

\* A change has been made that no invalidate() has been told about yet.
Window == \E m \in Mutators : mut[m] = "changed"

(***************************************************************************)
(* Outside such a window no screen is shown a state observed, or a manager *)
(* listing taken, before the last change to the machine: whatever pass was *)
(* in flight, whatever the cache file held, and even if invalidate() could *)
(* not write it.                                                           *)
(***************************************************************************)
VisibleIsCurrent ==
  ~Window => \A t \in Tools : StateOf(t) # None =>
    StateOf(t).val = world /\ StateOf(t).mgr \in {world, None}

(***************************************************************************)
(* Nor is it shown a Doctor finding made before the last change ("findings *)
(* read before a later `invalidate` are stale and dropped").               *)
(***************************************************************************)
EvidenceIsCurrent ==
  ~Window => \A t \in Tools : StateOf(t) # None => StateOf(t).ev \in {world, None}

(***************************************************************************)
(* A tool whose removal has begun is not shown again before the next       *)
(* epoch, also by a pass that was in flight when the removal began.        *)
(***************************************************************************)
PendingHidden == \A t \in pending : StateOf(t) = None

(***************************************************************************)
(* No screen is shown an observation, a listing, a finding or a tool that  *)
(* the last change or removal made stale.                                  *)
(***************************************************************************)
NothingStaleIsShown == VisibleIsCurrent /\ EvidenceIsCurrent /\ PendingHidden

(***************************************************************************)
(* A slower older pass never overwrites the record of a newer one.         *)
(***************************************************************************)
NewestWins ==
  [][\A t \in Tools :
       states[t] # None /\ states'[t] # None => states'[t].seq >= states[t].seq]_vars

Running(c) == pc[c] \notin {"idle", "wait"}

(***************************************************************************)
(* One key is never resolved twice at one epoch at the same time ("no      *)
(* second fetch, probe or publication").                                   *)
(***************************************************************************)
SingleFlight ==
  \A c, d \in Callers :
    c # d /\ Running(c) /\ Running(d) /\ flight[mine[c]].key = flight[mine[d]].key
      => flight[mine[c]].epoch # flight[mine[d]].epoch

(***************************************************************************)
(* A refresh that returned, started or joined, has its answer published:   *)
(* every tool it covered has a state, until it is invalidated or hidden.   *)
(***************************************************************************)
ReturnedMeansPublished ==
  \A c \in Callers :
    pc[c] = "idle" /\ result[c] = "ok" /\ flight[mine[c]].epoch = epoch =>
      \A t \in flight[mine[c]].key : t \in pending \/ StateOf(t) # None

(***************************************************************************)
(* Callers of one key share one flight at an epoch, and none returns from  *)
(* it before its answer is there.                                          *)
(***************************************************************************)
FlightsAreShared == SingleFlight /\ ReturnedMeansPublished

(***************************************************************************)
(* Every refresh returns: a joiner is always woken, also by a pass that    *)
(* raised or was discarded.                                                *)
(***************************************************************************)
RefreshReturns == \A c \in Callers : pc[c] # "idle" ~> pc[c] = "idle"
=============================================================================
