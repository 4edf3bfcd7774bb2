----------------------------- MODULE PartsProofs -----------------------------
(***************************************************************************)
(* Machine-checked proofs about the parts of Parts, for every value of the *)
(* constants: the engine, the command runner, the shims, the daemon and    *)
(* the policies.                                                           *)
(***************************************************************************)
EXTENDS Parts, FiniteSetTheorems, TLAPS

(***************************************************************************)
(* The engine, for any ladders of methods and any set of agents: a receipt *)
(* claims only what this installer put there, and no registration of a     *)
(* hook goes without a record.                                             *)
(***************************************************************************)
OnRung == {"try", "perform", "smoke", "record"}

Shapes ==
  /\ tool \in Tools
  /\ copy \in [Kinds -> {"none", "user", "ours"}]
  /\ receipt \in Receipts \cup {None}
  /\ present \subseteq Hosts /\ job.done \subseteq Hosts
  /\ job.claim \in BOOLEAN /\ job.record \in BOOLEAN
  /\ DOMAIN job = {"act", "at", "taken", "claim", "record", "done", "brought", "errs", "failed",
                   "left", "outcome"}
  /\ pc \in OnRung => job.at \in 1..Len(tool.ladder)
  /\ pc \in OnRung \cup {"hooks", "note", "done", "idle"}

\* Nobody else's package is outside of what the ladder took for already there.
TakenInv ==
  /\ job.taken # None => \A k \in (Kinds \cap Managers) \ job.taken : copy[k] # "user"
  /\ pc = "idle" => job.taken = None

\* What a claim rests on: an older receipt, or a copy that is not the user's.
ClaimInv ==
  /\ receipt # None /\ receipt.kind \in Managers => receipt.claim
  /\ pc \in {"perform", "smoke", "record"} /\ job.record =>
       /\ Kind \in Managers => job.claim
       /\ job.claim /\ ~Proven(Kind) =>
            IF pc = "perform" THEN Kind \in Downloads \/ copy[Kind] # "user" ELSE copy[Kind] = "ours"
  /\ pc \in {"perform", "smoke", "record"} => Kind # "native"

\* A host that is registered is recorded, or about to be.
HooksInv ==
  /\ registered \subseteq Recorded \cup excused \cup (IF pc = "note" THEN job.done ELSE {})
  /\ pc = "note" => receipt # None

\* What a job brought: methods tried before this one, which the outcome will name, or this one.
LeftInv ==
  /\ pc \in {"try", "perform"} =>
       /\ job.brought \subseteq job.left
       /\ \A k \in job.brought :
            k \in Managers \cup {"script"} /\ \E n \in 1..Len(tool.ladder) : n < job.at /\ tool.ladder[n] = k
  /\ pc = "smoke" =>
       /\ job.brought \subseteq job.left \cup {Kind}
       /\ \A k \in job.brought :
            k \in Managers \cup {"script"} /\ \E n \in 1..Len(tool.ladder) : n <= job.at /\ tool.ladder[n] = k
  /\ pc = "record" => job.brought \subseteq job.left \cup {Kind}
  /\ pc \in {"hooks", "note", "done"} => job.brought \subseteq Reported

IInv == Shapes /\ TakenInv /\ ClaimInv /\ HooksInv /\ LeftInv

-----------------------------------------------------------------------------
LEMMA InitInv == Init => IInv
  BY EngineAssumption DEF EngineAssumption, Init, IInv, Shapes, TakenInv, ClaimInv, HooksInv,
     LeftInv, NoJob, OnRung, Recorded

LEMMA ReceiptMade ==
  ASSUME NEW k \in MethodKinds, NEW c \in BOOLEAN, NEW h \in {None} \cup SUBSET Hosts
  PROVE  [kind |-> k, claim |-> c, hooks |-> h] \in Receipts
  BY DEF Receipts

LEMMA ReceiptNoted ==
  ASSUME NEW r \in Receipts, NEW h \in SUBSET Hosts
  PROVE  /\ [r EXCEPT !.hooks = h] \in Receipts
         /\ [r EXCEPT !.hooks = h].hooks = h
         /\ [r EXCEPT !.hooks = h].kind = r.kind /\ [r EXCEPT !.hooks = h].claim = r.claim
  BY DEF Receipts

\* What Look finds: a rung is a claim when nothing of the user's is there, or a receipt proves it.
LEMMA Looked ==
  ASSUME Shapes, TakenInv, Look
  PROVE  \E taken, mine :
    /\ mine \in BOOLEAN
    /\ job' = [job EXCEPT !.taken = taken, !.claim = mine, !.record = Kind \in Managers => mine]
    /\ taken # None => \A k \in (Kinds \cap Managers) \ taken : copy[k] # "user"
    /\ Kind \in Managers /\ mine => Proven(Kind) \/ copy[Kind] # "user"
    /\ Kind = "script" /\ mine => Proven(Kind) \/ copy[Kind] # "user"
<1>1. PICK unreadable \in SUBSET (Kinds \cap Managers), pathsRead \in BOOLEAN :
        LET taken == IF Kind \in Managers THEN AlreadyThere(unreadable) ELSE job.taken
            mine  == CASE Kind \in Managers -> Kind \notin taken \/ Proven(Kind)
                       [] Kind = "script"   -> (pathsRead /\ copy[Kind] = "none") \/ Proven(Kind)
                       [] OTHER             -> TRUE
        IN job' = [job EXCEPT !.taken = taken, !.claim = mine, !.record = Kind \in Managers => mine]
  BY DEF Look
<1> DEFINE taken == IF Kind \in Managers THEN AlreadyThere(unreadable) ELSE job.taken
           mine  == CASE Kind \in Managers -> Kind \notin taken \/ Proven(Kind)
                      [] Kind = "script"   -> (pathsRead /\ copy[Kind] = "none") \/ Proven(Kind)
                      [] OTHER             -> TRUE
<1>2. Kind \in Kinds
  BY DEF Look, Shapes, OnRung, Kinds, Kind
<1>3. \A k \in (Kinds \cap Managers) \ AlreadyThere(unreadable) : copy[k] # "user"
  BY DEF AlreadyThere, TakenInv
<1>4. taken # None => \A k \in (Kinds \cap Managers) \ taken : copy[k] # "user"
  BY <1>3 DEF TakenInv
<1>5. Kind \in Managers /\ mine => Proven(Kind) \/ copy[Kind] # "user"
  BY <1>2, <1>3
<1>6. Kind = "script" /\ mine => Proven(Kind) \/ copy[Kind] # "user"
  BY DEF Managers
<1>7. mine \in BOOLEAN
  <2>1. Proven(Kind) \in BOOLEAN
    BY DEF Proven, Shapes, Receipts
  <2> QED
    BY <2>1
<1>8. job' = [job EXCEPT !.taken = taken, !.claim = mine, !.record = Kind \in Managers => mine]
  BY <1>1
<1> HIDE DEF taken, mine
<1> QED
  BY <1>4, <1>5, <1>6, <1>7, <1>8

LEMMA ShapesStep == Shapes /\ TakenInv /\ HooksInv /\ [Next]_vars => Shapes'
<1> SUFFICES ASSUME Shapes, TakenInv, HooksInv, [Next]_vars PROVE Shapes'
  OBVIOUS
<1> USE EngineAssumption DEF EngineAssumption, Shapes, OnRung, Kinds, Kind
<1>1. CASE InstallStart
  BY <1>1 DEF InstallStart, machine, NoJob
<1>2. CASE HandOff
  BY <1>2 DEF HandOff, machine, Ends
<1>3. CASE Look
  <2>1. PICK taken, mine :
          /\ mine \in BOOLEAN
          /\ job' = [job EXCEPT !.taken = taken, !.claim = mine, !.record = Kind \in Managers => mine]
    BY <1>3, Looked
  <2>2. /\ DOMAIN job' = DOMAIN job /\ job'.done = job.done /\ job'.at = job.at
        /\ job'.claim = mine /\ job'.record = (Kind \in Managers => mine)
    BY <2>1
  <2>3. job'.record \in BOOLEAN
    BY <2>2
  <2>4. pc = "try" /\ pc' = "perform" /\ UNCHANGED <<tool, copy, receipt, present>>
    BY <1>3 DEF Look, machine
  <2> QED
    BY <2>1, <2>2, <2>3, <2>4
<1>4. CASE Perform
  BY <1>4 DEF Perform, machine, Placed
<1>5. CASE PerformFails
  BY <1>5 DEF PerformFails, machine, Fails, NextRung
<1>6. CASE NodeCheckFails
  BY <1>6 DEF NodeCheckFails, machine, Placed
<1>7. CASE ChecksumMismatch
  BY <1>7 DEF ChecksumMismatch, machine, Ends
<1>8. CASE SmokePasses
  BY <1>8 DEF SmokePasses, machine
<1>9. CASE SmokeFails
  BY <1>9 DEF SmokeFails, machine, NextRung
<1>10. CASE UpdateStart
  BY <1>10 DEF UpdateStart, machine, NoJob
<1>11. CASE Update
  BY <1>11 DEF Update, machine, Placed
<1>12. CASE UpdateFails
  BY <1>12 DEF UpdateFails, machine, Ends
<1>13. CASE NotRecorded
  BY <1>13 DEF NotRecorded, machine, AfterRecord, Succeeded
<1>14. CASE Record
  <2>1. Kind \in MethodKinds
    BY <1>14 DEF Record
  <2>2. (IF receipt = None THEN None ELSE receipt.hooks) \in {None} \cup SUBSET Hosts
    BY DEF Receipts
  <2>3. receipt' \in Receipts
    BY <1>14, <2>1, <2>2, ReceiptMade DEF Record
  <2>4. DOMAIN job' = DOMAIN job /\ job'.done = job.done /\ job'.claim = job.claim /\ job'.record = job.record
    BY <1>14 DEF Record, Succeeded
  <2>5. pc' \in {"hooks", "done"} /\ UNCHANGED <<tool, copy, present>>
    BY <1>14 DEF Record, AfterRecord, machine
  <2> QED
    BY <2>3, <2>4, <2>5
<1>15. CASE RecordFails
  <2>1. receipt' \in {receipt, None} /\ UNCHANGED <<tool, copy, present>>
    BY <1>15 DEF RecordFails, machine
  <2>2. job' = [[job EXCEPT !.outcome = "installed"] EXCEPT !.left = job.left \cup {Kind}]
    BY <1>15 DEF RecordFails, Succeeded
  <2>3. /\ DOMAIN job' = DOMAIN job /\ job'.done = job.done /\ job'.claim = job.claim
        /\ job'.record = job.record
    BY <2>2
  <2>4. pc' \in {"hooks", "done"}
    BY <1>15 DEF RecordFails, AfterRecord
  <2> QED
    BY <2>1, <2>3, <2>4
<1>16. CASE Resync
  BY <1>16 DEF Resync, machine, NoJob
<1>17. CASE NoReceipt
  BY <1>17 DEF NoReceipt, machine
<1>18. CASE Register
  BY <1>18 DEF Register, machine
<1>19. CASE RecordHooks
  <2>1. Recorded \cup job.done \in SUBSET Hosts
    BY DEF Recorded, Receipts
  <2>2. receipt' \in Receipts
    BY <1>19, <2>1, ReceiptNoted DEF RecordHooks, HooksInv
  <2> QED
    BY <1>19, <2>2 DEF RecordHooks, machine
<1>20. CASE RecordHooksFails
  BY <1>20 DEF RecordHooksFails, machine
<1>21. CASE Return
  BY <1>21 DEF Return, machine, NoJob
<1>22. CASE Kill
  BY <1>22 DEF Kill, machine, NoJob
<1>23. CASE ByHand
  BY <1>23 DEF ByHand, machine
<1>24. CASE HostComesOrGoes
  BY <1>24 DEF HostComesOrGoes, machine
<1>25. CASE UNCHANGED vars
  BY <1>25 DEF vars, machine
<1> QED
  BY <1>1, <1>2, <1>3, <1>4, <1>5, <1>6, <1>7, <1>8, <1>9, <1>10, <1>11, <1>12, <1>13, <1>14, <1>15,
     <1>16, <1>17, <1>18, <1>19, <1>20, <1>21, <1>22, <1>23, <1>24, <1>25 DEF Next

-----------------------------------------------------------------------------
(***************************************************************************)
(* What the listing said holds until the user's turn comes again.          *)
(***************************************************************************)
LEMMA TakenStep == Shapes /\ TakenInv /\ [Next]_vars => TakenInv'
<1> SUFFICES ASSUME Shapes, TakenInv, [Next]_vars PROVE TakenInv'
  OBVIOUS
<1> USE EngineAssumption DEF EngineAssumption, Shapes, OnRung, Kinds, Kind, TakenInv
<1>1. CASE InstallStart
  BY <1>1 DEF InstallStart, machine, NoJob
<1>2. CASE HandOff
  BY <1>2 DEF HandOff, machine, Ends
<1>3. CASE Look
  <2>1. PICK taken, mine :
          /\ mine \in BOOLEAN
          /\ job' = [job EXCEPT !.taken = taken, !.claim = mine, !.record = Kind \in Managers => mine]
          /\ taken # None => \A k \in (Kinds \cap Managers) \ taken : copy[k] # "user"
          /\ Kind \in Managers /\ mine => Proven(Kind) \/ copy[Kind] # "user"
          /\ Kind = "script" /\ mine => Proven(Kind) \/ copy[Kind] # "user"
    BY <1>3, Looked
  <2>2. job'.taken = taken
    BY <2>1
  <2>3. pc' = "perform" /\ UNCHANGED <<tool, copy>>
    BY <1>3 DEF Look, machine
  <2> QED
    BY <2>1, <2>2, <2>3
<1>4. CASE Perform
  BY <1>4 DEF Perform, machine, Placed
<1>5. CASE PerformFails
  BY <1>5 DEF PerformFails, machine, Fails, NextRung
<1>6. CASE NodeCheckFails
  BY <1>6 DEF NodeCheckFails, machine, Placed
<1>7. CASE ChecksumMismatch
  BY <1>7 DEF ChecksumMismatch, machine, Ends
<1>8. CASE SmokePasses
  BY <1>8 DEF SmokePasses, machine
<1>9. CASE SmokeFails
  BY <1>9 DEF SmokeFails, machine, NextRung
<1>10. CASE UpdateStart
  BY <1>10 DEF UpdateStart, machine, NoJob
<1>11. CASE Update
  BY <1>11 DEF Update, machine, Placed
<1>12. CASE UpdateFails
  BY <1>12 DEF UpdateFails, machine, Ends
<1>13. CASE NotRecorded
  BY <1>13 DEF NotRecorded, machine, AfterRecord, Succeeded
<1>14. CASE Record
  BY <1>14 DEF Record, machine, AfterRecord, Succeeded
<1>15. CASE RecordFails
  BY <1>15 DEF RecordFails, machine, AfterRecord, Succeeded
<1>16. CASE Resync
  BY <1>16 DEF Resync, machine, NoJob
<1>17. CASE NoReceipt
  BY <1>17 DEF NoReceipt, machine
<1>18. CASE Register
  BY <1>18 DEF Register, machine
<1>19. CASE RecordHooks
  BY <1>19 DEF RecordHooks, machine
<1>20. CASE RecordHooksFails
  BY <1>20 DEF RecordHooksFails, machine
<1>21. CASE Return
  BY <1>21 DEF Return, machine, NoJob
<1>22. CASE Kill
  BY <1>22 DEF Kill, machine, NoJob
<1>23. CASE ByHand
  <2>1. job.taken = None
    BY <1>23 DEF ByHand
  <2> QED
    BY <1>23, <2>1 DEF ByHand
<1>24. CASE HostComesOrGoes
  BY <1>24 DEF HostComesOrGoes, machine
<1>25. CASE UNCHANGED vars
  BY <1>25 DEF vars, machine
<1> QED
  BY <1>1, <1>2, <1>3, <1>4, <1>5, <1>6, <1>7, <1>8, <1>9, <1>10, <1>11, <1>12, <1>13, <1>14, <1>15,
     <1>16, <1>17, <1>18, <1>19, <1>20, <1>21, <1>22, <1>23, <1>24, <1>25 DEF Next

-----------------------------------------------------------------------------
(***************************************************************************)
(* The hosts a hook is registered with.                                    *)
(***************************************************************************)
LEMMA HooksStep == Shapes /\ HooksInv /\ [Next]_vars => HooksInv'
<1> SUFFICES ASSUME Shapes, HooksInv, [Next]_vars PROVE HooksInv'
  OBVIOUS
<1> USE EngineAssumption DEF EngineAssumption, HooksInv, Recorded
<1>1. CASE InstallStart
  BY <1>1 DEF InstallStart, machine, NoJob
<1>2. CASE HandOff
  BY <1>2 DEF HandOff, machine, Ends
<1>3. CASE Look
  BY <1>3 DEF Look, machine
<1>4. CASE Perform
  BY <1>4 DEF Perform, machine, Placed
<1>5. CASE PerformFails
  BY <1>5 DEF PerformFails, machine, Fails, NextRung
<1>6. CASE NodeCheckFails
  BY <1>6 DEF NodeCheckFails, machine, Placed
<1>7. CASE ChecksumMismatch
  BY <1>7 DEF ChecksumMismatch, machine, Ends
<1>8. CASE SmokePasses
  BY <1>8 DEF SmokePasses, machine
<1>9. CASE SmokeFails
  BY <1>9 DEF SmokeFails, machine, NextRung
<1>10. CASE UpdateStart
  BY <1>10 DEF UpdateStart, machine, NoJob
<1>11. CASE Update
  BY <1>11 DEF Update, machine, Placed
<1>12. CASE UpdateFails
  BY <1>12 DEF UpdateFails, machine, Ends
<1>13. CASE NotRecorded
  BY <1>13 DEF NotRecorded, machine, AfterRecord, Succeeded
<1>14. CASE Record
  <2>1. Kind \in MethodKinds
    BY <1>14 DEF Record, Shapes, OnRung, Kind
  <2>2. (IF receipt = None THEN None ELSE receipt.hooks) \in {None} \cup SUBSET Hosts
    BY DEF Receipts, Shapes
  <2>3. receipt' \in Receipts
    BY <1>14, <2>1, <2>2, ReceiptMade DEF Record, Shapes
  <2>4. receipt'.hooks = IF receipt = None THEN None ELSE receipt.hooks
    BY <1>14 DEF Record
  <2>5. pc' \in {"hooks", "done"} /\ pc # "note" /\ UNCHANGED <<registered, excused>>
    BY <1>14 DEF Record, AfterRecord, machine
  <2>6. Recorded' = Recorded
    BY <2>3, <2>4
  <2> QED
    BY <2>5, <2>6
<1>15. CASE RecordFails
  BY <1>15 DEF RecordFails, machine, AfterRecord, Succeeded
<1>16. CASE Resync
  BY <1>16 DEF Resync, machine, NoJob
<1>17. CASE NoReceipt
  BY <1>17 DEF NoReceipt, machine
<1>18. CASE Register
  BY <1>18 DEF Register, machine
<1>19. CASE RecordHooks
  <2>1. receipt \in Receipts /\ Recorded \cup job.done \in SUBSET Hosts
    BY <1>19 DEF RecordHooks, Receipts, Shapes
  <2>2. receipt' \in Receipts /\ receipt'.hooks = Recorded \cup job.done
    BY <1>19, <2>1, ReceiptNoted DEF RecordHooks
  <2>3. receipt' # None /\ receipt'.hooks # None
    BY <2>1, <2>2
  <2>4. Recorded' = Recorded \cup job.done
    BY <2>2, <2>3
  <2>5. pc = "note" /\ pc' = "done" /\ UNCHANGED <<registered, excused>>
    BY <1>19 DEF RecordHooks, machine
  <2> QED
    BY <2>4, <2>5
<1>20. CASE RecordHooksFails
  BY <1>20 DEF RecordHooksFails, machine
<1>21. CASE Return
  BY <1>21 DEF Return, machine, NoJob
<1>22. CASE Kill
  BY <1>22 DEF Kill, machine, NoJob
<1>23. CASE ByHand
  BY <1>23 DEF ByHand, machine
<1>24. CASE HostComesOrGoes
  BY <1>24 DEF HostComesOrGoes, machine
<1>25. CASE UNCHANGED vars
  BY <1>25 DEF vars, machine
<1> QED
  BY <1>1, <1>2, <1>3, <1>4, <1>5, <1>6, <1>7, <1>8, <1>9, <1>10, <1>11, <1>12, <1>13, <1>14, <1>15,
     <1>16, <1>17, <1>18, <1>19, <1>20, <1>21, <1>22, <1>23, <1>24, <1>25 DEF Next

-----------------------------------------------------------------------------
(***************************************************************************)
(* What a claim rests on.                                                  *)
(***************************************************************************)
LEMMA ClaimStep == Shapes /\ TakenInv /\ HooksInv /\ ClaimInv /\ [Next]_vars => ClaimInv'
<1> SUFFICES ASSUME Shapes, TakenInv, HooksInv, ClaimInv, [Next]_vars PROVE ClaimInv'
  OBVIOUS
<1> USE EngineAssumption DEF EngineAssumption, Shapes, OnRung, Kinds, Kind, ClaimInv, Proven
<1>1. CASE InstallStart
  BY <1>1 DEF InstallStart, machine, NoJob
<1>2. CASE HandOff
  BY <1>2 DEF HandOff, machine, Ends
<1>3. CASE Look
  <2>1. PICK taken, mine :
          /\ mine \in BOOLEAN
          /\ job' = [job EXCEPT !.taken = taken, !.claim = mine, !.record = Kind \in Managers => mine]
          /\ taken # None => \A k \in (Kinds \cap Managers) \ taken : copy[k] # "user"
          /\ Kind \in Managers /\ mine => Proven(Kind) \/ copy[Kind] # "user"
          /\ Kind = "script" /\ mine => Proven(Kind) \/ copy[Kind] # "user"
    BY <1>3, Looked
  <2>2. /\ job'.at = job.at /\ job'.claim = mine
        /\ job'.record = (Kind \in Managers => mine)
    BY <2>1
  <2>3. /\ pc = "try" /\ Kind # "native" /\ pc' = "perform"
        /\ UNCHANGED <<tool, copy, receipt>>
    BY <1>3 DEF Look, machine
  <2>4. Kind \in MethodKinds
    BY <2>3
  <2> QED
    BY <2>1, <2>2, <2>3, <2>4 DEF MethodKinds
<1>4. CASE Perform
  <2>1. Kind \in Kinds
    BY <1>4 DEF Perform
  <2>2. copy'[Kind] = IF Kind \in Downloads \/ copy[Kind] = "none" THEN "ours" ELSE copy[Kind]
    BY <1>4, <2>1 DEF Perform, Placed
  <2>3. /\ pc = "perform" /\ pc' \in {"smoke", "record"} /\ UNCHANGED <<tool, receipt>>
        /\ job'.at = job.at /\ job'.claim = job.claim /\ job'.record = job.record
    BY <1>4 DEF Perform
  <2> QED
    BY <2>1, <2>2, <2>3
<1>5. CASE PerformFails
  BY <1>5 DEF PerformFails, machine, Fails, NextRung
<1>6. CASE NodeCheckFails
  BY <1>6 DEF NodeCheckFails, machine, Placed
<1>7. CASE ChecksumMismatch
  BY <1>7 DEF ChecksumMismatch, machine, Ends
<1>8. CASE SmokePasses
  BY <1>8 DEF SmokePasses, machine
<1>9. CASE SmokeFails
  BY <1>9 DEF SmokeFails, machine, NextRung
<1>10. CASE UpdateStart
  <2>1. PICK n \in 1..Len(tool.ladder) :
          LET kind == tool.ladder[n] IN
          /\ kind # "native" /\ copy[kind] # "none"
          /\ job' = [NoJob EXCEPT !.act = "update", !.at = n,
                       !.record = kind \in Managers => receipt # None /\ receipt.kind = kind,
                       !.claim = kind = "script" => Proven(kind)]
    BY <1>10 DEF UpdateStart
  <2> DEFINE kind == tool.ladder[n]
  <2>2. /\ job'.at = n /\ job'.claim = (kind = "script" => Proven(kind))
        /\ job'.record = (kind \in Managers => receipt # None /\ receipt.kind = kind)
    BY <2>1 DEF NoJob
  <2>3. pc' = "perform" /\ UNCHANGED <<tool, copy, receipt>>
    BY <1>10 DEF UpdateStart, machine
  <2>4. kind \in MethodKinds /\ kind # "native"
    BY <2>1
  <2>5. Kind' = kind /\ Proven(kind)' = Proven(kind)
    BY <2>2, <2>3
  <2>6. kind \in Managers /\ job'.record => job'.claim /\ Proven(kind)
    BY <2>2 DEF Managers
  <2>7. kind = "script" /\ job'.claim => Proven(kind)
    BY <2>2
  <2> HIDE DEF kind
  <2> QED
    BY <2>3, <2>4, <2>5, <2>6, <2>7 DEF MethodKinds
<1>11. CASE Update
  <2>1. Kind \in Kinds
    BY <1>11 DEF Update
  <2>2. copy'[Kind] = IF Kind \in Downloads \/ copy[Kind] = "none" THEN "ours" ELSE copy[Kind]
    BY <1>11, <2>1 DEF Update, Placed
  <2>3. /\ pc = "perform" /\ pc' \in {"smoke", "record"} /\ UNCHANGED <<tool, receipt>>
        /\ job'.at = job.at /\ job'.claim = job.claim /\ job'.record = job.record
    BY <1>11 DEF Update
  <2> QED
    BY <2>1, <2>2, <2>3
<1>12. CASE UpdateFails
  BY <1>12 DEF UpdateFails, machine, Ends
<1>13. CASE NotRecorded
  BY <1>13 DEF NotRecorded, machine, AfterRecord, Succeeded
<1>14. CASE Record
  <2>1. receipt'.kind = Kind /\ receipt'.claim = job.claim
    BY <1>14 DEF Record
  <2>2. pc = "record" /\ job.record /\ pc' \in {"hooks", "done"}
    BY <1>14 DEF Record, AfterRecord
  <2> QED
    BY <2>1, <2>2
<1>15. CASE RecordFails
  BY <1>15 DEF RecordFails, machine, AfterRecord, Succeeded
<1>16. CASE Resync
  BY <1>16 DEF Resync, machine, NoJob
<1>17. CASE NoReceipt
  BY <1>17 DEF NoReceipt, machine
<1>18. CASE Register
  BY <1>18 DEF Register, machine
<1>19. CASE RecordHooks
  <2>1. receipt \in Receipts /\ Recorded \cup job.done \in SUBSET Hosts
    BY <1>19 DEF RecordHooks, Recorded, Receipts, HooksInv
  <2>2. receipt'.kind = receipt.kind /\ receipt'.claim = receipt.claim
    BY <1>19, <2>1, ReceiptNoted DEF RecordHooks
  <2>3. receipt # None /\ pc' = "done"
    BY <1>19 DEF RecordHooks, HooksInv
  <2> QED
    BY <2>2, <2>3
<1>20. CASE RecordHooksFails
  BY <1>20 DEF RecordHooksFails, machine
<1>21. CASE Return
  BY <1>21 DEF Return, machine, NoJob
<1>22. CASE Kill
  BY <1>22 DEF Kill, machine, NoJob
<1>23. CASE ByHand
  BY <1>23 DEF ByHand, machine
<1>24. CASE HostComesOrGoes
  BY <1>24 DEF HostComesOrGoes, machine
<1>25. CASE UNCHANGED vars
  BY <1>25 DEF vars, machine
<1> QED
  BY <1>1, <1>2, <1>3, <1>4, <1>5, <1>6, <1>7, <1>8, <1>9, <1>10, <1>11, <1>12, <1>13, <1>14, <1>15,
     <1>16, <1>17, <1>18, <1>19, <1>20, <1>21, <1>22, <1>23, <1>24, <1>25 DEF Next

-----------------------------------------------------------------------------
(***************************************************************************)
(* What a job leaves on the machine.                                       *)
(***************************************************************************)
LEMMA LeftStep == Shapes /\ ClaimInv /\ LeftInv /\ [Next]_vars => LeftInv'
<1> SUFFICES ASSUME Shapes, ClaimInv, LeftInv, [Next]_vars PROVE LeftInv'
  OBVIOUS
<1> USE EngineAssumption DEF EngineAssumption, LeftInv, Kind
<1>1. CASE InstallStart
  BY <1>1 DEF InstallStart, machine, NoJob
<1>2. CASE HandOff
  <2>1. pc = "try" /\ pc' = "done" /\ job'.brought = job.brought /\ job'.left = job.left
    BY <1>2 DEF HandOff, Ends, Shapes
  <2>2. job'.outcome \in {"failed", "manual"}
    BY <1>2 DEF HandOff, Ends, Shapes
  <2> QED
    BY <2>1, <2>2 DEF Reported
<1>3. CASE Look
  <2>1. UNCHANGED <<tool>> /\ pc = "try" /\ pc' = "perform"
    BY <1>3 DEF Look
  <2>2. job'.brought = job.brought /\ job'.left = job.left /\ job'.at = job.at
    BY <1>3 DEF Look, Shapes
  <2> QED
    BY <2>1, <2>2
<1>4. CASE Perform
  <2>1. /\ pc = "perform" /\ UNCHANGED tool
        /\ pc' = IF Kind \in Downloads THEN "record" ELSE "smoke"
    BY <1>4 DEF Perform
  <2>2. /\ job'.brought \subseteq job.brought \cup {Kind} /\ job'.left = job.left
        /\ job'.at = job.at
    BY <1>4 DEF Perform, Shapes
  <2>3. job.at \in 1..Len(tool.ladder) /\ Kind # "native" /\ Kind \in MethodKinds
    BY <2>1 DEF Shapes, OnRung, ClaimInv
  <2> QED
    BY <2>1, <2>2, <2>3 DEF MethodKinds
<1>5. CASE PerformFails
  <2>1. /\ pc = "perform" /\ UNCHANGED tool
        /\ pc' = IF job.at < Len(tool.ladder) THEN "try" ELSE "done"
    BY <1>5 DEF PerformFails, NextRung, machine
  <2>2. /\ job'.brought = job.brought /\ job'.left = job.left
        /\ job'.at = IF job.at < Len(tool.ladder) THEN job.at + 1 ELSE job.at
        /\ job'.outcome = IF job.at < Len(tool.ladder) THEN None ELSE "failed"
    BY <1>5 DEF PerformFails, Fails, Shapes
  <2>3. job.at \in 1..Len(tool.ladder) /\ Len(tool.ladder) \in Nat
    BY <2>1 DEF Shapes, OnRung
  <2> QED
    BY <2>1, <2>2, <2>3 DEF Reported
<1>6. CASE NodeCheckFails
  <2>1. pc = "perform" /\ pc' = "done" /\ UNCHANGED tool
    BY <1>6 DEF NodeCheckFails
  <2>2. /\ job'.brought \subseteq job.brought \cup {Kind} /\ job'.left = job.left
        /\ job'.errs = job.errs \cup {Kind} /\ job'.outcome = "failed"
    BY <1>6 DEF NodeCheckFails, Shapes
  <2> QED
    BY <2>1, <2>2 DEF Reported
<1>7. CASE ChecksumMismatch
  <2>1. pc = "perform" /\ pc' = "done" /\ Kind \in Downloads /\ UNCHANGED tool
    BY <1>7 DEF ChecksumMismatch, Ends
  <2>2. job'.brought = job.brought
    BY <1>7 DEF ChecksumMismatch, Ends, Shapes
  <2>3. job.at \in 1..Len(tool.ladder) /\ tool \in Tools
    BY <2>1 DEF Shapes, OnRung
  <2>4. job.brought = {}
    BY <2>1, <2>3, DownloadsComeFirst
  <2> QED
    BY <2>1, <2>2, <2>4
<1>8. CASE SmokePasses
  BY <1>8 DEF SmokePasses, machine
<1>9. CASE SmokeFails
  <2>1. /\ pc = "smoke" /\ UNCHANGED tool
        /\ pc' = IF job.at < Len(tool.ladder) THEN "try" ELSE "done"
    BY <1>9 DEF SmokeFails, NextRung, machine
  <2>2. /\ job'.brought = job.brought /\ job'.left = job.left \cup {Kind}
        /\ job'.at = IF job.at < Len(tool.ladder) THEN job.at + 1 ELSE job.at
        /\ job'.outcome = IF job.at < Len(tool.ladder) THEN None ELSE "failed"
    BY <1>9 DEF SmokeFails, Shapes
  <2>3. job.at \in 1..Len(tool.ladder) /\ Len(tool.ladder) \in Nat
    BY <2>1 DEF Shapes, OnRung
  <2> QED
    BY <2>1, <2>2, <2>3 DEF Reported
<1>10. CASE UpdateStart
  <2>1. job'.brought = {} /\ pc' = "perform"
    BY <1>10 DEF UpdateStart, NoJob
  <2> QED
    BY <2>1
<1>11. CASE Update
  BY <1>11 DEF Update, machine
<1>12. CASE UpdateFails
  <2>1. pc = "perform" /\ pc' = "done"
    BY <1>12 DEF UpdateFails, Ends
  <2>2. job'.brought = job.brought /\ job'.left = job.left /\ job'.outcome = "failed"
    BY <1>12 DEF UpdateFails, Ends, Shapes
  <2> QED
    BY <2>1, <2>2 DEF Reported
<1>13. CASE NotRecorded \/ Record
  <2>1. pc = "record" /\ pc' \in {"hooks", "done"} /\ UNCHANGED tool
    BY <1>13 DEF NotRecorded, Record, AfterRecord
  <2>2. /\ job'.brought = job.brought /\ job'.left = job.left /\ job'.at = job.at
        /\ job'.outcome = "installed"
    BY <1>13 DEF NotRecorded, Record, Succeeded, Shapes
  <2> QED
    BY <2>1, <2>2 DEF Reported
<1>14. CASE RecordFails
  <2>1. pc = "record" /\ pc' \in {"hooks", "done"} /\ UNCHANGED tool
    BY <1>14 DEF RecordFails, AfterRecord, machine
  <2>2. job' = [[job EXCEPT !.outcome = "installed"] EXCEPT !.left = job.left \cup {Kind}]
    BY <1>14 DEF RecordFails, Succeeded
  <2>3. /\ job'.brought = job.brought /\ job.left \subseteq job'.left /\ job'.at = job.at
        /\ job'.outcome = "installed"
    BY <2>2 DEF Shapes
  <2> QED
    BY <2>1, <2>3 DEF Reported
<1>15. CASE Resync
  <2>1. job'.brought = {} /\ pc' = "hooks"
    BY <1>15 DEF Resync, NoJob
  <2> QED
    BY <2>1
<1>16. CASE NoReceipt \/ RecordHooks \/ RecordHooksFails
  <2>1. UNCHANGED <<tool, job>> /\ pc \in {"hooks", "note"} /\ pc' = "done"
    BY <1>16 DEF NoReceipt, RecordHooks, RecordHooksFails, machine
  <2> QED
    BY <2>1 DEF Reported
<1>17. CASE Register
  <2>1. UNCHANGED tool /\ pc = "hooks" /\ pc' \in {"note", "done"}
    BY <1>17 DEF Register
  <2>2. /\ job'.brought = job.brought /\ job'.left = job.left /\ job'.at = job.at
        /\ job'.outcome = job.outcome /\ job'.errs = job.errs
    BY <1>17 DEF Register, Shapes
  <2> QED
    BY <2>1, <2>2 DEF Reported
<1>18. CASE Return \/ Kill
  BY <1>18 DEF Return, Kill, NoJob
<1>19. CASE ByHand \/ HostComesOrGoes
  BY <1>19 DEF ByHand, HostComesOrGoes
<1>20. CASE UNCHANGED vars
  BY <1>20 DEF vars, Reported
<1> QED
  BY <1>1, <1>2, <1>3, <1>4, <1>5, <1>6, <1>7, <1>8, <1>9, <1>10, <1>11, <1>12, <1>13, <1>14, <1>15,
     <1>16, <1>17, <1>18, <1>19, <1>20 DEF Next

-----------------------------------------------------------------------------
(***************************************************************************)
(* The invariant, and what follows from it.                                *)
(***************************************************************************)
LEMMA Invariance == Spec => []IInv
<1>1. Init => IInv
  BY InitInv
<1>2. IInv /\ [Next]_vars => IInv'
  BY ShapesStep, TakenStep, ClaimStep, HooksStep, LeftStep DEF IInv
<1> QED
  BY <1>1, <1>2, PTL DEF Spec

\* A step that changes the receipt records a run's claim, notes hooks or takes it away.
LEMMA ReceiptSteps ==
  ASSUME [Next]_vars, receipt' # receipt
  PROVE  Record \/ RecordFails \/ RecordHooks
<1> USE DEF machine
<1>1. CASE InstallStart \/ HandOff \/ Look \/ Perform \/ PerformFails \/ NodeCheckFails
  BY <1>1 DEF InstallStart, HandOff, Look, Perform, PerformFails, NodeCheckFails
<1>2. CASE ChecksumMismatch \/ SmokePasses \/ SmokeFails \/ UpdateStart \/ Update \/ UpdateFails
  BY <1>2 DEF ChecksumMismatch, SmokePasses, SmokeFails, UpdateStart, Update, UpdateFails
<1>3. CASE NotRecorded \/ Resync \/ NoReceipt \/ Register \/ RecordHooksFails \/ Return \/ Kill
  BY <1>3 DEF NotRecorded, Resync, NoReceipt, Register, RecordHooksFails, Return, Kill
<1>4. CASE ByHand \/ HostComesOrGoes
  BY <1>4 DEF ByHand, HostComesOrGoes
<1>5. CASE UNCHANGED vars
  BY <1>5 DEF vars
<1> QED
  BY <1>1, <1>2, <1>3, <1>4, <1>5 DEF Next

\* A step writes no claim but on a copy of ours.
LEMMA ClaimedStep ==
  ASSUME IInv, [Next]_vars, receipt' # receipt, receipt' # None, receipt'.claim,
         ~Proven(receipt'.kind)
  PROVE  copy[receipt'.kind] = "ours"
<1>1. CASE Record
  <2>1. pc = "record" /\ job.record /\ receipt'.kind = Kind /\ receipt'.claim = job.claim
    BY <1>1 DEF Record
  <2> QED
    BY <2>1 DEF IInv, ClaimInv
<1>2. CASE RecordFails
  BY <1>2 DEF RecordFails
<1>3. CASE RecordHooks
  <2>1. receipt \in Receipts /\ receipt # None /\ Recorded \cup job.done \in SUBSET Hosts
    BY <1>3, EngineAssumption
    DEF EngineAssumption, RecordHooks, Recorded, Receipts, IInv, Shapes, HooksInv
  <2>2. receipt'.kind = receipt.kind /\ receipt'.claim = receipt.claim
    BY <1>3, <2>1, ReceiptNoted DEF RecordHooks
  <2> QED
    BY <2>1, <2>2 DEF Proven
<1> QED
  BY <1>1, <1>2, <1>3, ReceiptSteps

(***************************************************************************)
(* Whatever fails, whoever installs by hand in between, a receipt never    *)
(* comes to claim a copy that somebody else put there (engine.py: "A       *)
(* package the manager already had is not this install's to claim").       *)
(***************************************************************************)
THEOREM ClaimsAlwaysOurs == Spec => ClaimsAreOurs
<1>1. IInv /\ [Next]_vars =>
        [receipt' # receipt /\ receipt' # None /\ receipt'.claim /\ ~Proven(receipt'.kind)
           => copy[receipt'.kind] = "ours"]_vars
  BY ClaimedStep
<1> QED
  BY <1>1, Invariance, PTL DEF Spec, ClaimsAreOurs

LEMMA Accounted == IInv => NothingIsUnaccounted
  BY DEF IInv, HooksInv, LeftInv, HooksAreAccounted, LeftoversAreNamed, NothingIsUnaccounted

(***************************************************************************)
(* Nothing a job put on the machine, and no hook it registered, goes       *)
(* without a name: a leftover of a failed method is in the outcome, and a  *)
(* registration in the receipt, unless the user was told or a kill cut it  *)
(* off (install_tool: "the package stays installed and is reported with    *)
(* its removal command"; receipts.record_hooks: "a registration nothing    *)
(* records could never be undone").                                        *)
(***************************************************************************)
THEOREM NothingGoesUnaccounted == Spec => []NothingIsUnaccounted
  BY Accounted, Invariance, PTL

-----------------------------------------------------------------------------
\* The fields of the two records, and what the argument needs of their types.
RunnerShapes ==
  /\ DOMAIN call = {"kind", "wrapped", "bounded", "accepts", "at", "raised", "code", "says"}
  /\ DOMAIN proc = {"state", "code", "pipe", "left", "heir", "reader", "started", "cut"}
  /\ proc.state \in {"none", "running", "zombie", "reaped"} /\ proc.started \in Nat
  /\ proc.pipe \in Seq({"line", "bad"})

(***************************************************************************)
(* The child there is at each point of a call.  A child that is still      *)
(* running has a reader until the call has ended, and after that only the  *)
(* drain that raised leaves one behind.                                    *)
(***************************************************************************)
ChildInv ==
  /\ R!At("idle") \/ R!At("launch") =>
       proc.state = "none" /\ proc.started = 0 /\ proc.reader /\ call.raised = None
  /\ proc.started <= 1
  /\ R!At("read") \/ R!At("drain") => proc.state # "none"
  /\ R!At("wait") \/ R!At("reap") => proc.state \in {"zombie", "reaped"}
  /\ proc.state = "running" /\ ~R!At("ended") => proc.reader
  /\ R!At("ended") /\ ~R!DrainEscapes => proc.state \in {"none", "reaped"}
  /\ proc.cut => R!At("ended") /\ R!DrainEscapes
  /\ proc.state = "reaped" => ~R!At("read") /\ ~R!At("wait")

\* The exit code the call reports is the one of the child it waited for.
CodeInv ==
  /\ (R!At("drain") \/ R!At("reap")) /\ call.raised = None =>
       proc.state = "reaped" /\ call.code = proc.code
  /\ R!At("ended") /\ call.says = "ok" =>
       proc.state = "reaped" /\ proc.code \in call.accepts /\ call.raised = None
  /\ R!At("wait") => call.raised = None
  /\ R!At("read") /\ call.kind = "stream" => call.raised = None

RunnerInv == RunnerShapes /\ ChildInv /\ CodeInv

-----------------------------------------------------------------------------
LEMMA RunnerStart == R!RunnerInit => RunnerInv
  BY DEF R!RunnerInit, R!Idle, R!Unborn, RunnerInv, RunnerShapes, ChildInv, CodeInv, R!At, R!DrainEscapes

LEMMA RunnerStep == RunnerInv /\ [R!RunnerNext]_runnerVars => RunnerInv'
<1> SUFFICES ASSUME RunnerInv, [R!RunnerNext]_runnerVars PROVE RunnerInv'
  OBVIOUS
<1> USE DEF RunnerInv, RunnerShapes, ChildInv, CodeInv, R!At, R!DrainEscapes
<1>1. CASE R!Call
  BY <1>1 DEF R!Call
<1>2. CASE R!Starts
  <2>1. /\ call.at = "launch" /\ call' = [call EXCEPT !.at = "read"]
        /\ proc' = [[proc EXCEPT !.state = "running"] EXCEPT !.started = proc.started + 1]
    BY <1>2 DEF R!Starts
  <2>2. /\ proc'.state = "running" /\ proc'.started = 1 /\ proc'.reader = proc.reader
        /\ proc'.cut = proc.cut /\ proc'.pipe = proc.pipe /\ DOMAIN proc' = DOMAIN proc
    BY <2>1
  <2>3. call'.at = "read" /\ call'.raised = call.raised /\ call'.kind = call.kind /\ DOMAIN call' = DOMAIN call
    BY <2>1
  <2> QED
    BY <2>1, <2>2, <2>3
<1>3. CASE R!CannotStart
  BY <1>3 DEF R!CannotStart
<1>4. CASE R!Writes
  BY <1>4 DEF R!Writes, R!Writing
<1>5. CASE R!WritesToNobody
  <2>1. call.at = "ended" /\ call.raised = "drain" /\ call' = call
    BY <1>5 DEF R!WritesToNobody
  <2>2. proc' = [[[proc EXCEPT !.state = "zombie"] EXCEPT !.code = 141] EXCEPT !.cut = TRUE]
    BY <1>5 DEF R!WritesToNobody
  <2>3. /\ proc'.state = "zombie" /\ proc'.started = proc.started /\ proc'.pipe = proc.pipe
        /\ DOMAIN proc' = DOMAIN proc
    BY <2>2
  <2> QED
    BY <2>1, <2>3, <1>5 DEF R!WritesToNobody
<1>6. CASE R!Forks
  BY <1>6 DEF R!Forks
<1>7. CASE R!Exits
  <2>1. PICK code \in {0, 1, 2} : proc' = [[proc EXCEPT !.state = "zombie"] EXCEPT !.code = code]
    BY <1>7 DEF R!Exits
  <2>2. proc.state = "running" /\ call' = call
    BY <1>7 DEF R!Exits
  <2>3. /\ proc'.state = "zombie" /\ proc'.started = proc.started /\ proc'.reader = proc.reader
        /\ proc'.cut = proc.cut /\ proc'.pipe = proc.pipe /\ DOMAIN proc' = DOMAIN proc
    BY <2>1
  <2> QED
    BY <2>2, <2>3
<1>8. CASE R!HeirEnds
  BY <1>8 DEF R!HeirEnds
<1>9. CASE R!StreamsLine
  <2>1. /\ call.at = "read" /\ proc' = [proc EXCEPT !.pipe = Tail(proc.pipe)] /\ proc.pipe # <<>>
        /\ \/ call' = call
           \/ \E exc \in {"emit", "decode"} : call' = [[call EXCEPT !.raised = exc] EXCEPT !.at = "drain"]
    BY <1>9 DEF R!StreamsLine, R!Take, R!Unwind
  <2>2. /\ proc'.state = proc.state /\ proc'.started = proc.started /\ proc'.reader = proc.reader
        /\ proc'.cut = proc.cut /\ proc'.code = proc.code /\ DOMAIN proc' = DOMAIN proc
        /\ proc'.pipe \in Seq({"line", "bad"})
    BY <2>1
  <2>3. CASE call' = call
    BY <2>1, <2>2, <2>3
  <2>4. CASE \E exc \in {"emit", "decode"} : call' = [[call EXCEPT !.raised = exc] EXCEPT !.at = "drain"]
    <3>1. call'.at = "drain" /\ call'.raised \in {"emit", "decode"} /\ DOMAIN call' = DOMAIN call
      BY <2>4
    <3> QED
      BY <2>1, <2>2, <3>1, NoneIsNothing
  <2> QED
    BY <2>1, <2>3, <2>4
<1>10. CASE R!StreamsEof
  BY <1>10 DEF R!StreamsEof, R!Eof, R!Writing
<1>11. CASE R!Waits
  BY <1>11 DEF R!Waits
<1>12. CASE R!Drains
  BY <1>12 DEF R!Drains, R!Take
<1>13. CASE R!DrainsEof
  BY <1>13 DEF R!DrainsEof, R!Eof, R!Writing
<1>14. CASE R!Reaps
  BY <1>14 DEF R!Reaps, R!Said
<1>15. CASE R!Collected
  BY <1>15 DEF R!Collected
<1>16. CASE R!Captures
  BY <1>16 DEF R!Captures, R!Take
<1>17. CASE R!CapturesEof
  BY <1>17 DEF R!CapturesEof, R!Eof, R!Writing, R!Said
<1>18. CASE R!TimesOut
  BY <1>18 DEF R!TimesOut
<1>19. CASE UNCHANGED runnerVars
  BY <1>19 DEF R!runnerVars, runnerVars
<1> QED
  BY <1>1, <1>2, <1>3, <1>4, <1>5, <1>6, <1>7, <1>8, <1>9, <1>10, <1>11, <1>12, <1>13, <1>14, <1>15, <1>16, <1>17, <1>18, <1>19 DEF R!RunnerNext

\* A step of Parts is one of the part that lives, and moves no other.
LEMMA OneLife ==
  ASSUME [PartsNext]_partsVars
  PROVE  /\ life' = life
         /\ life = "engine" => [Next]_vars
         /\ life # "engine" => UNCHANGED vars
         /\ life = "daemon" => [D!Next]_daemonVars
         /\ life = "policies" => [L!Next]_policyVars
         /\ life = "shims" => [S!Next]_shimVars
         /\ life = "runner" => [R!RunnerNext]_runnerVars
  BY DEF PartsNext, Install, Clean, Toggle, Shim, Run, partsVars

\* The life of an installation has its invariant, and the engine sleeps through the others.
LEMMA EngineLives == PartsSpec => [](IF life = "engine" THEN IInv ELSE EngineAsleep)
<1> DEFINE Lives == IF life = "engine" THEN IInv ELSE EngineAsleep
<1>1. PartsInit => Lives
  BY InitInv DEF PartsInit
<1>2. Lives /\ [PartsNext]_partsVars => Lives'
  <2> SUFFICES ASSUME Lives, [PartsNext]_partsVars PROVE Lives'
    OBVIOUS
  <2>1. CASE life = "engine"
    BY <2>1, OneLife, ShapesStep, TakenStep, ClaimStep, HooksStep, LeftStep DEF IInv
  <2>2. CASE life # "engine"
    BY <2>2, OneLife DEF EngineAsleep, vars
  <2> QED
    BY <2>1, <2>2
<1> QED
  BY <1>1, <1>2, PTL DEF PartsSpec

(***************************************************************************)
(* In every life there is, whatever part it is of: a receipt claims only   *)
(* what this installer put on the machine (ClaimsAlwaysOurs).              *)
(***************************************************************************)
THEOREM ClaimsOursInEveryLife == PartsSpec => ClaimsAreOurs
<1>1. /\ IF life = "engine" THEN IInv ELSE EngineAsleep
      /\ [PartsNext]_partsVars
      => [receipt' # receipt /\ receipt' # None /\ receipt'.claim /\ ~Proven(receipt'.kind)
            => copy[receipt'.kind] = "ours"]_vars
  BY OneLife, ClaimedStep
<1> QED
  BY <1>1, EngineLives, PTL DEF PartsSpec, ClaimsAreOurs

(***************************************************************************)
(* And nothing an installation brought or registered goes unaccounted for  *)
(* (NothingGoesUnaccounted).                                               *)
(***************************************************************************)
THEOREM NothingUnaccountedInEveryLife == PartsSpec => []NothingIsUnaccounted
<1>1. EngineAsleep => NothingIsUnaccounted
  BY DEF EngineAsleep, NothingIsUnaccounted, HooksAreAccounted, LeftoversAreNamed
<1>2. (IF life = "engine" THEN IInv ELSE EngineAsleep) => NothingIsUnaccounted
  BY <1>1, Accounted
<1> QED
  BY <1>2, EngineLives, PTL

LEMMA RunnerLives == PartsSpec => [](life = "runner" => RunnerInv)
<1>1. PartsInit => (life = "runner" => RunnerInv)
  BY RunnerStart DEF PartsInit
<1>2. (life = "runner" => RunnerInv) /\ [PartsNext]_partsVars => (life = "runner" => RunnerInv)'
  BY OneLife, RunnerStep
<1> QED
  BY <1>1, <1>2, PTL DEF PartsSpec

(***************************************************************************)
(* No call ends while its child runs, waits for a child that waits for it, *)
(* or reports a success its child did not have, but for the drain that     *)
(* raises (StreamingRunner, run_output and run_query of run.py).           *)
(***************************************************************************)
THEOREM ChildIsAlwaysReaped == PartsSpec => []ChildIsReaped
<1>1. (life = "runner" => RunnerInv) => ChildIsReaped
  BY DEF ChildIsReaped, RunnerInv, RunnerShapes, ChildInv, CodeInv, R!ChildIsReaped, R!Blocked, R!At, R!DrainEscapes
<1> QED
  BY <1>1, RunnerLives, PTL
-----------------------------------------------------------------------------
(***************************************************************************)
(* Shims.                                                                  *)
(***************************************************************************)
Place == [dir : {"bin", "away", "alias"}, name : S!Names]
ShimFile == [kind : {"block", "redirect"}, to : SUBSET Place, old : BOOLEAN]

\* What one shim may run: nothing else of the managed directory, and not itself.
Targeted(name) ==
  CASE name = "npx" -> {"pnpm"} [] name = "npm" -> {"volta"}
    [] name = "pnpm" -> {"volta", "pnpm"} [] OTHER -> {}
MayRun(name, to) ==
  /\ to \in SUBSET Place /\ \A t \in to : t.name \in Targeted(name)
  /\ name = "pnpm" /\ name \notin late => \A t \in to : t.name = "pnpm" => S!Real(t.dir) = "away"

\* The tasks of an application, which looks names up on a path, and of the others.
Tasks(path) ==
  IF path \in S!Paths
    THEN {<<"block", "npm">>, <<"block", "pip">>, <<"block", "npx">>, <<"redirect", "npx">>,
          <<"volta", "volta">>, <<"global", "npm">>, <<"global", "pnpm">>}
    ELSE {<<"renew", "npx">>, <<"remove", "npm">>, <<"remove", "pip">>, <<"remove", "npx">>,
          <<"remove", "pnpm">>}

ShimShapes ==
  /\ files \in [S!Dirs -> [S!Names -> {None, S!Foreign} \cup ShimFile]]
  /\ late \subseteq S!Names /\ step \in {"idle", "check", "resolve", "write", "unlink"}
  /\ edits \in Nat
  /\ DOMAIN applying = {"op", "path", "todo", "found", "volta", "since"}
  /\ applying.path \in S!Paths \cup {<<>>} /\ applying.todo \in Seq(Tasks(applying.path))
  /\ applying.volta = None \/ applying.volta \in [dir : {"bin", "away", "alias"}, name : {"volta"}]
  /\ applying.since \in Nat

\* Only the managed directory has shims, and each runs what it may.
FilesInv ==
  /\ \A name \in S!Names : files["away"][name] \in {None, S!Foreign}
  /\ files["bin"]["volta"] \in {None, S!Foreign}
  /\ \A name \in S!Names : S!IsOurShim(files["bin"][name]) => MayRun(name, files["bin"][name].to)

\* What was checked is still so, unless the user put a tool there.
CheckedInv ==
  step \in {"resolve", "write", "unlink"} =>
    /\ applying.todo # <<>> /\ S!Name # "volta"
    /\ S!Here = None \/ S!IsOurShim(S!Here) \/ S!Name \in late
    /\ step = "resolve" => S!Task \in {"block", "redirect", "global"}
    /\ step = "write" => MayRun(S!Name, applying.found)

ShimInv == ShimShapes /\ FilesInv /\ CheckedInv

-----------------------------------------------------------------------------
LEMMA NoneApart ==
  /\ None \notin Place /\ None \notin ShimFile /\ None # S!Foreign /\ S!Foreign \notin ShimFile
  /\ S!Block \in ShimFile /\ \A to \in SUBSET Place : S!Redirect(to) \in ShimFile
<1>1. S!Foreign \in [kind : {"foreign", "block", "redirect"}, old : BOOLEAN,
                     to : SUBSET [dir : {"bin", "away", "alias"}, name : S!Names]]
  BY DEF S!Foreign
<1>2. ShimFile \subseteq [kind : {"foreign", "block", "redirect"}, old : BOOLEAN,
                     to : SUBSET [dir : {"bin", "away", "alias"}, name : S!Names]]
  BY DEF ShimFile, Place
<1> QED
  BY <1>1, <1>2, NoneIsNothing DEF Place, ShimFile, S!Foreign, S!Block, S!Redirect

\* A file is the user's or a shim, and never both.
LEMMA ForeignOrOurs ==
  ASSUME NEW file \in {None, S!Foreign} \cup ShimFile
  PROVE  /\ S!IsOurShim(file) <=> file \in ShimFile
         /\ S!IsOurShim(file) <=> file \notin {None, S!Foreign}
  BY NoneApart DEF S!IsOurShim, ShimFile, S!Foreign

Entries(path, without) == {i \in DOMAIN path : S!Real(path[i]) \notin without}

\* The first of the entries of a PATH.
LEMMA FirstEntry ==
  ASSUME NEW path \in S!Paths, NEW hits \in SUBSET DOMAIN path, hits # {}
  PROVE  (CHOOSE i \in hits : \A j \in hits : i <= j) \in hits
<1>1. DOMAIN path \in {{1}, {1, 2}}
  BY DEF S!Paths
<1>2. \E i \in hits : \A j \in hits : i <= j
  BY <1>1
<1> QED
  BY <1>2

LEMMA PathEntries ==
  ASSUME NEW path \in S!Paths, NEW i \in DOMAIN path
  PROVE  path[i] \in {"bin", "away", "alias"} /\ S!Real(path[i]) \in S!Dirs
<1>1. path[i] \in {"bin", "away", "alias"}
  BY DEF S!Paths
<1> QED
  BY <1>1 DEF S!Real, S!Dirs

\* shutil.which finds the name exactly when an entry has it, and what it finds is one.
LEMMA WhichFinds ==
  ASSUME NEW path \in S!Paths, NEW name \in S!Names, NEW without
  PROVE  /\ S!Which(name, path, without) = None <=>
              \A i \in Entries(path, without) : files[S!Real(path[i])][name] = None
         /\ S!Which(name, path, without) # None =>
              \E i \in Entries(path, without) :
                /\ S!Which(name, path, without) = [dir |-> path[i], name |-> name]
                /\ files[S!Real(path[i])][name] # None
<1> DEFINE hits == {i \in DOMAIN path : S!Real(path[i]) \notin without /\ files[S!Real(path[i])][name] # None}
           first == CHOOSE i \in hits : \A j \in hits : i <= j
<1>1. S!Which(name, path, without) = IF hits = {} THEN None ELSE [dir |-> path[first], name |-> name]
  BY DEF S!Which
<1>2. CASE hits = {}
  BY <1>1, <1>2 DEF Entries
<1>3. CASE hits # {}
  <2>1. first \in hits
    BY <1>3, FirstEntry
  <2>2. [dir |-> path[first], name |-> name] \in Place
    BY <2>1, PathEntries DEF Place
  <2> QED
    BY <1>1, <1>3, <2>1, <2>2, NoneApart DEF Entries
<1> QED
  BY <1>2, <1>3

\* What is resolved is the user's.
LEMMA ResolvedIsForeign ==
  ASSUME ShimShapes, NEW path \in S!Paths, NEW name \in S!Names, S!RealBinary(name, path) # None
  PROVE  /\ S!RealBinary(name, path) \in [dir : {"bin", "away", "alias"}, name : {name}]
         /\ S!At(S!RealBinary(name, path)) = S!Foreign
<1> DEFINE first == S!Which(name, path, {})
           retry == S!Which(name, path, {"bin"})
           found == IF first = None \/ S!IsOurShim(S!At(first)) THEN retry ELSE first
<1>1. S!RealBinary(name, path) = found /\ found # None /\ ~S!IsOurShim(S!At(found))
  BY DEF S!RealBinary
<1>2. \E i \in DOMAIN path : found = [dir |-> path[i], name |-> name] /\ files[S!Real(path[i])][name] # None
  BY <1>1, WhichFinds DEF Entries
<1>3. PICK i \in DOMAIN path : found = [dir |-> path[i], name |-> name] /\ files[S!Real(path[i])][name] # None
  BY <1>2
<1>4. path[i] \in {"bin", "away", "alias"} /\ S!Real(path[i]) \in S!Dirs
  BY PathEntries
<1>5. S!At(found) = files[S!Real(path[i])][name]
  BY <1>3 DEF S!At
<1>6. S!At(found) \in {None, S!Foreign} \cup ShimFile
  BY <1>4, <1>5 DEF ShimShapes
<1> QED
  BY <1>1, <1>3, <1>4, <1>5, <1>6, ForeignOrOurs

\* It is found whenever PATH has it anywhere.
LEMMA ForeignIsResolved ==
  ASSUME ShimShapes, FilesInv, NEW path \in S!Paths, NEW name \in S!Names
  PROVE  S!RealBinary(name, path) # None
           <=> \E i \in DOMAIN path : files[S!Real(path[i])][name] = S!Foreign
<1> DEFINE first == S!Which(name, path, {})
           retry == S!Which(name, path, {"bin"})
<1>1. ASSUME NEW i \in DOMAIN path, files[S!Real(path[i])][name] = S!Foreign
      PROVE  S!RealBinary(name, path) # None
  <2>1. first # None
    BY <1>1, WhichFinds, NoneApart DEF Entries
  <2>2. CASE ~S!IsOurShim(S!At(first))
    BY <2>1, <2>2 DEF S!RealBinary
  <2>3. CASE S!IsOurShim(S!At(first))
    <3>1. PICK j \in DOMAIN path : first = [dir |-> path[j], name |-> name]
      BY <2>1, WhichFinds DEF Entries
    <3>2. S!IsOurShim(files[S!Real(path[j])][name])
      BY <2>3, <3>1 DEF S!At
    <3>3. S!Real(path[j]) = "bin"
      BY <3>2, PathEntries, ForeignOrOurs DEF FilesInv, S!Dirs
    <3>4. S!Real(path[i]) = "away"
      BY <1>1, <3>2, <3>3, PathEntries, NoneApart DEF S!Dirs, S!IsOurShim, S!Foreign
    <3>5. retry # None
      BY <1>1, <3>4, WhichFinds, NoneApart DEF Entries
    <3>6. PICK k \in Entries(path, {"bin"}) : retry = [dir |-> path[k], name |-> name]
      BY <3>5, WhichFinds
    <3>7. S!Real(path[k]) = "away"
      BY <3>6, PathEntries DEF Entries, S!Dirs
    <3>8. ~S!IsOurShim(S!At(retry))
      BY <3>6, <3>7, ForeignOrOurs DEF FilesInv, S!At
    <3> QED
      BY <2>3, <3>5, <3>8 DEF S!RealBinary
  <2> QED
    BY <2>2, <2>3
<1>2. ASSUME S!RealBinary(name, path) # None
      PROVE  \E i \in DOMAIN path : files[S!Real(path[i])][name] = S!Foreign
  <2>1. S!At(S!RealBinary(name, path)) = S!Foreign
    BY <1>2, ResolvedIsForeign
  <2> DEFINE found == IF first = None \/ S!IsOurShim(S!At(first)) THEN retry ELSE first
  <2>2. S!RealBinary(name, path) = found /\ found # None
    BY <1>2 DEF S!RealBinary
  <2>3. PICK i \in DOMAIN path : found = [dir |-> path[i], name |-> name]
    BY <2>2, WhichFinds DEF Entries
  <2> QED
    BY <2>1, <2>2, <2>3 DEF S!At
<1> QED
  BY <1>1, <1>2
-----------------------------------------------------------------------------
LEMMA ShimsStart == S!Init => ShimInv
<1> SUFFICES ASSUME S!Init PROVE ShimInv
  OBVIOUS
<1>1. PICK here \in SUBSET {"npm", "pnpm", "npx"}, there \in SUBSET {"npm", "pnpm", "volta"}, before \in BOOLEAN :
        LET in(dir) == IF dir = "bin" THEN here ELSE there
            tools == [dir \in S!Dirs |-> [name \in S!Names |-> IF name \in in(dir) THEN S!Foreign ELSE None]]
        IN  files = IF before THEN [tools EXCEPT !.bin.npx = [S!Baked({"pnpm"}) EXCEPT !.old = TRUE],
                                                 !.bin.pnpm = S!Baked({"volta", "pnpm"})]
                    ELSE tools
  BY DEF S!Init
<1> DEFINE in(dir) == IF dir = "bin" THEN here ELSE there
           tools == [dir \in S!Dirs |-> [name \in S!Names |-> IF name \in in(dir) THEN S!Foreign ELSE None]]
           npx == [S!Baked({"pnpm"}) EXCEPT !.old = TRUE]
           pnpm == S!Baked({"volta", "pnpm"})
<1>2. /\ npx \in ShimFile /\ npx.to = {[dir |-> "away", name |-> "pnpm"]}
      /\ pnpm \in ShimFile /\ pnpm.to = {[dir |-> "away", name |-> "volta"], [dir |-> "away", name |-> "pnpm"]}
  <2> DEFINE one == {[dir |-> "away", name |-> "pnpm"]}
             two == {[dir |-> "away", name |-> "volta"], [dir |-> "away", name |-> "pnpm"]}
             old == S!Baked({"pnpm"})
  <2>1. one \in SUBSET Place /\ two \in SUBSET Place
    BY DEF Place, S!Names
  <2>2. old = S!Redirect(one) /\ pnpm = S!Redirect(two)
    BY DEF S!Baked, S!Redirect
  <2> HIDE DEF one, two, old, pnpm
  <2>3. /\ old \in ShimFile /\ old.to = one /\ pnpm \in ShimFile /\ pnpm.to = two
    BY <2>1, <2>2, NoneApart DEF S!Redirect
  <2>4. npx = [old EXCEPT !.old = TRUE]
    BY DEF old
  <2> HIDE DEF npx
  <2>5. npx \in ShimFile /\ npx.to = one
    BY <2>3, <2>4 DEF ShimFile
  <2> QED
    BY <2>3, <2>5 DEF one, two
<1>3. MayRun("npx", npx.to) /\ MayRun("pnpm", pnpm.to)
  BY <1>2 DEF MayRun, Targeted, Place, S!Names, S!Real
<1>4. \A name \in S!Names : files["away"][name] \in {None, S!Foreign}
  BY <1>1 DEF S!Dirs, S!Names
<1>5. /\ \A name \in S!Names \ {"npx", "pnpm"} : files["bin"][name] \in {None, S!Foreign}
      /\ files["bin"]["npx"] \in {None, S!Foreign, npx} /\ files["bin"]["pnpm"] \in {None, S!Foreign, pnpm}
  BY <1>1 DEF S!Dirs, S!Names
<1>6. files \in [S!Dirs -> [S!Names -> {None, S!Foreign} \cup ShimFile]]
  <2>1. tools \in [S!Dirs -> [S!Names -> {None, S!Foreign} \cup ShimFile]]
    BY DEF S!Dirs, S!Names
  <2> QED
    BY <1>1, <1>2, <2>1 DEF S!Dirs, S!Names
<1>7. ~S!IsOurShim(None) /\ ~S!IsOurShim(S!Foreign)
  BY DEF S!IsOurShim, S!Foreign
<1>8. FilesInv
  <2> HIDE DEF npx, pnpm
  <2>1. ASSUME NEW name \in S!Names, S!IsOurShim(files["bin"][name])
        PROVE  MayRun(name, files["bin"][name].to)
    <3>1. name \in {"npx", "pnpm"}
      BY <1>5, <1>7, <2>1
    <3>2. name = "npx" => files["bin"][name] = npx
      BY <1>5, <1>7, <2>1
    <3>3. name = "pnpm" => files["bin"][name] = pnpm
      BY <1>5, <1>7, <2>1
    <3> QED
      BY <1>3, <3>1, <3>2, <3>3
  <2>2. files["bin"]["volta"] \in {None, S!Foreign}
    BY <1>5 DEF S!Names
  <2> QED
    BY <1>4, <2>1, <2>2 DEF FilesInv
<1>9. ShimShapes
  <2>1. /\ step = "idle" /\ applying = S!Idle /\ late = {} /\ edits = 0
    BY DEF S!Init
  <2> HIDE DEF npx, pnpm, tools
  <2> QED
    BY <1>6, <2>1 DEF S!Idle, ShimShapes
<1> QED
  BY <1>8, <1>9 DEF S!Init, ShimInv, CheckedInv

\* The head of a list, and what is left of it.
LEMMA Suffix == ASSUME NEW X, NEW s \in Seq(X), s # <<>>
                PROVE  /\ Head(s) \in X /\ Tail(s) \in Seq(X) /\ Head(s) = s[1]
                       /\ Len(s) \in Nat /\ Len(s) > 0 /\ Len(Tail(s)) = Len(s) - 1
                       /\ \A i \in 1..Len(s) - 1 : Tail(s)[i] = s[i + 1]
<1>1. Head(s) \in X /\ Tail(s) \in Seq(X) /\ Head(s) = s[1]
  OBVIOUS
<1>2. Len(s) \in Nat /\ Len(s) > 0 /\ Len(Tail(s)) = Len(s) - 1
  OBVIOUS
<1>3. \A i \in 1..Len(s) - 1 : Tail(s)[i] = s[i + 1]
  BY <1>2
<1> QED
  BY <1>1, <1>2, <1>3

\* The layers of an application, one after the other.
Application == <<<<"block", "npm">>, <<"block", "pip">>, <<"block", "npx">>, <<"redirect", "npx">>,
                 <<"volta", "volta">>, <<"global", "npm">>, <<"global", "pnpm">>>>

LEMMA Joined ==
  ASSUME NEW X, NEW s \in Seq(X), NEW t \in Seq(X), NEW u \in Seq(X), Len(u) = Len(s) + Len(t),
         \A i \in 1..Len(s) : u[i] = s[i], \A i \in 1..Len(t) : u[Len(s) + i] = t[i]
  PROVE  s \o t = u
<1>1. s \o t \in Seq(X) /\ Len(s \o t) = Len(u)
  OBVIOUS
<1>2. \A i \in 1..Len(u) : (s \o t)[i] = u[i]
  <2> TAKE i \in 1..Len(u)
  <2>1. CASE i <= Len(s)
    BY <2>1
  <2>2. CASE i > Len(s)
    <3>1. i - Len(s) \in 1..Len(t) /\ i = Len(s) + (i - Len(s))
      BY <2>2
    <3> QED
      BY <2>2, <3>1
  <2> QED
    BY <2>1, <2>2
<1> QED
  BY <1>1, <1>2

LEMMA TheApplication ==
  /\ S!Layer("block", S!Banned) \o S!Layer("redirect", <<"npx">>)
       \o S!Layer("volta", <<"volta">>) \o S!Layer("global", <<"npm", "pnpm">>) = Application
  /\ S!Layer("remove", S!Guarded) \in Seq(Tasks(<<>>)) /\ S!Layer("renew", <<"npx">>) \in Seq(Tasks(<<>>))
  /\ \A path \in S!Paths : Application \in Seq(Tasks(path))
<1> DEFINE ShimTasks == {<<"block", "npm">>, <<"block", "pip">>, <<"block", "npx">>, <<"redirect", "npx">>,
                         <<"volta", "volta">>, <<"global", "npm">>, <<"global", "pnpm">>}
           Others == {<<"renew", "npx">>, <<"remove", "npm">>, <<"remove", "pip">>, <<"remove", "npx">>,
                      <<"remove", "pnpm">>}
           blocks == <<<<"block", "npm">>, <<"block", "pip">>, <<"block", "npx">>>>
           redirects == <<<<"redirect", "npx">>>>
           voltas == <<<<"volta", "volta">>>>
           globals == <<<<"global", "npm">>, <<"global", "pnpm">>>>
           removes == <<<<"remove", "npm">>, <<"remove", "pip">>, <<"remove", "npx">>, <<"remove", "pnpm">>>>
           both == <<<<"block", "npm">>, <<"block", "pip">>, <<"block", "npx">>, <<"redirect", "npx">>>>
           three == <<<<"block", "npm">>, <<"block", "pip">>, <<"block", "npx">>, <<"redirect", "npx">>, <<"volta", "volta">>>>
<1>1. S!Layer("block", S!Banned) = blocks
  BY DEF S!Layer, S!Banned
<1>2. /\ S!Layer("redirect", <<"npx">>) = redirects /\ S!Layer("volta", <<"volta">>) = voltas
      /\ S!Layer("renew", <<"npx">>) = <<<<"renew", "npx">>>>
      /\ S!Layer("global", <<"npm", "pnpm">>) = globals
  BY DEF S!Layer
<1>3. S!Layer("remove", S!Guarded) = removes
  BY DEF S!Layer, S!Guarded
<1>4. /\ blocks \in Seq(ShimTasks) /\ redirects \in Seq(ShimTasks) /\ voltas \in Seq(ShimTasks)
      /\ globals \in Seq(ShimTasks) /\ both \in Seq(ShimTasks) /\ three \in Seq(ShimTasks)
  OBVIOUS
<1>5. Application \in Seq(ShimTasks)
  BY DEF Application
<1>6. blocks \o redirects = both
  <2>1. Len(both) = Len(blocks) + Len(redirects)
    OBVIOUS
  <2>2. \A i \in 1..Len(blocks) : both[i] = blocks[i]
    OBVIOUS
  <2>3. \A i \in 1..Len(redirects) : both[Len(blocks) + i] = redirects[i]
    OBVIOUS
  <2> HIDE DEF blocks, redirects, both, ShimTasks
  <2> QED
    BY <1>4, <2>1, <2>2, <2>3, Joined
<1>7. both \o voltas = three
  <2>1. Len(three) = Len(both) + Len(voltas)
    OBVIOUS
  <2>2. \A i \in 1..Len(both) : three[i] = both[i]
    OBVIOUS
  <2>3. \A i \in 1..Len(voltas) : three[Len(both) + i] = voltas[i]
    OBVIOUS
  <2> HIDE DEF both, voltas, three, ShimTasks
  <2> QED
    BY <1>4, <2>1, <2>2, <2>3, Joined
<1>8. three \o globals = Application
  <2>1. Len(Application) = Len(three) + Len(globals)
    BY DEF Application
  <2>2. \A i \in 1..Len(three) : Application[i] = three[i]
    BY DEF Application
  <2>3. \A i \in 1..Len(globals) : Application[Len(three) + i] = globals[i]
    BY DEF Application
  <2> HIDE DEF three, globals, ShimTasks
  <2> QED
    BY <1>4, <1>5, <2>1, <2>2, <2>3, Joined
<1>9. S!Layer("remove", S!Guarded) \in Seq(Others)
  <2>1. removes \in Seq(Others)
    OBVIOUS
  <2> QED
    BY <1>3, <2>1
<1>10. S!Layer("renew", <<"npx">>) \in Seq(Others)
  BY <1>2
<1>11. \A path \in S!Paths : Tasks(path) = ShimTasks
  BY DEF Tasks
<1>12. Tasks(<<>>) = Others
  BY DEF Tasks, S!Paths
<1> HIDE DEF ShimTasks, Others, blocks, redirects, voltas, globals, removes, both, three
<1> QED
  BY <1>1, <1>2, <1>5, <1>6, <1>7, <1>8, <1>9, <1>10, <1>11, <1>12

\* A file that is put where nothing of the user's is, or where the user put a tool since.
LEMMA PutsOurs ==
  ASSUME ShimInv, step \in {"write", "unlink"}, NEW file \in {None} \cup ShimFile, S!Puts(file),
         file # None => MayRun(S!Name, file.to)
  PROVE  ShimInv'
<1>1. /\ S!Task \in {"block", "redirect", "volta", "global", "renew", "remove"}
      /\ S!Name \in S!Names /\ S!Name # "volta" /\ Tail(applying.todo) \in Seq(Tasks(applying.path))
  <2>1. Head(applying.todo) \in Tasks(applying.path) /\ Tail(applying.todo) \in Seq(Tasks(applying.path))
    BY Suffix DEF ShimInv, ShimShapes, CheckedInv
  <2> QED
    BY <2>1 DEF ShimInv, CheckedInv, S!Task, S!Name, Tasks, S!Names
<1>2. files' = [files EXCEPT !["bin"][S!Name] = file] /\ late' = late /\ edits' = edits
  BY DEF S!Puts
<1>3. \A name \in S!Names : files'["bin"][name] = IF name = S!Name THEN file ELSE files["bin"][name]
  BY <1>1, <1>2 DEF ShimInv, ShimShapes, S!Dirs
<1>4. files'["away"] = files["away"]
  BY <1>1, <1>2 DEF ShimInv, ShimShapes, S!Dirs
<1>5. files' \in [S!Dirs -> [S!Names -> {None, S!Foreign} \cup ShimFile]]
  BY <1>1, <1>2 DEF ShimInv, ShimShapes, S!Dirs
<1>6. FilesInv'
  <2>1. \A name \in S!Names : S!IsOurShim(files'["bin"][name]) => MayRun(name, files'["bin"][name].to)
    BY <1>3 DEF ShimInv, FilesInv, S!IsOurShim
  <2>3. \A name, to : MayRun(name, to)' <=> MayRun(name, to)
    BY <1>2 DEF MayRun
  <2> QED
    BY <1>1, <1>3, <1>4, <2>1, <2>3 DEF ShimInv, FilesInv, S!Names, S!IsOurShim
<1>7. /\ DOMAIN applying' = DOMAIN applying /\ applying'.path = applying.path /\ applying'.volta = applying.volta
      /\ applying'.since = applying.since /\ applying'.todo = Tail(applying.todo) /\ step' = "check"
  BY DEF S!Puts, S!Next1, ShimInv, ShimShapes
<1> QED
  BY <1>1, <1>2, <1>5, <1>6, <1>7 DEF ShimInv, ShimShapes, CheckedInv
\* The task in hand, of a run that is not over.
LEMMA TaskInHand ==
  ASSUME ShimShapes, applying.todo # <<>>
  PROVE  /\ S!Task \in {"block", "redirect", "volta", "global", "renew", "remove"} /\ S!Name \in S!Names
         /\ S!Name = "volta" <=> S!Task = "volta"
         /\ S!Name = "pnpm" => S!Task \in {"global", "remove"}
         /\ S!Task = "redirect" => S!Name = "npx"
         /\ S!Task = "renew" => S!Name = "npx"
         /\ S!Task = "global" => S!Name \in {"npm", "pnpm"}
         /\ S!Task \in {"block", "redirect", "volta", "global"} => applying.path \in S!Paths
         /\ <<S!Task, S!Name>> = Head(applying.todo) /\ Tail(applying.todo) \in Seq(Tasks(applying.path))
<1>1. Head(applying.todo) \in Tasks(applying.path) /\ Tail(applying.todo) \in Seq(Tasks(applying.path))
  BY Suffix DEF ShimShapes
<1> QED
  BY <1>1 DEF S!Task, S!Name, Tasks, S!Names

\* What a shim is resolved to is what it may run: the managed directory has only the user's
\* tools to offer, and a pnpm that is about to be written over is not one.
LEMMA TargetsMayRun ==
  ASSUME ShimInv, applying.path \in S!Paths, S!Task \in {"block", "redirect", "global"},
         S!Name \in {"npm", "pip", "npx", "pnpm"}, S!Task = "redirect" => S!Name = "npx",
         S!Task = "global" => S!Name \in {"npm", "pnpm"},
         S!Here = None \/ S!IsOurShim(S!Here) \/ S!Name \in late
  PROVE  MayRun(S!Name, S!Targets)
<1> DEFINE pnpm == S!RealBinary("pnpm", applying.path)
<1>1. pnpm # None => pnpm \in [dir : {"bin", "away", "alias"}, name : {"pnpm"}] /\ S!At(pnpm) = S!Foreign
  BY ResolvedIsForeign DEF ShimInv, S!Names
<1>2. S!Name = "pnpm" /\ S!Name \notin late /\ pnpm # None => S!Real(pnpm.dir) = "away"
  BY <1>1, NoneApart DEF S!Here, S!At, S!Real, S!IsOurShim, S!Foreign
<1>3. applying.volta # None => applying.volta \in [dir : {"bin", "away", "alias"}, name : {"volta"}]
  BY DEF ShimInv, ShimShapes
<1>4. S!Targets = LET wants == CASE S!Task = "block" -> {} [] S!Task = "redirect" -> {pnpm}
                                 [] S!Name = "npm" -> {applying.volta} [] OTHER -> {applying.volta, pnpm}
                  IN  IF None \in wants THEN {} ELSE wants
  BY DEF S!Targets
<1> HIDE DEF pnpm
<1>5. CASE S!Targets = {}
  BY <1>5 DEF MayRun
<1>6. CASE S!Targets = {pnpm} /\ pnpm # None /\ S!Name = "npx"
  BY <1>1, <1>6 DEF MayRun, Targeted, Place, S!Names
<1>7. CASE S!Targets = {applying.volta} /\ applying.volta # None /\ S!Name = "npm"
  BY <1>3, <1>7 DEF MayRun, Targeted, Place, S!Names
<1>8. CASE S!Targets = {applying.volta, pnpm} /\ applying.volta # None /\ pnpm # None /\ S!Name = "pnpm"
  BY <1>1, <1>2, <1>3, <1>8 DEF MayRun, Targeted, Place, S!Names
<1> QED
  BY <1>4, <1>5, <1>6, <1>7, <1>8

LEMMA ShimsStep == ShimInv /\ [S!Next]_shimVars => ShimInv'
<1> SUFFICES ASSUME ShimInv, [S!Next]_shimVars PROVE ShimInv'
  OBVIOUS
<1>1. ASSUME NEW opName, NEW path \in S!Paths \cup {<<>>}, NEW tasks \in Seq(Tasks(path)), S!Begin(opName, path, tasks)
      PROVE  ShimInv'
  <2>1. /\ applying' = [S!Idle EXCEPT !.op = opName, !.path = path, !.todo = tasks, !.since = edits]
        /\ step' = "check" /\ UNCHANGED <<files, late, edits>>
    BY <1>1 DEF S!Begin
  <2>2. /\ DOMAIN applying' = {"op", "path", "todo", "found", "volta", "since"}
        /\ applying'.path = path /\ applying'.todo = tasks /\ applying'.volta = None /\ applying'.since = edits
    BY <2>1 DEF S!Idle
  <2>3. ShimShapes'
    BY <2>1, <2>2 DEF ShimInv, ShimShapes
  <2>4. FilesInv'
    BY <2>1 DEF ShimInv, FilesInv, MayRun
  <2> QED
    BY <2>1, <2>3, <2>4 DEF ShimInv, CheckedInv
<1>2. ASSUME NEW path \in S!Paths, S!Apply(path) PROVE ShimInv'
  BY <1>1, <1>2, TheApplication DEF S!Apply
<1>3. CASE S!Remove
  BY <1>1, <1>3, TheApplication DEF S!Remove
<1>4. CASE S!Launch
  BY <1>1, <1>4, TheApplication DEF S!Launch
<1>5. ASSUME applying.todo # <<>>
      PROVE  /\ S!Task \in {"block", "redirect", "volta", "global", "renew", "remove"} /\ S!Name \in S!Names
             /\ S!Name = "volta" <=> S!Task = "volta"
             /\ S!Name = "pnpm" => S!Task \in {"global", "remove"}
             /\ S!Task = "redirect" => S!Name = "npx"
             /\ S!Task = "renew" => S!Name = "npx"
             /\ S!Task = "global" => S!Name \in {"npm", "pnpm"}
             /\ S!Task \in {"block", "redirect", "volta", "global"} => applying.path \in S!Paths
             /\ <<S!Task, S!Name>> = Head(applying.todo) /\ Tail(applying.todo) \in Seq(Tasks(applying.path))
  BY <1>5, TaskInHand DEF ShimInv
<1>6. ASSUME NEW next, NEW r, S!Goes(next, r), next \in {"check", "resolve", "write", "unlink"},
             DOMAIN r = {"op", "path", "todo", "found", "volta", "since"}, r.path = applying.path,
             r.todo \in Seq(Tasks(applying.path)), r.since = applying.since,
             r.volta = None \/ r.volta \in [dir : {"bin", "away", "alias"}, name : {"volta"}],
             CheckedInv'
      PROVE  ShimInv'
  <2>1. step' = next /\ applying' = r /\ UNCHANGED <<files, late, edits>>
    BY <1>6 DEF S!Goes
  <2>2. ShimShapes'
    BY <1>6, <2>1 DEF ShimInv, ShimShapes
  <2>3. FilesInv'
    BY <2>1 DEF ShimInv, FilesInv, MayRun
  <2> QED
    BY <1>6, <2>2, <2>3 DEF ShimInv
<1>7. ASSUME applying.todo # <<>>
      PROVE  /\ DOMAIN S!Next1 = {"op", "path", "todo", "found", "volta", "since"}
             /\ S!Next1.path = applying.path /\ S!Next1.todo \in Seq(Tasks(applying.path)) /\ S!Next1.since = applying.since
             /\ S!Next1.volta = applying.volta
  BY <1>5, <1>7 DEF S!Next1, ShimInv, ShimShapes
<1>8. CASE S!Check
  <2>1. step = "check" /\ applying.todo # <<>>
    BY <1>8 DEF S!Check
  <2> DEFINE ours == S!IsOurShim(S!Here)
  <2>2. CASE S!Task = "volta" /\ S!Goes("check", [S!Next1 EXCEPT !.volta = S!RealBinary("volta", applying.path)])
    <3> DEFINE found == S!RealBinary("volta", applying.path)
               r == [S!Next1 EXCEPT !.volta = found]
    <3>1. found = None \/ found \in [dir : {"bin", "away", "alias"}, name : {"volta"}]
      BY <1>5, <2>1, <2>2, ResolvedIsForeign DEF ShimInv, S!Names
    <3> HIDE DEF found
    <3>2. /\ DOMAIN r = {"op", "path", "todo", "found", "volta", "since"} /\ r.path = applying.path
          /\ r.todo \in Seq(Tasks(applying.path)) /\ r.since = applying.since /\ r.volta = found
      BY <1>7, <2>1
    <3>3. S!Goes("check", r)
      BY <2>2 DEF found
    <3>4. CheckedInv'
      BY <3>3 DEF CheckedInv, S!Goes
    <3> HIDE DEF r
    <3> QED
      BY <1>6, <3>1, <3>2, <3>3, <3>4
  <2>3. CASE S!Goes("check", S!Next1)
    BY <1>6, <1>7, <2>1, <2>3 DEF CheckedInv, S!Goes, ShimInv, ShimShapes
  <2>4. CASE S!Task = "remove" /\ ours /\ S!Goes("unlink", applying)
    <3>1. CheckedInv'
      BY <1>5, <2>1, <2>4 DEF CheckedInv, S!Goes, S!Name, S!Task, S!Here
    <3> QED
      BY <1>6, <2>4, <3>1 DEF ShimInv, ShimShapes
  <2>5. CASE S!Task = "renew" /\ ours /\ S!Goes("write", [applying EXCEPT !.found = S!Here.to])
    <3> DEFINE to == S!Here.to
               r == [applying EXCEPT !.found = to]
    <3>1. MayRun(S!Name, to)
      BY <1>5, <2>1, <2>5 DEF ShimInv, FilesInv, S!Here
    <3>2. S!Goes("write", r) /\ S!Name # "volta" /\ S!IsOurShim(S!Here)
      BY <1>5, <2>1, <2>5
    <3> HIDE DEF to
    <3>3. /\ DOMAIN r = {"op", "path", "todo", "found", "volta", "since"} /\ r.path = applying.path
          /\ r.todo = applying.todo /\ r.since = applying.since /\ r.volta = applying.volta /\ r.found = to
      BY DEF ShimInv, ShimShapes
    <3> HIDE DEF r
    <3>4. CheckedInv'
      BY <2>1, <3>1, <3>2, <3>3 DEF CheckedInv, S!Goes, S!Name, S!Task, S!Here, MayRun
    <3> QED
      BY <1>6, <3>2, <3>3, <3>4 DEF ShimInv, ShimShapes
  <2>6. CASE S!Task \in {"block", "redirect", "global"} /\ (S!Here = None \/ ours) /\ S!Goes("resolve", applying)
    <3>1. CheckedInv'
      BY <1>5, <2>1, <2>6 DEF CheckedInv, S!Goes, S!Name, S!Task, S!Here
    <3> QED
      BY <1>6, <2>6, <3>1 DEF ShimInv, ShimShapes
  <2> QED
    BY <1>5, <1>8, <2>1, <2>2, <2>3, <2>4, <2>5, <2>6 DEF S!Check
<1>9. CASE S!Resolve
  <2>1. /\ step = "resolve" /\ applying.todo # <<>> /\ applying.path \in S!Paths
        /\ S!Name \in {"npm", "pip", "npx", "pnpm"} /\ S!Task \in {"block", "redirect", "global"}
        /\ S!Here = None \/ S!IsOurShim(S!Here) \/ S!Name \in late
    BY <1>5, <1>9 DEF S!Resolve, ShimInv, CheckedInv, S!Names
  <2>2. MayRun(S!Name, S!Targets)
    BY <1>5, <2>1, TargetsMayRun
  <2>3. CASE S!Goes("unlink", applying) /\ S!IsOurShim(S!Here)
    <3>1. CheckedInv'
      BY <2>1, <2>3 DEF CheckedInv, S!Goes, S!Name, S!Task, S!Here
    <3> QED
      BY <1>6, <2>3, <3>1 DEF ShimInv, ShimShapes
  <2>4. CASE S!Goes("check", S!Next1)
    BY <1>6, <1>7, <2>1, <2>4 DEF CheckedInv, S!Goes, ShimInv, ShimShapes
  <2>5. CASE S!Goes("write", [applying EXCEPT !.found = S!Targets])
    <3> DEFINE to == S!Targets
               r == [applying EXCEPT !.found = to]
    <3>1. MayRun(S!Name, to) /\ S!Goes("write", r)
      BY <2>2, <2>5
    <3> HIDE DEF to
    <3>2. /\ DOMAIN r = {"op", "path", "todo", "found", "volta", "since"} /\ r.path = applying.path
          /\ r.todo = applying.todo /\ r.since = applying.since /\ r.volta = applying.volta /\ r.found = to
      BY DEF ShimInv, ShimShapes
    <3> HIDE DEF r
    <3>3. CheckedInv'
      BY <2>1, <3>1, <3>2 DEF CheckedInv, S!Goes, S!Name, S!Task, S!Here, MayRun
    <3> QED
      BY <1>6, <3>1, <3>2, <3>3 DEF ShimInv, ShimShapes
  <2> QED
    BY <1>9, <2>3, <2>4, <2>5 DEF S!Resolve
<1>10. CASE S!Write
  <2>1. MayRun(S!Name, applying.found) /\ step = "write"
    BY <1>10 DEF S!Write, ShimInv, CheckedInv
  <2>2. S!Body \in ShimFile /\ S!Body.to = applying.found
    BY <2>1, NoneApart DEF S!Body, MayRun, S!Redirect, S!Block
  <2> QED
    BY <1>10, <2>1, <2>2, PutsOurs DEF S!Write
<1>11. CASE S!Unlink
  BY <1>11, PutsOurs DEF S!Unlink
<1>12. CASE S!Ends
  BY <1>12 DEF S!Ends, S!Idle, ShimInv, ShimShapes, FilesInv, MayRun, CheckedInv
<1>13. ASSUME NEW dir \in S!Dirs, NEW name \in {"npm", "pnpm", "volta"}, S!Install(dir, name)
       PROVE  ShimInv'
  <2> DEFINE put == IF files[dir][name] = None THEN S!Foreign ELSE None
  <2>1. /\ files' = [files EXCEPT ![dir][name] = put] /\ edits' = edits + 1
        /\ late' = IF dir = "bin" /\ step \in {"resolve", "write", "unlink"} /\ S!Name = name
                     THEN late \cup {name} ELSE late
        /\ UNCHANGED <<step, applying, runs>>
    BY <1>13 DEF S!Install
  <2>2. put \in {None, S!Foreign} /\ name \in S!Names /\ ~S!IsOurShim(put)
    BY DEF S!Names, S!IsOurShim, S!Foreign
  <2> HIDE DEF put
  <2>3. \A d \in S!Dirs, n \in S!Names : files'[d][n] = IF d = dir /\ n = name THEN put ELSE files[d][n]
    BY <2>1, <2>2 DEF ShimInv, ShimShapes
  <2>4. ShimShapes'
    BY <2>1, <2>2 DEF ShimInv, ShimShapes
  <2>5. late \subseteq late'
    BY <2>1
  <2>6. \A n, to : MayRun(n, to) => MayRun(n, to)'
    BY <2>5 DEF MayRun
  <2>7. FilesInv'
    BY <2>2, <2>3, <2>6 DEF ShimInv, FilesInv, S!Dirs, S!Names
  <2>8. CheckedInv'
    <3>1. S!Name' = S!Name /\ S!Task' = S!Task
      BY <2>1 DEF S!Name, S!Task
    <3>2. applying.todo # <<>> => S!Name \in S!Names
      BY <1>5
    <3>3. applying.todo # <<>> /\ (dir # "bin" \/ name # S!Name) => S!Here' = S!Here
      BY <2>3, <3>1, <3>2 DEF S!Here, S!Dirs
    <3> QED
      BY <2>1, <2>5, <2>6, <3>1, <3>2, <3>3 DEF ShimInv, CheckedInv
  <2> QED
    BY <2>4, <2>7, <2>8 DEF ShimInv
<1>14. CASE UNCHANGED shimVars
  BY <1>14 DEF shimVars, ShimInv, ShimShapes, FilesInv, MayRun, CheckedInv, S!Name, S!Task, S!Here
<1> QED
  BY <1>2, <1>3, <1>4, <1>8, <1>9, <1>10, <1>11, <1>12, <1>13, <1>14 DEF S!Next, S!Return, S!Stop
-----------------------------------------------------------------------------
\* What a place of a directory runs: nothing, unless it is a shim of the managed one.
LEMMA ExecsAre ==
  ASSUME ShimInv, NEW dir \in S!Dirs, NEW name \in S!Names
  PROVE  /\ \A p \in S!Execs([dir |-> dir, name |-> name]) :
              /\ dir = "bin" /\ p \in [dir : S!Dirs, name : Targeted(name)]
              /\ name = "pnpm" /\ name \notin late /\ p.name = "pnpm" => p.dir = "away"
<1> DEFINE place == [dir |-> dir, name |-> name]
<1>1. S!At(place) = files[dir][name]
  BY DEF S!At, S!Real, S!Dirs
<1>2. files[dir][name] \in {None, S!Foreign} \cup ShimFile
  BY DEF ShimInv, ShimShapes
<1>3. CASE files[dir][name] = None
  BY <1>1, <1>3 DEF S!Execs
<1>4. CASE files[dir][name] = S!Foreign
  BY <1>1, <1>4 DEF S!Execs, S!Foreign
<1>5. CASE files[dir][name] \in ShimFile
  <2>1. S!IsOurShim(files[dir][name]) /\ files[dir][name] \notin {None, S!Foreign}
    BY <1>2, <1>5, NoneApart, ForeignOrOurs
  <2>2. dir = "bin"
    BY <2>1 DEF ShimInv, FilesInv, S!Dirs
  <2>3. MayRun(name, files[dir][name].to)
    BY <2>1, <2>2 DEF ShimInv, FilesInv
  <2> DEFINE to == files[dir][name].to
  <2>4. S!Execs(place) = {[dir |-> S!Real(t.dir), name |-> t.name] : t \in to}
    BY <1>1, <2>1 DEF S!Execs
  <2> HIDE DEF to
  <2>5. MayRun(name, to)
    BY <2>3 DEF to
  <2>6. \A t \in to : t.dir \in {"bin", "away", "alias"} /\ S!Real(t.dir) \in S!Dirs /\ t.name \in Targeted(name)
    BY <2>5 DEF MayRun, Place, S!Real, S!Dirs
  <2> QED
    BY <2>2, <2>4, <2>5, <2>6 DEF MayRun
<1> QED
  BY <1>2, <1>3, <1>4, <1>5

\* What runs nothing outside itself is all that can be reached.
LEMMA Closed ==
  ASSUME NEW name, NEW Z, S!Execs([dir |-> "bin", name |-> name]) \subseteq Z,
         \A p \in Z : S!Execs(p) \subseteq Z
  PROVE  S!Reached(name) \subseteq Z
<1> DEFINE next(X) == X \cup UNION {S!Execs(p) : p \in X}
           first == S!Execs([dir |-> "bin", name |-> name])
<1>1. ASSUME NEW X, X \subseteq Z PROVE next(X) \subseteq Z
  BY <1>1
<1>2. S!Reached(name) = next(next(next(first)))
  BY DEF S!Reached
<1> HIDE DEF next, first
<1>3. first \subseteq Z
  BY DEF first
<1>4. next(first) \subseteq Z
  BY <1>1, <1>3
<1>5. next(next(first)) \subseteq Z
  BY <1>1, <1>4
<1> QED
  BY <1>1, <1>2, <1>5

LEMMA NobodyLoops == ShimInv => S!NoLoop
<1> SUFFICES ASSUME ShimInv, NEW name \in S!Names \ late
             PROVE  [dir |-> "bin", name |-> name] \notin S!Reached(name)
  BY DEF S!NoLoop
<1> DEFINE Z == IF name = "pnpm" THEN {[dir |-> "bin", name |-> "volta"], [dir |-> "away", name |-> "volta"],
                                       [dir |-> "away", name |-> "pnpm"]}
                ELSE IF name = "volta" THEN {} ELSE [dir : S!Dirs, name : {"volta", "pnpm"}]
<1>1. \A n \in S!Names : Targeted(n) \subseteq {"volta", "pnpm"} /\ Targeted("volta") = {}
  BY DEF Targeted, S!Names
<1>2. S!Execs([dir |-> "bin", name |-> name]) \subseteq Z
  <2> SUFFICES ASSUME NEW p \in S!Execs([dir |-> "bin", name |-> name]) PROVE p \in Z
    OBVIOUS
  <2>1. /\ p \in [dir : S!Dirs, name : Targeted(name)]
        /\ name = "pnpm" /\ p.name = "pnpm" => p.dir = "away"
    BY ExecsAre DEF S!Dirs
  <2>2. p = [dir |-> p.dir, name |-> p.name] /\ p.dir \in {"bin", "away"} /\ p.name \in {"volta", "pnpm"}
    BY <1>1, <2>1 DEF S!Dirs
  <2> QED
    BY <1>1, <2>1, <2>2
<1>3. \A p \in Z : S!Execs(p) \subseteq Z
  <2> SUFFICES ASSUME NEW p \in Z, NEW q \in S!Execs(p) PROVE q \in Z
    OBVIOUS
  <2>1. p = [dir |-> p.dir, name |-> p.name] /\ p.dir \in S!Dirs /\ p.name \in {"volta", "pnpm"}
    BY DEF S!Dirs
  <2>2. /\ p.dir = "bin" /\ q \in [dir : S!Dirs, name : Targeted(p.name)]
    BY <2>1, ExecsAre DEF S!Names
  <2>3. p.name = "pnpm" /\ q \in [dir : S!Dirs, name : {"volta", "pnpm"}]
    BY <1>1, <2>1, <2>2 DEF S!Names
  <2>4. name \notin {"pnpm", "volta"}
    BY <2>2, <2>3
  <2> QED
    BY <2>3, <2>4
<1>4. S!Reached(name) \subseteq Z
  BY <1>2, <1>3, Closed
<1> QED
  BY <1>4

LEMMA TheirsAreKept == ShimInv /\ [S!Next]_shimVars => S!TheirsStay
<1> SUFFICES ASSUME ShimInv, [S!Next]_shimVars, NEW dir \in S!Dirs, NEW name \in S!Names,
                    files[dir][name] = S!Foreign, edits' = edits
             PROVE  files'[dir][name] = S!Foreign \/ (dir = "bin" /\ name \in late)
  BY DEF S!TheirsStay
<1>1. ASSUME NEW file, S!Puts(file), step \in {"write", "unlink"}
      PROVE  files'[dir][name] = S!Foreign \/ (dir = "bin" /\ name \in late)
  <2>1. files' = [files EXCEPT !["bin"][S!Name] = file]
    BY <1>1 DEF S!Puts
  <2>2. CASE dir = "bin" /\ name = S!Name
    BY <1>1, <2>2, NoneApart DEF ShimInv, CheckedInv, S!Here, S!IsOurShim, S!Foreign
  <2>3. CASE dir # "bin" \/ name # S!Name
    BY <2>1, <2>3 DEF ShimInv, ShimShapes
  <2> QED
    BY <2>2, <2>3
<1>2. CASE UNCHANGED files
  BY <1>2
<1>3. CASE S!Write
  BY <1>1, <1>3 DEF S!Write
<1>4. CASE S!Unlink
  BY <1>1, <1>4 DEF S!Unlink
<1>5. S!Check \/ S!Resolve => UNCHANGED files
  BY DEF S!Check, S!Resolve, S!Goes
<1>6. (\E path \in S!Paths : S!Apply(path)) \/ S!Remove \/ S!Launch \/ S!Return \/ S!Stop => UNCHANGED files
  BY DEF S!Apply, S!Remove, S!Launch, S!Begin, S!Return, S!Stop, S!Ends
<1>7. ~(\E d \in S!Dirs, n \in {"npm", "pnpm", "volta"} : S!Install(d, n))
  BY DEF S!Install, ShimInv, ShimShapes
<1> QED
  BY <1>2, <1>3, <1>4, <1>5, <1>6, <1>7 DEF S!Next, shimVars
-----------------------------------------------------------------------------
\* An application under way that nobody has disturbed.
Undisturbed == step # "idle" /\ applying.op = "apply" /\ applying.since = edits

Reachable(name) == \E i \in DOMAIN applying.path : files[S!Real(applying.path[i])][name] = S!Foreign
Needs(name) ==
  CASE name = "npx" -> {"pnpm"} [] name = "npm" -> {"volta"} [] OTHER -> {"volta", "pnpm"}
Whole(name) == \A t \in Needs(name) : Reachable(t)

\* What RedirectsAreLive says of one name.
LiveShim(name) ==
  \/ files["bin"][name] = S!Foreign
  \/ /\ Whole(name) <=> files["bin"][name] # None /\ files["bin"][name].kind = "redirect"
     /\ \A t \in S!Execs([dir |-> "bin", name |-> name]) : S!At(t) = S!Foreign

Left == Len(applying.todo)

\* It does the rest of the list.
OnTheList ==
  /\ applying.path \in S!Paths /\ Left <= 7
  /\ \A i \in 1..Left : applying.todo[i] = Application[7 - Left + i]

\* How far it has come: what is behind it is in place, volta is what PATH has, and the targets
\* of the name in hand are what it needs.
ApplyInv ==
  /\ applying.since <= edits
  /\ Undisturbed =>
       /\ OnTheList
       /\ step # "check" => Left > 0 /\ (S!Here = None \/ S!IsOurShim(S!Here))
       /\ Left <= 2 => /\ applying.volta # None <=> Reachable("volta")
                       /\ applying.volta # None => S!At(applying.volta) = S!Foreign
       /\ Left <= 3 => LiveShim("npx")
       /\ Left <= 1 => LiveShim("npm")
       /\ Left = 0 => LiveShim("pnpm")
       /\ step = "write" /\ S!Task \in {"redirect", "global"} =>
            /\ applying.found # {} <=> Whole(S!Name)
            /\ \A t \in applying.found : S!At(t) = S!Foreign
       /\ step = "unlink" => S!Task = "global" /\ S!Name = "pnpm" /\ ~Whole("pnpm")

\* Where it is in the list is what it does.
LEMMA WhereItIs ==
  ASSUME ShimShapes, ApplyInv, Undisturbed, applying.todo # <<>>
  PROVE  /\ Left \in 1..7 /\ Len(Tail(applying.todo)) = Left - 1
         /\ Left \in {5, 6, 7} => S!Task = "block" /\ S!Name # "pnpm"
         /\ Left = 4 => S!Task = "redirect" /\ S!Name = "npx"
         /\ Left = 3 => S!Task = "volta"
         /\ Left = 2 => S!Task = "global" /\ S!Name = "npm"
         /\ Left = 1 => S!Task = "global" /\ S!Name = "pnpm"
         /\ \A i \in 1..Left - 1 : Tail(applying.todo)[i] = Application[7 - (Left - 1) + i]
<1> DEFINE list == applying.todo
<1>1. list \in Seq(Tasks(applying.path)) /\ list # <<>> /\ Len(list) <= 7
      /\ \A i \in 1..Len(list) : list[i] = Application[7 - Len(list) + i]
  BY DEF ShimShapes, ApplyInv, OnTheList, Left
<1>2. Left = Len(list) /\ S!Task = Head(list)[1] /\ S!Name = Head(list)[2]
  BY DEF Left, S!Task, S!Name
<1> HIDE DEF list
<1>3. Len(list) \in 1..7 /\ Len(Tail(list)) = Len(list) - 1 /\ Head(list) = list[1]
                     /\ \A i \in 1..Len(list) - 1 : Tail(list)[i] = list[i + 1]
  <2> DEFINE X == Tasks(applying.path)
  <2>1. list \in Seq(X) /\ list # <<>>
    BY <1>1
  <2> HIDE DEF X
  <2>2. /\ Head(list) = list[1] /\ Len(Tail(list)) = Len(list) - 1
        /\ \A i \in 1..Len(list) - 1 : Tail(list)[i] = list[i + 1]
    BY <2>1, Suffix
  <2>5. Len(list) \in Nat /\ Len(list) > 0
    BY <2>1, Suffix
  <2>3. Len(list) <= 7
    BY <1>1
  <2>4. \A n \in Nat : n > 0 /\ n <= 7 => n \in 1..7
    OBVIOUS
  <2> QED
    BY <2>2, <2>3, <2>4, <2>5
<1>4. \A n \in 1..7 : Len(list) = n => Head(list) = Application[8 - n]
  BY <1>1, <1>3
<1>5. \A i \in 1..Len(list) - 1 : Tail(list)[i] = Application[7 - (Len(list) - 1) + i]
  <2> TAKE i \in 1..Len(list) - 1
  <2>1. Tail(list)[i] = list[i + 1] /\ i + 1 \in 1..Len(list)
    BY <1>1, <1>3
  <2> QED
    BY <1>1, <1>3, <2>1
<1>6. /\ Application[1] = <<"block", "npm">> /\ Application[2] = <<"block", "pip">>
      /\ Application[3] = <<"block", "npx">> /\ Application[4] = <<"redirect", "npx">>
      /\ Application[5] = <<"volta", "volta">> /\ Application[6] = <<"global", "npm">>
      /\ Application[7] = <<"global", "pnpm">>
  BY DEF Application
<1>7. /\ Len(list) = 7 => Head(list) = <<"block", "npm">>
      /\ Len(list) = 6 => Head(list) = <<"block", "pip">>
      /\ Len(list) = 5 => Head(list) = <<"block", "npx">>
      /\ Len(list) = 4 => Head(list) = <<"redirect", "npx">>
      /\ Len(list) = 3 => Head(list) = <<"volta", "volta">>
      /\ Len(list) = 2 => Head(list) = <<"global", "npm">>
      /\ Len(list) = 1 => Head(list) = <<"global", "pnpm">>
  <2>1. /\ Len(list) = 7 => Head(list) = Application[1]
        /\ Len(list) = 6 => Head(list) = Application[2]
        /\ Len(list) = 5 => Head(list) = Application[3]
        /\ Len(list) = 4 => Head(list) = Application[4]
        /\ Len(list) = 3 => Head(list) = Application[5]
        /\ Len(list) = 2 => Head(list) = Application[6]
        /\ Len(list) = 1 => Head(list) = Application[7]
    BY <1>4
  <2> QED
    BY <1>6, <2>1
<1>8. /\ Len(list) \in {5, 6, 7} => S!Task = "block" /\ S!Name # "pnpm"
      /\ Len(list) = 4 => S!Task = "redirect" /\ S!Name = "npx"
      /\ Len(list) = 3 => S!Task = "volta"
      /\ Len(list) = 2 => S!Task = "global" /\ S!Name = "npm"
      /\ Len(list) = 1 => S!Task = "global" /\ S!Name = "pnpm"
  BY <1>2, <1>7
<1> QED
  BY <1>2, <1>3, <1>5, <1>8 DEF list

\* Steps that leave the files and go on with the list as it is, or with the rest of it.
LEMMA GoesOn ==
  ASSUME ShimInv, ApplyInv, applying.todo # <<>>, NEW next, NEW r, S!Goes(next, r),
         next \in {"check", "resolve", "write", "unlink"}, step # "idle",
         r.path = applying.path, r.since = applying.since, r.op = applying.op,
         r.todo \in {applying.todo, Tail(applying.todo)},
         Undisturbed =>
           /\ r.todo # applying.todo => next = "check"
           /\ r.todo = applying.todo => next # "check"
           /\ Left # 3 => r.volta = applying.volta
           /\ r.todo # applying.todo =>
                /\ Left = 3 => /\ r.volta # None <=> Reachable("volta")
                               /\ r.volta # None => S!At(r.volta) = S!Foreign
                /\ Left = 4 => LiveShim("npx")
                /\ Left = 2 => LiveShim("npm")
                /\ Left = 1 => LiveShim("pnpm")
           /\ next # "check" => S!Here = None \/ S!IsOurShim(S!Here)
           /\ next = "write" /\ S!Task \in {"redirect", "global"} =>
                /\ r.found # {} <=> Whole(S!Name)
                /\ \A t \in r.found : S!At(t) = S!Foreign
           /\ next = "unlink" => S!Task = "global" /\ S!Name = "pnpm" /\ ~Whole("pnpm")
  PROVE  ApplyInv'
<1>1. step' = next /\ applying' = r /\ UNCHANGED <<files, late, edits>>
  BY DEF S!Goes
<1>2. Undisturbed' <=> Undisturbed
  BY <1>1 DEF Undisturbed
<1>3. (applying.since <= edits)'
  BY <1>1 DEF ApplyInv
<1> SUFFICES ASSUME Undisturbed PROVE ApplyInv'
  BY <1>2, <1>3 DEF ApplyInv
<1>4. /\ Reachable("volta")' <=> Reachable("volta")
      /\ \A n : Whole(n)' <=> Whole(n)
      /\ \A n : LiveShim(n)' <=> LiveShim(n)
      /\ \A t : S!At(t)' = S!At(t)
  BY <1>1 DEF Reachable, Whole, LiveShim, S!At, S!Execs
<1>5. CASE r.todo = applying.todo
  <2>1. Left' = Left /\ S!Task' = S!Task /\ S!Name' = S!Name /\ S!Here' = S!Here
    BY <1>1, <1>5 DEF Left, S!Task, S!Name, S!Here
  <2>2. Left \in 1..7
    BY WhereItIs DEF ShimInv
  <2>3. Left <= 2 => r.volta = applying.volta
    BY <2>2
  <2> QED
    BY <1>1, <1>3, <1>4, <1>5, <2>1, <2>2, <2>3 DEF ApplyInv, OnTheList
<1>6. CASE r.todo # applying.todo
  <2>1. r.todo = Tail(applying.todo) /\ next = "check"
    BY <1>6
  <2>2. Left' = Left - 1 /\ Left \in 1..7
    BY <1>1, <2>1, WhereItIs DEF ShimInv, Left
  <2>3. \A i \in 1..Left' : applying'.todo[i] = Application[7 - Left' + i]
    BY <1>1, <2>1, <2>2, WhereItIs DEF ShimInv
  <2>4. Left' <= 2 => /\ r.volta # None <=> Reachable("volta")
                      /\ r.volta # None => S!At(r.volta) = S!Foreign
    BY <1>6, <2>2 DEF ApplyInv
  <2>5. /\ Left' <= 3 => LiveShim("npx")
        /\ Left' <= 1 => LiveShim("npm")
        /\ Left' = 0 => LiveShim("pnpm")
    BY <1>6, <2>2 DEF ApplyInv
  <2>6. /\ (applying.volta # None)' <=> r.volta # None
        /\ S!At(applying.volta)' = S!At(r.volta)
    BY <1>1 DEF S!At
  <2> QED
    <3>1. OnTheList'
      BY <1>1, <2>2, <2>3 DEF ApplyInv, OnTheList
    <3>2. step' = "check"
      BY <1>1, <2>1
    <3>3. (Left <= 2 => /\ applying.volta # None <=> Reachable("volta")
                        /\ applying.volta # None => S!At(applying.volta) = S!Foreign)'
      BY <1>4, <2>4, <2>6
    <3>4. (/\ Left <= 3 => LiveShim("npx")
           /\ Left <= 1 => LiveShim("npm")
           /\ Left = 0 => LiveShim("pnpm"))'
      BY <1>4, <2>5
    <3>6. (/\ step # "check" => Left > 0 /\ (S!Here = None \/ S!IsOurShim(S!Here))
           /\ step = "write" /\ S!Task \in {"redirect", "global"} =>
                /\ applying.found # {} <=> Whole(S!Name)
                /\ \A t \in applying.found : S!At(t) = S!Foreign
           /\ step = "unlink" => S!Task = "global" /\ S!Name = "pnpm" /\ ~Whole("pnpm"))'
      BY <3>2
    <3> QED
      BY <1>3, <3>1, <3>3, <3>4, <3>6 DEF ApplyInv
<1> QED
  BY <1>5, <1>6

LEMMA PassesOn ==
  ASSUME ShimInv, ApplyInv, applying.todo # <<>>, NEW r, S!Goes("check", r), step # "idle",
         r.path = applying.path, r.since = applying.since, r.op = applying.op,
         r.todo = Tail(applying.todo),
         Undisturbed =>
           /\ Tail(applying.todo) # applying.todo
           /\ Left # 3 => r.volta = applying.volta
           /\ Left = 3 => /\ r.volta # None <=> Reachable("volta")
                          /\ r.volta # None => S!At(r.volta) = S!Foreign
           /\ Left = 4 => LiveShim("npx")
           /\ Left = 2 => LiveShim("npm")
           /\ Left = 1 => LiveShim("pnpm")
  PROVE  ApplyInv'
  BY GoesOn

LEMMA ApplyStart == S!Init => ApplyInv
  BY DEF S!Init, S!Idle, ApplyInv, Undisturbed

\* Steps after which no undisturbed application is under way, or which only just begin one.
LEMMA NotUnderWay ==
  ASSUME ApplyInv, (applying.since <= edits)', ~Undisturbed'
  PROVE  ApplyInv'
  BY DEF ApplyInv

\* A file is put in place, or taken away: what is the user's stays, and so does what is behind.
LEMMA PutsLive ==
  ASSUME ShimInv, ApplyInv, step \in {"write", "unlink"}, NEW file \in {None} \cup ShimFile, S!Puts(file),
         applying.todo # <<>>,
         Undisturbed =>
           /\ Left # 3
           /\ Left \in {1, 2, 4} =>
                /\ Whole(S!Name) <=> file # None /\ file.kind = "redirect"
                /\ file # None => \A t \in file.to : S!At(t) = S!Foreign
  PROVE  ApplyInv'
<1>1. /\ files' = [files EXCEPT !["bin"][S!Name] = file] /\ UNCHANGED <<late, edits>>
      /\ applying' = S!Next1 /\ step' = "check"
  BY DEF S!Puts
<1>2. /\ applying'.path = applying.path /\ applying'.since = applying.since /\ applying'.op = applying.op
      /\ applying'.todo = Tail(applying.todo) /\ applying'.volta = applying.volta
  BY <1>1 DEF S!Next1, ShimInv, ShimShapes
<1>3. Undisturbed' <=> Undisturbed
  BY <1>1, <1>2 DEF Undisturbed
<1>4. (applying.since <= edits)'
  BY <1>1, <1>2 DEF ApplyInv
<1> SUFFICES ASSUME Undisturbed PROVE ApplyInv'
  BY <1>3, <1>4 DEF ApplyInv
<1>5. /\ Left \in 1..7 /\ Left' = Left - 1 /\ S!Name \in S!Names /\ S!Name \in {"npm", "pip", "npx", "pnpm"}
  BY <1>2, WhereItIs, TaskInHand DEF ShimInv, CheckedInv, S!Names, Left
<1>6. /\ \A name \in S!Names : files'["bin"][name] = IF name = S!Name THEN file ELSE files["bin"][name]
      /\ files'["away"] = files["away"]
  BY <1>1, <1>5 DEF ShimInv, ShimShapes, S!Dirs
<1>7. file # S!Foreign /\ files["bin"][S!Name] # S!Foreign
  <2>1. file # S!Foreign
    BY NoneApart
  <2>2. S!Here = None \/ S!IsOurShim(S!Here)
    BY DEF ApplyInv
  <2>3. ~S!IsOurShim(S!Foreign)
    BY DEF S!IsOurShim, S!Foreign
  <2> QED
    BY <2>1, <2>2, <2>3, NoneApart DEF S!Here
<1>8. \A dir \in S!Dirs, name \in S!Names : files'[dir][name] = S!Foreign <=> files[dir][name] = S!Foreign
  BY <1>6, <1>7 DEF S!Dirs
<1>9. OnTheList'
  BY <1>2, <1>5, WhereItIs DEF ShimInv, ApplyInv, OnTheList
<1>10. \A i \in DOMAIN applying.path : S!Real(applying.path[i]) \in S!Dirs
  BY PathEntries DEF ApplyInv, OnTheList
<1>11. \A name \in S!Names : Reachable(name)' <=> Reachable(name)
  BY <1>2, <1>8, <1>10 DEF Reachable
<1>12. \A name \in S!Names : Whole(name)' <=> Whole(name)
  BY <1>11 DEF Whole, Needs, S!Names
<1>13. \A t \in Place : S!At(t)' = S!Foreign <=> S!At(t) = S!Foreign
  <2> TAKE t \in Place
  <2>1. t.name \in S!Names /\ S!Real(t.dir) \in S!Dirs
    BY DEF Place, S!Real, S!Dirs
  <2> QED
    BY <1>8, <2>1 DEF S!At
<1>14. ASSUME NEW name \in S!Names, name # S!Name, LiveShim(name) PROVE LiveShim(name)'
  <2>1. files'["bin"][name] = files["bin"][name]
    BY <1>6, <1>14
  <2> DEFINE place == [dir |-> "bin", name |-> name]
  <2>2. S!Execs(place)' = S!Execs(place)
    BY <2>1 DEF S!Execs, S!At, S!Real
  <2>3. S!Execs(place) \subseteq Place
    <3>1. \A p \in S!Execs(place) : p \in [dir : S!Dirs, name : Targeted(name)]
      BY ExecsAre DEF S!Dirs
    <3>2. Targeted(name) \subseteq S!Names
      BY DEF Targeted, S!Names
    <3> QED
      BY <3>1, <3>2 DEF Place, S!Dirs
  <2> QED
    BY <1>12, <1>13, <1>14, <2>1, <2>2, <2>3 DEF LiveShim
<1>15. ASSUME Left \in {1, 2, 4}, NEW n \in S!Names, n = S!Name PROVE LiveShim(n)'
  <2> DEFINE place == [dir |-> "bin", name |-> n]
  <2>1. S!At(place)' = file /\ S!Real("bin") = "bin"
    BY <1>5, <1>6, <1>15 DEF S!At, S!Real
  <2>2. Whole(n)' <=> file # None /\ file.kind = "redirect"
    BY <1>5, <1>12, <1>15
  <2>3. CASE file = None
    <3>1. S!Execs(place)' = {}
      BY <2>1, <2>3 DEF S!Execs
    <3> QED
      BY <1>5, <1>6, <1>15, <2>1, <2>2, <2>3, <3>1 DEF LiveShim
  <2>4. CASE file # None
    <3> DEFINE to == file.to
    <3>1. S!Execs(place)' = {[dir |-> S!Real(t.dir), name |-> t.name] : t \in to}
      BY <2>1, <2>4 DEF S!Execs
    <3>2. ASSUME NEW t \in to PROVE S!At([dir |-> S!Real(t.dir), name |-> t.name])' = S!Foreign
      <4>1. t \in Place /\ S!At(t) = S!Foreign
        BY <1>15, <2>4 DEF ShimFile
      <4>2. S!At(t)' = S!Foreign
        BY <1>13, <4>1
      <4> QED
        BY <4>2 DEF S!At, S!Real
    <3>3. files'["bin"][n] = file
      BY <1>5, <1>6, <1>15
    <3> HIDE DEF to, place
    <3>4. \A p \in S!Execs(place)' : S!At(p)' = S!Foreign
      BY <3>1, <3>2
    <3> QED
      BY <2>2, <3>3, <3>4 DEF LiveShim, place
  <2> QED
    BY <2>3, <2>4
<1>16. (Left <= 3 => LiveShim("npx"))'
  BY <1>5, <1>14, <1>15, WhereItIs DEF ShimInv, ApplyInv, S!Names
<1>17. (Left <= 1 => LiveShim("npm"))'
  BY <1>5, <1>14, <1>15, WhereItIs DEF ShimInv, ApplyInv, S!Names
<1>18. (Left = 0 => LiveShim("pnpm"))'
  BY <1>5, <1>14, <1>15, WhereItIs DEF ShimInv, ApplyInv, S!Names
<1>19. (Left <= 2 => /\ applying.volta # None <=> Reachable("volta")
                     /\ applying.volta # None => S!At(applying.volta) = S!Foreign)'
  <2>1. applying.volta # None => applying.volta \in Place
    BY DEF ShimInv, ShimShapes, Place, S!Names
  <2>2. Reachable("volta")' <=> Reachable("volta")
    BY <1>11 DEF S!Names
  <2>3. applying.volta # None /\ S!At(applying.volta) = S!Foreign => S!At(applying.volta)' = S!Foreign
    BY <1>2, <1>13, <2>1 DEF S!At
  <2> QED
    BY <1>2, <1>5, <2>2, <2>3 DEF ApplyInv
<1> QED
  BY <1>1, <1>4, <1>9, <1>16, <1>17, <1>18, <1>19 DEF ApplyInv

\* Resolving the name in hand answers whether its targets can be run.
LEMMA TargetsAreWhole ==
  ASSUME ShimInv, ApplyInv, Undisturbed, applying.todo # <<>>, Left \in {1, 2, 4}
  PROVE  /\ S!Targets # {} <=> Whole(S!Name)
         /\ \A t \in S!Targets : S!At(t) = S!Foreign
<1> DEFINE pnpm == S!RealBinary("pnpm", applying.path)
           volta == applying.volta
<1>1. applying.path \in S!Paths
  BY DEF ApplyInv, OnTheList
<1>2. /\ pnpm # None <=> Reachable("pnpm")
      /\ pnpm # None => S!At(pnpm) = S!Foreign
  BY <1>1, ForeignIsResolved, ResolvedIsForeign DEF ShimInv, S!Names, Reachable
<1>3. Left <= 2 => /\ volta # None <=> Reachable("volta")
                   /\ volta # None => S!At(volta) = S!Foreign
  BY DEF ApplyInv
<1>4. S!Targets = LET wants == CASE S!Task = "block" -> {} [] S!Task = "redirect" -> {pnpm}
                                 [] S!Name = "npm" -> {volta} [] OTHER -> {volta, pnpm}
                  IN  IF None \in wants THEN {} ELSE wants
  BY DEF S!Targets
<1> HIDE DEF pnpm, volta
<1>5. CASE Left = 4
  <2>1. S!Task = "redirect" /\ S!Name = "npx"
    BY <1>5, WhereItIs DEF ShimInv
  <2> QED
    BY <1>2, <1>4, <2>1 DEF Whole, Needs
<1>6. CASE Left = 2
  <2>1. S!Task = "global" /\ S!Name = "npm"
    BY <1>6, WhereItIs DEF ShimInv
  <2> QED
    BY <1>3, <1>4, <1>6, <2>1 DEF Whole, Needs
<1>7. CASE Left = 1
  <2>1. S!Task = "global" /\ S!Name = "pnpm"
    BY <1>7, WhereItIs DEF ShimInv
  <2> QED
    BY <1>2, <1>3, <1>4, <1>7, <2>1 DEF Whole, Needs
<1> QED
  BY <1>5, <1>6, <1>7

LEMMA ApplyStep == ShimInv /\ ApplyInv /\ [S!Next]_shimVars => ApplyInv'
<1> SUFFICES ASSUME ShimInv, ApplyInv, [S!Next]_shimVars PROVE ApplyInv'
  OBVIOUS
<1>1. ASSUME NEW opName, NEW path, NEW tasks, S!Begin(opName, path, tasks)
      PROVE  /\ step' = "check" /\ UNCHANGED <<files, edits>> /\ applying'.op = opName
             /\ applying'.path = path /\ applying'.todo = tasks /\ (applying.since <= edits)'
  BY <1>1 DEF S!Begin, S!Idle, ShimInv, ShimShapes
<1>2. ASSUME NEW path \in S!Paths, S!Apply(path) PROVE ApplyInv'
  <2>1. /\ step' = "check" /\ (applying.since <= edits)' /\ applying'.path = path
        /\ applying'.todo = Application
    BY <1>1, <1>2, TheApplication DEF S!Apply
  <2>2. Left' = 7 /\ \A i \in 1..7 : Application[i] = Application[7 - 7 + i]
    BY <2>1 DEF Left, Application
  <2>3. OnTheList'
    BY <2>1, <2>2 DEF OnTheList
  <2> QED
    BY <2>1, <2>2, <2>3 DEF ApplyInv
<1>3. CASE S!Remove \/ S!Launch
  <2>1. (applying.since <= edits)' /\ applying'.op # "apply"
    BY <1>1, <1>3 DEF S!Remove, S!Launch
  <2> QED
    BY <2>1 DEF ApplyInv, Undisturbed
<1>4. CASE S!Ends
  BY <1>4 DEF S!Ends, S!Idle, ShimInv, ShimShapes, ApplyInv, Undisturbed
<1>5. ASSUME NEW dir \in S!Dirs, NEW name \in {"npm", "pnpm", "volta"}, S!Install(dir, name)
      PROVE  ApplyInv'
  BY <1>5 DEF S!Install, ShimInv, ShimShapes, ApplyInv, Undisturbed
<1>6. /\ S!Next1.path = applying.path /\ S!Next1.since = applying.since /\ S!Next1.op = applying.op
      /\ S!Next1.todo = Tail(applying.todo) /\ S!Next1.volta = applying.volta
      /\ DOMAIN S!Next1 = DOMAIN applying
  BY DEF S!Next1, ShimInv, ShimShapes
<1>7. ASSUME applying.todo # <<>>, Undisturbed
      PROVE  /\ Left \in 1..7 /\ S!Task \in {"block", "redirect", "volta", "global"}
             /\ Tail(applying.todo) # applying.todo
             /\ Left = 3 <=> S!Task = "volta"
             /\ S!Task \in {"redirect", "global"} => Left \in {1, 2, 4}
             /\ S!Task = "block" => Left \in {5, 6, 7} /\ S!Name # "pnpm"
  <2>1. /\ Left \in 1..7 /\ Len(Tail(applying.todo)) = Left - 1
        /\ Left \in {5, 6, 7} => S!Task = "block" /\ S!Name # "pnpm"
        /\ Left = 4 => S!Task = "redirect"
        /\ Left = 3 => S!Task = "volta"
        /\ Left \in {1, 2} => S!Task = "global"
    BY <1>7, WhereItIs DEF ShimInv
  <2>2. Len(Tail(applying.todo)) # Len(applying.todo)
    BY <2>1 DEF Left
  <2>3. Left \in {1, 2} \/ Left = 3 \/ Left = 4 \/ Left \in {5, 6, 7}
    BY <2>1
  <2> QED
    BY <2>1, <2>2, <2>3
<1>8. CASE S!Check
  <2>1. step = "check" /\ applying.todo # <<>>
    BY <1>8 DEF S!Check
  <2> DEFINE ours == S!IsOurShim(S!Here)
  <2>2. CASE S!Task = "volta" /\ S!Goes("check", [S!Next1 EXCEPT !.volta = S!RealBinary("volta", applying.path)])
    <3> DEFINE found == S!RealBinary("volta", applying.path)
               r == [S!Next1 EXCEPT !.volta = found]
    <3>1. Undisturbed => /\ found # None <=> Reachable("volta")
                         /\ found # None => S!At(found) = S!Foreign
      BY ForeignIsResolved, ResolvedIsForeign DEF ShimInv, ApplyInv, OnTheList, S!Names, Reachable
    <3> HIDE DEF found
    <3>2. /\ r.path = applying.path /\ r.since = applying.since /\ r.op = applying.op
          /\ r.todo = Tail(applying.todo) /\ r.volta = found
      BY <1>6 DEF ShimInv, ShimShapes
    <3>3. S!Goes("check", r)
      BY <2>2 DEF found
    <3>4. Undisturbed => Left = 3 /\ Tail(applying.todo) # applying.todo
      BY <1>7, <2>1, <2>2
    <3> HIDE DEF r
    <3> QED
      BY <2>1, <3>1, <3>2, <3>3, <3>4, PassesOn
  <2>3. CASE S!Goes("check", S!Next1) /\ S!Here # None /\ ~ours /\ S!Task # "volta"
    <3>1. S!Here = S!Foreign
      BY <2>1, <2>3, TaskInHand, ForeignOrOurs DEF ShimInv, ShimShapes, S!Here, S!Dirs
    <3>2. LiveShim(S!Name)
      BY <3>1 DEF LiveShim, S!Here
    <3>3. Undisturbed => /\ Left = 4 => LiveShim("npx")
                         /\ Left = 2 => LiveShim("npm")
                         /\ Left = 1 => LiveShim("pnpm")
      BY <2>1, <3>2, WhereItIs DEF ShimInv
    <3> QED
      BY <1>6, <1>7, <2>1, <2>3, <3>3, GoesOn
  <2>4. CASE S!Task \in {"remove", "renew"} /\ ~Undisturbed
    <3> DEFINE old == [applying EXCEPT !.found = S!Here.to]
    <3>1. old.path = applying.path /\ old.since = applying.since /\ old.op = applying.op /\ old.todo = applying.todo
      BY DEF ShimInv, ShimShapes
    <3>2. \E r \in {applying, S!Next1, old}, next \in {"check", "unlink", "write"} : S!Goes(next, r)
      BY <1>8, <2>4 DEF S!Check
    <3> HIDE DEF old
    <3>3. \A r \in {applying, S!Next1, old} : r.since = applying.since /\ r.op = applying.op
      BY <1>6, <3>1
    <3> QED
      BY <2>1, <2>4, <3>2, <3>3 DEF S!Goes, ApplyInv, Undisturbed
  <2>5. CASE S!Task \in {"block", "redirect", "global"} /\ (S!Here = None \/ ours) /\ S!Goes("resolve", applying)
    BY <2>1, <2>5, GoesOn
  <2> QED
    BY <1>7, <1>8, <2>1, <2>2, <2>3, <2>4, <2>5, TaskInHand DEF ShimInv, S!Check
<1>9. CASE S!Resolve
  <2>1. step = "resolve" /\ applying.todo # <<>> /\ S!Task \in {"block", "redirect", "global"}
    BY <1>9 DEF S!Resolve, ShimInv, CheckedInv
  <2>2. Undisturbed => S!Here = None \/ S!IsOurShim(S!Here)
    BY <2>1 DEF ApplyInv
  <2>3. Undisturbed /\ S!Task # "block" =>
          /\ S!Targets # {} <=> Whole(S!Name)
          /\ \A t \in S!Targets : S!At(t) = S!Foreign
    BY <1>7, <2>1, TargetsAreWhole
  <2>4. CASE S!Name = "pnpm" /\ S!Targets = {} /\ S!IsOurShim(S!Here) /\ S!Goes("unlink", applying)
    <3>1. S!Task = "global"
      BY <2>1, <2>4, TaskInHand DEF ShimInv
    <3>2. Undisturbed => ~Whole("pnpm")
      BY <2>3, <2>4, <3>1
    <3> QED
      BY <2>1, <2>2, <2>4, <3>1, <3>2, GoesOn
  <2>5. CASE S!Name = "pnpm" /\ S!Targets = {} /\ ~S!IsOurShim(S!Here) /\ S!Goes("check", S!Next1)
    <3>1. Undisturbed => S!Here = None /\ ~Whole("pnpm") /\ Left = 1
      BY <1>7, <2>1, <2>2, <2>3, <2>5, WhereItIs DEF ShimInv
    <3>2. Undisturbed => LiveShim("pnpm")
      <4>1. S!At([dir |-> "bin", name |-> "pnpm"]) = files["bin"]["pnpm"]
        BY DEF S!At, S!Real
      <4> QED
        BY <2>5, <3>1, <4>1 DEF LiveShim, S!Here, S!Execs
    <3>3. Undisturbed => Tail(applying.todo) # applying.todo
      BY <1>7, <2>1
    <3> QED
      BY <1>6, <2>1, <2>5, <3>1, <3>2, <3>3, PassesOn
  <2>6. CASE S!Goes("write", [applying EXCEPT !.found = S!Targets])
    <3> DEFINE to == S!Targets
               r == [applying EXCEPT !.found = to]
    <3>1. /\ r.path = applying.path /\ r.since = applying.since /\ r.op = applying.op
          /\ r.todo = applying.todo /\ r.volta = applying.volta /\ r.found = to
      BY DEF ShimInv, ShimShapes
    <3>2. S!Goes("write", r)
      BY <2>6
    <3>3. Undisturbed /\ S!Task # "block" =>
            /\ to # {} <=> Whole(S!Name)
            /\ \A t \in to : S!At(t) = S!Foreign
      BY <2>3
    <3> HIDE DEF to, r
    <3> QED
      BY <2>1, <2>2, <3>1, <3>2, <3>3, GoesOn
  <2> QED
    BY <1>9, <2>4, <2>5, <2>6 DEF S!Resolve
<1>10. CASE S!Write
  <2>1. MayRun(S!Name, applying.found) /\ step = "write" /\ applying.todo # <<>> /\ S!Puts(S!Body)
    BY <1>10 DEF S!Write, ShimInv, CheckedInv
  <2>2. /\ S!Body \in ShimFile /\ S!Body.to = applying.found
        /\ S!Body.kind = "redirect" <=> applying.found # {}
    BY <2>1, NoneApart DEF S!Body, MayRun, S!Redirect, S!Block
  <2>3. S!Body # None
    BY <2>2, NoneApart
  <2>4. Undisturbed /\ S!Task \in {"redirect", "global"} =>
            /\ applying.found # {} <=> Whole(S!Name)
            /\ \A t \in applying.found : S!At(t) = S!Foreign
    BY <2>1 DEF ApplyInv
  <2>5. Undisturbed => Left # 3
    BY <1>7, <2>1, TaskInHand DEF ShimInv, CheckedInv
  <2>6. Undisturbed /\ Left \in {1, 2, 4} => S!Task \in {"redirect", "global"}
    BY <1>7, <2>1
  <2> QED
    BY <2>1, <2>2, <2>3, <2>4, <2>5, <2>6, PutsLive
<1>11. CASE S!Unlink
  <2>1. step = "unlink" /\ applying.todo # <<>> /\ S!Puts(None)
    BY <1>11 DEF S!Unlink, ShimInv, CheckedInv
  <2>2. Undisturbed => S!Name = "pnpm" /\ ~Whole("pnpm") /\ S!Task = "global"
    BY <2>1 DEF ApplyInv
  <2>3. Undisturbed => Left # 3
    BY <1>7, <2>1, <2>2
  <2> QED
    BY <2>1, <2>2, <2>3, PutsLive
<1>12. CASE UNCHANGED shimVars
  <2>1. UNCHANGED <<files, step, applying, late, edits>>
    BY <1>12 DEF shimVars
  <2>2. /\ Undisturbed' <=> Undisturbed
        /\ Left' = Left /\ S!Task' = S!Task /\ S!Name' = S!Name /\ S!Here' = S!Here
        /\ OnTheList' <=> OnTheList
    BY <2>1 DEF Undisturbed, OnTheList, Left, S!Task, S!Name, S!Here
  <2>3. /\ \A n : Reachable(n)' <=> Reachable(n)
        /\ \A n : Whole(n)' <=> Whole(n)
        /\ \A n : LiveShim(n)' <=> LiveShim(n)
        /\ \A t : S!At(t)' = S!At(t)
    BY <2>1 DEF Reachable, Whole, LiveShim, S!At, S!Execs
  <2> QED
    BY <2>1, <2>2, <2>3 DEF ApplyInv
<1> QED
  BY <1>2, <1>3, <1>4, <1>5, <1>8, <1>9, <1>10, <1>11, <1>12 DEF S!Next, S!Return, S!Stop

LEMMA RedirectsLive == ShimInv /\ ApplyInv => S!RedirectsAreLive
<1> SUFFICES ASSUME ShimInv, ApplyInv, Undisturbed, applying.todo = <<>>, NEW name \in {"npx", "npm", "pnpm"}
             PROVE  \/ files["bin"][name] = S!Foreign
                    \/ /\ Whole(name) <=> files["bin"][name] # None /\ files["bin"][name].kind = "redirect"
                       /\ \A t \in S!Execs([dir |-> "bin", name |-> name]) : S!At(t) = S!Foreign
  BY DEF S!RedirectsAreLive, Undisturbed, Whole, Reachable, Needs, S!At, S!Real
<1>1. Left = 0
  BY DEF Left
<1>2. LiveShim(name)
  BY <1>1 DEF ApplyInv
<1> QED
  BY <1>2 DEF LiveShim

\* In every life of the shims, and asleep in the others.
LEMMA ShimsLive == PartsSpec => [](life = "shims" => ShimInv /\ ApplyInv)
<1>1. PartsInit => (life = "shims" => ShimInv /\ ApplyInv)
  BY ShimsStart, ApplyStart DEF PartsInit
<1>2. (life = "shims" => ShimInv /\ ApplyInv) /\ [PartsNext]_partsVars => (life = "shims" => ShimInv /\ ApplyInv)'
  BY OneLife, ShimsStep, ApplyStep
<1> QED
  BY <1>1, <1>2, PTL DEF PartsSpec

(***************************************************************************)
(* No shim of the guard runs itself, through whatever other shim and by    *)
(* whatever spelling of its directory; and after an application that       *)
(* nobody disturbed, npx, npm and pnpm are redirects exactly where their   *)
(* targets can be run, and run those (guards.py 405, 488-623).             *)
(***************************************************************************)
THEOREM ShimsAlwaysWork == PartsSpec => []ShimsWork
<1>1. (life = "shims" => ShimInv /\ ApplyInv) => ShimsWork
  BY NobodyLoops, RedirectsLive DEF ShimsWork
<1> QED
  BY <1>1, ShimsLive, PTL
-----------------------------------------------------------------------------
(***************************************************************************)
(* Daemon.                                                                 *)
(***************************************************************************)
Contents == Versions \cup {None}
FilesOf  == [D!Files -> Contents]
Host == [file : FilesOf, link : BOOLEAN, wrapper : BOOLEAN, log : BOOLEAN, marker : BOOLEAN,
         utf8 : BOOLEAN, loaded : FilesOf, running : BOOLEAN, rival : {"none", "running", "disabled"}]
Plains == IF os = "mac" THEN {"wrapper", "log", "unwrap", "unlog", "record", "bootout", "bootstrap"}
          ELSE {"wrapper", "log", "unwrap", "unlog", "record", "unlink", "reload", "enable",
                "restart", "disable", "stop"}
DaemonCalls == {D!Write(f, v) : f \in D!Mine, v \in Contents} \cup {D!Plain(c) : c \in Plains}
Groups == [calls : Seq(DaemonCalls) \ {<<>>}, onError : {"raise", "skip"}]

\* A Mac has no timer: no link, and nothing that runs between two of its schedules.
OneOs(h) ==
  /\ \A f \in D!Files \ D!Mine : h.file[f] = None
  /\ os = "mac" => ~h.link /\ ~h.running

Op == [kind : {"none", "apply", "remove", "reschedule"}, before : {None} \cup Host, reached : BOOLEAN,
       retried : BOOLEAN, warned : BOOLEAN, error : BOOLEAN, unrepaired : BOOLEAN]

DaemonShapes ==
  /\ os \in {"linux", "mac"} /\ host \in Host /\ OneOs(host) /\ reach \in BOOLEAN
  /\ todo \in Seq(Groups)
  /\ op \in Op /\ (at \notin {"idle"} => op.before \in Host /\ OneOs(op.before))
  /\ cache \in [value : BOOLEAN, fresh : BOOLEAN, gen : Nat]
  /\ reader \in [pc : {"idle", "probe", "store"}, gen : Nat, value : BOOLEAN]
  /\ off \in [is : BOOLEAN, warned : BOOLEAN, reached : BOOLEAN]

\* The calls of a list of groups: that some is among them, that all are of some kind, and that
\* an error of any of them is one of the change.
Has(groups, c)    == \E i \in DOMAIN groups : \E j \in DOMAIN groups[i].calls : groups[i].calls[j] = c
Within(groups, X) == \A i \in DOMAIN groups : \A j \in DOMAIN groups[i].calls : groups[i].calls[j] \in X
AllRaise(groups)  == \A i \in DOMAIN groups : groups[i].onError = "raise"

\* A timer that is registered and runs; one that does not; and what neither runs nor comes back.
Up(h)    == D!UnitsPresent(h) /\ h.link /\ h.running
Quiet(h) == ~h.running /\ (os = "mac" => h.loaded = D!NoFiles)
Down(h)  == h.file = D!NoFiles /\ ~h.link /\ (op.reached => Quiet(h))

ApplyCalls == {D!Write(f, v) : f \in D!Mine, v \in Versions}
              \cup {D!Plain(c) : c \in {"wrapper", "log", "reload", "enable", "restart"}}
DeleteCalls == {D!Write(f, None) : f \in D!Mine} \cup {D!Plain("unlink")}

\* Where a change is: what is done, or is among the calls it has left.
PhaseInv ==
  /\ at \in {"idle", "apply", "write", "register", "undo", "record", "rival", "unregister", "delete",
             "clean", "ended", "escaped"}
  /\ at \in {"idle", "ended", "rival", "escaped"} => todo = <<>>
  /\ off.is => /\ at \in {"idle", "ended"} /\ host.file = D!NoFiles /\ ~host.link
               /\ off.reached => Quiet(host)
               /\ off.warned \/ host.marker
  /\ at = "apply" =>
       /\ op.kind = "apply"
       /\ os = "linux" =>
            /\ AllRaise(todo) /\ Within(todo, ApplyCalls)
            /\ \A f \in D!Mine : host.file[f] # None \/ \E v \in Versions : Has(todo, D!Write(f, v))
            /\ host.link \/ Has(todo, D!Plain("enable"))
            /\ host.running \/ Has(todo, D!Plain("restart"))
  /\ at = "record" =>
       /\ op.kind \in {"apply", "remove"} /\ AllRaise(todo) /\ Within(todo, {D!Plain("record")})
       /\ op.kind = "apply" /\ os = "linux" => Up(host)
       /\ op.kind = "remove" => Down(host)
       /\ host.marker \/ op.warned \/ Has(todo, D!Plain("record"))
  /\ at = "escaped" =>
       /\ op.kind \in {"apply", "remove"}
       /\ op.kind = "apply" /\ os = "linux" => Up(host)
       /\ op.kind = "remove" => Down(host)
  /\ at = "rival" => os = "linux" /\ Up(host)
  /\ at = "unregister" =>
       /\ op.kind = "remove" /\ AllRaise(todo) /\ Within(todo, {D!Unregister})
       /\ Has(todo, D!Unregister) \/ (op.reached => Quiet(host))
  /\ at = "delete" =>
       /\ op.kind = "remove" /\ AllRaise(todo) /\ Within(todo, DeleteCalls) /\ (op.reached => Quiet(host))
       /\ \A f \in D!Mine : host.file[f] = None \/ Has(todo, D!Write(f, None))
       /\ host.link => Has(todo, D!Plain("unlink"))
  /\ at = "clean" => op.kind = "remove" /\ Down(host) /\ Within(todo, {D!Plain("reload"), D!Plain("unwrap")})

\* The memoised state, and a probe under way, are states the timer has had since the last change.
CacheInv ==
  /\ D!State(host) \in since /\ reader.gen <= cache.gen
  /\ cache.fresh => cache.value \in since
  /\ reader.pc = "store" /\ reader.gen = cache.gen => reader.value \in since

DaemonInv == DaemonShapes /\ PhaseInv /\ CacheInv
-----------------------------------------------------------------------------
\* What a call leaves of a host.
Did(h, c, p) ==
  /\ p \in Host /\ OneOs(p)
  /\ p.file = IF c[1] = "write" THEN [h.file EXCEPT ![c[2]] = c[3]] ELSE h.file
  /\ p.link = IF c[1] = "enable" THEN TRUE
              ELSE IF c[1] \in {"unlink", "disable", "stop"} THEN FALSE ELSE h.link
  /\ p.running = IF c[1] = "restart" THEN TRUE ELSE IF c[1] = "stop" THEN FALSE ELSE h.running
  /\ p.loaded = IF c[1] \in {"reload", "bootstrap"} THEN D!Read(h)
                ELSE IF c[1] = "bootout" THEN D!NoFiles ELSE h.loaded
  /\ p.wrapper = IF c[1] = "wrapper" THEN TRUE ELSE IF c[1] = "unwrap" THEN FALSE ELSE h.wrapper
  /\ p.log = IF c[1] = "log" THEN TRUE ELSE IF c[1] = "unlog" THEN FALSE ELSE h.log
  /\ p.marker = IF c[1] = "record" THEN TRUE ELSE h.marker
  /\ p.rival = h.rival /\ p.utf8 = h.utf8

LEMMA Performing ==
  ASSUME DaemonShapes, NEW h \in Host, OneOs(h), NEW c \in DaemonCalls
  PROVE  Did(h, c, D!Performed(h, c))
<1>1. \/ c \in {D!Write(f, v) : f \in D!Mine, v \in Contents}
      \/ \E n \in Plains : c = D!Plain(n)
  BY DEF DaemonCalls
<1>2. D!Mine \subseteq D!Files /\ os \in {"linux", "mac"}
  BY DEF D!Mine, D!Files, DaemonShapes
<1>3. D!NoFiles \in FilesOf /\ D!Read(h) \in FilesOf /\ \A f \in D!Files \ D!Mine : D!Read(h)[f] = None
  BY DEF D!NoFiles, D!Read, FilesOf, Contents, Host, OneOs
<1>4. CASE c \in {D!Write(f, v) : f \in D!Mine, v \in Contents}
  <2>1. PICK f \in D!Mine, v \in Contents : c = <<"write", f, v>>
    BY <1>4 DEF D!Write
  <2>2. D!Performed(h, c) = [h EXCEPT !.file[f] = v]
    BY <2>1 DEF D!Performed
  <2>3. [h.file EXCEPT ![f] = v] \in FilesOf
    BY <1>2, <2>1 DEF Host, FilesOf
  <2> QED
    BY <1>2, <2>1, <2>2, <2>3 DEF Host, FilesOf, OneOs, Did
<1>5. ASSUME NEW n \in Plains, c = D!Plain(n)
      PROVE  Did(h, c, D!Performed(h, c))
  <2>1. c[1] = n /\ n # "write"
    BY <1>2, <1>5 DEF D!Plain, Plains
  <2>2. n \in {"wrapper", "log", "unwrap", "unlog", "record", "unlink", "reload", "enable",
                "restart", "disable", "stop", "bootout", "bootstrap"}
        /\ (os = "mac" => n \notin {"enable", "restart"})
    BY <1>2, <1>5 DEF Plains
  <2> DEFINE readIt == D!Read(h)
             nothing == D!NoFiles
             p == D!Performed(h, c)
  <2>3. p = CASE n = "wrapper" -> [h EXCEPT !.wrapper = TRUE]
              [] n = "log"     -> [h EXCEPT !.log = TRUE]
              [] n = "unwrap"  -> [h EXCEPT !.wrapper = FALSE]
              [] n = "unlog"   -> [h EXCEPT !.log = FALSE]
              [] n \in {"unlink", "disable"} -> [h EXCEPT !.link = FALSE]
              [] n = "record"  -> [h EXCEPT !.marker = TRUE]
              [] n \in {"reload", "bootstrap"} -> [h EXCEPT !.loaded = readIt]
              [] n = "enable"  -> [h EXCEPT !.link = TRUE]
              [] n = "restart" -> [h EXCEPT !.running = TRUE]
              [] n = "stop"    -> [h EXCEPT !.link = FALSE, !.running = FALSE]
              [] n = "bootout" -> [h EXCEPT !.loaded = nothing]
    BY <2>1, <2>2 DEF D!Performed
  <2>4. readIt \in FilesOf /\ nothing \in FilesOf
    BY <1>3
  <2> HIDE DEF p, readIt, nothing
  <2>5. CASE n \in {"wrapper", "unwrap"}
    <3>1. \E b \in BOOLEAN : p = [h EXCEPT !.wrapper = b] /\ b = (n = "wrapper")
      BY <2>3, <2>5
    <3> QED
      BY <2>1, <2>5, <3>1 DEF Host, OneOs, Did, p
  <2>6. CASE n \in {"log", "unlog"}
    <3>1. \E b \in BOOLEAN : p = [h EXCEPT !.log = b] /\ b = (n = "log")
      BY <2>3, <2>6
    <3> QED
      BY <2>1, <2>6, <3>1 DEF Host, OneOs, Did, p
  <2>7. CASE n \in {"unlink", "disable", "enable"}
    <3>1. \E b \in BOOLEAN : p = [h EXCEPT !.link = b] /\ b = (n = "enable")
      BY <2>3, <2>7
    <3> QED
      BY <2>1, <2>2, <2>7, <3>1 DEF Host, OneOs, Did, p
  <2>8. CASE n = "record"
    <3>1. p = [h EXCEPT !.marker = TRUE]
      BY <2>3, <2>8
    <3> QED
      BY <2>1, <2>8, <3>1 DEF Host, OneOs, Did, p
  <2>9. CASE n \in {"reload", "bootstrap"}
    <3>1. p = [h EXCEPT !.loaded = readIt]
      BY <2>3, <2>9
    <3>2. p \in Host /\ OneOs(p)
      BY <2>4, <3>1 DEF Host, OneOs
    <3>3. p.loaded = D!Read(h)
      BY <3>1 DEF readIt, Host
    <3>4. p.file = h.file /\ p.link = h.link /\ p.running = h.running /\ p.wrapper = h.wrapper
          /\ p.log = h.log /\ p.marker = h.marker /\ p.rival = h.rival /\ p.utf8 = h.utf8
      BY <3>1 DEF Host
    <3> QED
      BY <2>1, <2>9, <3>2, <3>3, <3>4 DEF Did, p
  <2>10. CASE n = "restart"
    <3>1. p = [h EXCEPT !.running = TRUE]
      BY <2>3, <2>10
    <3> QED
      BY <2>1, <2>2, <2>10, <3>1 DEF Host, OneOs, Did, p
  <2>11. CASE n = "stop"
    <3>1. p = [h EXCEPT !.link = FALSE, !.running = FALSE]
      BY <2>3, <2>11
    <3> QED
      BY <2>1, <2>11, <3>1 DEF Host, OneOs, Did, p
  <2>12. CASE n = "bootout"
    <3>1. p = [h EXCEPT !.loaded = nothing]
      BY <2>3, <2>12
    <3>2. p \in Host /\ OneOs(p)
      BY <2>4, <3>1 DEF Host, OneOs
    <3>3. p.loaded = D!NoFiles
      BY <3>1 DEF nothing, Host
    <3>4. p.file = h.file /\ p.link = h.link /\ p.running = h.running /\ p.wrapper = h.wrapper
          /\ p.log = h.log /\ p.marker = h.marker /\ p.rival = h.rival /\ p.utf8 = h.utf8
      BY <3>1 DEF Host
    <3> QED
      BY <2>1, <2>12, <3>2, <3>3, <3>4 DEF Did, p
  <2> QED
    BY <2>2, <2>5, <2>6, <2>7, <2>8, <2>9, <2>10, <2>11, <2>12
<1> QED
  BY <1>1, <1>4, <1>5

\* Of two lists, one after the other.
LEMMA Concatenated ==
  ASSUME NEW s \in Seq(Groups), NEW t \in Seq(Groups)
  PROVE  /\ s \o t \in Seq(Groups)
         /\ \A c : Has(s \o t, c) <=> Has(s, c) \/ Has(t, c)
         /\ \A X : Within(s \o t, X) <=> Within(s, X) /\ Within(t, X)
         /\ AllRaise(s \o t) <=> AllRaise(s) /\ AllRaise(t)
<1> DEFINE u == s \o t
<1>1. u \in Seq(Groups) /\ Len(u) = Len(s) + Len(t) /\ Len(s) \in Nat /\ Len(t) \in Nat
  OBVIOUS
<1>2. \A i \in DOMAIN s : i \in DOMAIN u /\ u[i] = s[i]
  BY <1>1
<1>3. \A i \in DOMAIN t : Len(s) + i \in DOMAIN u /\ u[Len(s) + i] = t[i]
  BY <1>1
<1>4. \A i \in DOMAIN u : i \in DOMAIN s \/ (i - Len(s) \in DOMAIN t /\ u[i] = t[i - Len(s)])
  BY <1>1
<1> HIDE DEF u
<1>5. \A c : Has(u, c) <=> Has(s, c) \/ Has(t, c)
  BY <1>2, <1>3, <1>4 DEF Has
<1>6. \A X : Within(u, X) <=> Within(s, X) /\ Within(t, X)
  BY <1>2, <1>3, <1>4 DEF Within
<1>7. AllRaise(u) <=> AllRaise(s) /\ AllRaise(t)
  BY <1>2, <1>3, <1>4 DEF AllRaise
<1> QED
  BY <1>1, <1>5, <1>6, <1>7 DEF u

\* A call is made, or what is left of its group is dropped.
LEMMA Advanced ==
  ASSUME NEW s \in Seq(Groups), s # <<>>
  PROVE  LET c == Head(Head(s).calls) IN
         /\ c \in DaemonCalls /\ Head(s) \in Groups /\ Has(s, c) /\ \A X : Within(s, X) => c \in X
         /\ AllRaise(s) => Head(s).onError = "raise"
         /\ \A t \in {D!AfterCall(s), Tail(s)} :
              /\ t \in Seq(Groups)
              /\ \A X : Within(s, X) => Within(t, X)
              /\ AllRaise(s) => AllRaise(t)
         /\ \A d : Has(s, d) => d = c \/ Has(D!AfterCall(s), d)
<1> DEFINE g == s[1]
           rest == Tail(s)
           short == [s EXCEPT ![1].calls = Tail(@)]
           c == Head(g.calls)
<1>1. /\ Head(s) = g /\ g \in Groups /\ Len(s) \in Nat /\ Len(s) > 0 /\ rest \in Seq(Groups)
      /\ Len(rest) = Len(s) - 1 /\ \A i \in 1..Len(s) - 1 : rest[i] = s[i + 1]
  BY Suffix
<1>2. /\ g.calls \in Seq(DaemonCalls) /\ g.calls # <<>> /\ g.onError \in {"raise", "skip"}
      /\ g = [calls |-> g.calls, onError |-> g.onError]
  BY <1>1 DEF Groups
<1>3. /\ c \in DaemonCalls /\ Tail(g.calls) \in Seq(DaemonCalls) /\ c = g.calls[1]
      /\ Len(g.calls) \in Nat /\ Len(g.calls) > 0 /\ Len(Tail(g.calls)) = Len(g.calls) - 1
      /\ \A i \in 1..Len(g.calls) - 1 : Tail(g.calls)[i] = g.calls[i + 1]
  BY <1>2, Suffix
<1>4. DOMAIN s = 1..Len(s) /\ DOMAIN g.calls = 1..Len(g.calls) /\ DOMAIN rest = 1..Len(rest)
      /\ DOMAIN Tail(g.calls) = 1..Len(Tail(g.calls))
  BY <1>1, <1>2, <1>3
<1>5. 1 \in DOMAIN s /\ 1 \in DOMAIN g.calls
  BY <1>1, <1>3, <1>4
<1>6. \A i \in DOMAIN rest : i + 1 \in DOMAIN s /\ rest[i] = s[i + 1]
  BY <1>1, <1>4
<1>7. \A i \in DOMAIN s : i = 1 \/ (i - 1 \in DOMAIN rest /\ rest[i - 1] = s[i])
  BY <1>1, <1>4
<1>8. \A i \in DOMAIN Tail(g.calls) : i + 1 \in DOMAIN g.calls /\ Tail(g.calls)[i] = g.calls[i + 1]
  BY <1>3, <1>4
<1>9. \A i \in DOMAIN g.calls : i = 1 \/ (i - 1 \in DOMAIN Tail(g.calls) /\ Tail(g.calls)[i - 1] = g.calls[i])
  BY <1>3, <1>4
<1>10. /\ DOMAIN short = DOMAIN s /\ \A i \in DOMAIN s \ {1} : short[i] = s[i]
       /\ short[1].calls = Tail(g.calls) /\ short[1].onError = g.onError
       /\ short[1] = [g EXCEPT !.calls = Tail(g.calls)]
  BY <1>2, <1>5
<1>12. D!AfterCall(s) = IF Len(g.calls) = 1 THEN rest ELSE short
  BY DEF D!AfterCall
<1>20. g = s[1] /\ c = Head(g.calls)
  OBVIOUS
<1> HIDE DEF c, rest, short, g
<1>11. Len(g.calls) # 1 => short \in Seq(Groups)
  <2> SUFFICES ASSUME Len(g.calls) # 1 PROVE short \in Seq(Groups)
    OBVIOUS
  <2>1. Tail(g.calls) # <<>>
    <3>1. Len(Tail(g.calls)) # 0
      BY <1>3
    <3>2. Len(<<>>) = 0
      OBVIOUS
    <3> QED
      BY <3>1, <3>2
  <2>2. short[1] \in Groups
    BY <1>2, <1>3, <1>10, <2>1 DEF Groups
  <2>3. \A i \in DOMAIN s : short[i] \in Groups
    BY <1>10, <2>2
  <2> QED
    <3>1. DOMAIN short = 1..Len(s) /\ \A i \in 1..Len(s) : short[i] \in Groups
      BY <1>4, <1>10, <2>3
    <3>2. short = [i \in 1..Len(s) |-> short[i]]
      BY <1>4 DEF short
    <3> QED
      BY <1>1, <3>1, <3>2
<1>13. Has(s, c) /\ \A X : Within(s, X) => c \in X
  BY <1>3, <1>5 DEF Has, Within, g
<1>14. AllRaise(s) => g.onError = "raise" /\ AllRaise(rest) /\ AllRaise(short)
  <2> SUFFICES ASSUME AllRaise(s) PROVE g.onError = "raise" /\ AllRaise(rest) /\ AllRaise(short)
    OBVIOUS
  <2>1. \A i \in DOMAIN s : s[i].onError = "raise"
    BY DEF AllRaise
  <2>2. g.onError = "raise"
    BY <1>5, <1>20, <2>1
  <2>3. \A i \in DOMAIN s : short[i].onError = "raise"
    BY <1>10, <2>1, <2>2
  <2> QED
    BY <1>6, <1>10, <2>1, <2>2, <2>3 DEF AllRaise
<1>15. \A X : Within(s, X) => Within(rest, X)
  BY <1>6 DEF Within
<1>16. ASSUME NEW X, Within(s, X) PROVE Within(short, X)
  <2>1. \A j \in DOMAIN g.calls : g.calls[j] \in X
    BY <1>5, <1>16 DEF Within, g
  <2>2. \A j \in DOMAIN Tail(g.calls) : Tail(g.calls)[j] \in X
    BY <1>8, <2>1
  <2> QED
    BY <1>10, <1>16, <2>2 DEF Within
<1>17. ASSUME NEW d, Has(s, d), d # c PROVE Has(D!AfterCall(s), d)
  <2>1. PICK i \in DOMAIN s : \E j \in DOMAIN s[i].calls : s[i].calls[j] = d
    BY <1>17 DEF Has
  <2>2. CASE i = 1
    <3>1. PICK j \in DOMAIN g.calls : g.calls[j] = d
      BY <2>1, <2>2 DEF g
    <3>2. j # 1
      BY <1>3, <1>17, <3>1
    <3>3. Len(g.calls) # 1
      BY <1>4, <3>1, <3>2
    <3>4. \E k \in DOMAIN Tail(g.calls) : Tail(g.calls)[k] = d
      BY <1>9, <3>1, <3>2
    <3>5. Has(short, d)
      <4>1. 1 \in DOMAIN short /\ \E k \in DOMAIN short[1].calls : short[1].calls[k] = d
        BY <1>5, <1>10, <3>4
      <4> QED
        BY <4>1 DEF Has
    <3> QED
      BY <1>12, <3>3, <3>5
  <2>3. CASE i # 1
    <3>1. Has(rest, d)
      BY <1>7, <2>1, <2>3 DEF Has
    <3>2. Has(short, d)
      BY <1>10, <2>1, <2>3 DEF Has
    <3> QED
      BY <1>12, <3>1, <3>2
  <2> QED
    BY <2>2, <2>3
<1> QED
  BY <1>1, <1>3, <1>11, <1>12, <1>13, <1>14, <1>15, <1>16, <1>17 DEF c, rest

LEMMA DaemonStart == D!Init => DaemonInv
<1> SUFFICES ASSUME D!Init PROVE DaemonInv
  OBVIOUS
<1>1. /\ os \in {"linux", "mac"} /\ reach = TRUE /\ at = "idle" /\ todo = <<>> /\ op = D!Idle
      /\ cache = [value |-> FALSE, fresh |-> FALSE, gen |-> 0]
      /\ reader = [pc |-> "idle", gen |-> 0, value |-> FALSE]
      /\ off = D!On /\ since = {D!State(host)}
  BY DEF D!Init
<1>2. host \in Host /\ OneOs(host)
  <2>1. CASE \E v \in Versions, up \in BOOLEAN : host = D!Installed(v, up /\ os = "linux")
    <3>1. PICK v \in Versions, up \in BOOLEAN : host = D!Installed(v, up /\ os = "linux")
      BY <2>1
    <3> DEFINE held == [f \in D!Files |-> IF f \in D!Mine THEN v ELSE None]
    <3>2. held \in FilesOf /\ \A f \in D!Files \ D!Mine : held[f] = None
      BY DEF FilesOf, Contents
    <3>3. host = [file |-> held, link |-> os = "linux", wrapper |-> TRUE, log |-> TRUE, marker |-> TRUE,
                  utf8 |-> TRUE, loaded |-> held, running |-> (up /\ os = "linux"), rival |-> "none"]
      BY <3>1 DEF D!Installed
    <3> HIDE DEF held
    <3> QED
      BY <1>1, <3>2, <3>3 DEF Host, OneOs
  <2>2. CASE \E rival \in {"none", "running"} : host = D!Fresh(IF os = "mac" THEN "none" ELSE rival)
    <3>1. D!NoFiles \in FilesOf /\ \A f \in D!Files : D!NoFiles[f] = None
      BY DEF D!NoFiles, FilesOf, Contents
    <3> DEFINE nothing == D!NoFiles
    <3>2. \E rival \in {"none", "running"} :
            host = [file |-> nothing, link |-> FALSE, wrapper |-> FALSE, log |-> FALSE, marker |-> FALSE,
                    utf8 |-> TRUE, loaded |-> nothing, running |-> FALSE, rival |-> rival]
      BY <2>2 DEF D!Fresh
    <3>3. nothing \in FilesOf /\ \A f \in D!Files : nothing[f] = None
      BY <3>1
    <3> HIDE DEF nothing
    <3> QED
      BY <1>1, <3>2, <3>3 DEF Host, OneOs
  <2> QED
    BY <2>1, <2>2 DEF D!Init
<1>3. D!Idle \in Op /\ D!On \in [is : BOOLEAN, warned : BOOLEAN, reached : BOOLEAN] /\ ~D!On.is
  BY DEF D!Idle, D!On, Op
<1>4. todo \in Seq(Groups)
  BY <1>1
<1> QED
  BY <1>1, <1>2, <1>3, <1>4 DEF DaemonInv, DaemonShapes, PhaseInv, CacheInv

\* The plans of the changes.
LEMMA Plans ==
  ASSUME DaemonShapes
  PROVE  /\ \A e \in {"raise", "skip"} : D!Register(e) \in Seq(Groups)
         /\ \A v \in Versions : D!WriteAll(v) \in Seq(Groups)
         /\ \A b \in Host : D!RestoreFiles(b) \in Seq(DaemonCalls) /\ D!RestoreFiles(b) # <<>>
         /\ D!Delete \in Seq(Groups) /\ Within(D!Delete, DeleteCalls) /\ AllRaise(D!Delete)
         /\ \A f \in D!Mine : Has(D!Delete, D!Write(f, None))
         /\ os = "linux" => Has(D!Delete, D!Plain("unlink"))
         /\ os = "linux" =>
              /\ AllRaise(D!Register("raise")) /\ Within(D!Register("raise"), ApplyCalls)
              /\ Has(D!Register("raise"), D!Plain("enable")) /\ Has(D!Register("raise"), D!Plain("restart"))
              /\ \A v \in Versions :
                   /\ AllRaise(D!WriteAll(v)) /\ Within(D!WriteAll(v), ApplyCalls)
                   /\ \A f \in D!Mine : Has(D!WriteAll(v), D!Write(f, v))
<1>1. CASE os = "mac"
  <2>1. D!Mine = {"plist"} /\ \A c \in {"wrapper", "log", "unwrap", "unlog", "record", "bootout", "bootstrap"} :
          D!Plain(c) \in DaemonCalls
    BY <1>1 DEF D!Mine, DaemonCalls, Plains
  <2>2. \A v \in Contents : D!Write("plist", v) \in DaemonCalls
    BY <2>1 DEF DaemonCalls
  <2>3. \A e \in {"raise", "skip"} : D!Register(e) \in Seq(Groups)
    BY <1>1, <2>1 DEF D!Register, D!Group, Groups
  <2>4. \A v \in Versions : D!WriteAll(v) \in Seq(Groups)
    BY <1>1, <2>1, <2>2 DEF D!WriteAll, D!Group, Groups, Contents
  <2>5. \A b \in Host : D!RestoreFiles(b) \in Seq(DaemonCalls) /\ D!RestoreFiles(b) # <<>>
    BY <1>1, <2>2 DEF D!RestoreFiles, Host, FilesOf, D!Files
  <2>6. D!Delete = <<[calls |-> <<D!Write("plist", None)>>, onError |-> "raise"]>>
    BY <1>1 DEF D!Delete, D!Group
  <2>7. D!Delete \in Seq(Groups)
    BY <2>2, <2>6 DEF Groups, Contents
  <2> QED
    BY <1>1, <2>1, <2>3, <2>4, <2>5, <2>6, <2>7 DEF Within, AllRaise, Has, DeleteCalls
<1>2. CASE os = "linux"
  <2>1. D!Mine = {"service", "timer"}
        /\ \A c \in {"wrapper", "log", "unwrap", "unlog", "record", "unlink", "reload", "enable",
                "restart", "disable", "stop"} : D!Plain(c) \in DaemonCalls
    BY <1>2 DEF D!Mine, DaemonCalls, Plains
  <2>2. \A v \in Contents : D!Write("service", v) \in DaemonCalls /\ D!Write("timer", v) \in DaemonCalls
    BY <2>1 DEF DaemonCalls
  <2>3. \A e : D!Register(e) = <<[calls |-> <<D!Plain("reload"), D!Plain("enable"), D!Plain("restart")>>,
                                  onError |-> e]>>
    BY <1>2 DEF D!Register, D!Group
  <2>4. \A v : D!WriteAll(v) = <<[calls |-> <<D!Plain("wrapper"), D!Plain("log"), D!Write("service", v),
                                              D!Write("timer", v)>>, onError |-> "raise"]>>
    BY <1>2 DEF D!WriteAll, D!Group
  <2>5. \A b \in Host : D!RestoreFiles(b) \in Seq(DaemonCalls) /\ D!RestoreFiles(b) # <<>>
    BY <1>2, <2>2 DEF D!RestoreFiles, Host, FilesOf, D!Files
  <2>6. D!Delete = <<[calls |-> <<D!Write("service", None), D!Write("timer", None), D!Plain("unlink")>>,
                      onError |-> "raise"]>>
    BY <1>2 DEF D!Delete, D!Group
  <2>7. D!Delete \in Seq(Groups)
    BY <2>1, <2>2, <2>6 DEF Groups, Contents
  <2>8. \A e \in {"raise", "skip"} : D!Register(e) \in Seq(Groups)
    <3> TAKE e \in {"raise", "skip"}
    <3> DEFINE list == <<D!Plain("reload"), D!Plain("enable"), D!Plain("restart")>>
    <3>1. list \in Seq(DaemonCalls) /\ list # <<>>
      BY <2>1
    <3>2. D!Register(e) = <<[calls |-> list, onError |-> e]>>
      BY <2>3
    <3> HIDE DEF list
    <3>3. [calls |-> list, onError |-> e] \in Groups
      BY <3>1 DEF Groups
    <3> QED
      BY <3>2, <3>3
  <2>9. \A v \in Versions : D!WriteAll(v) \in Seq(Groups)
    <3> TAKE v \in Versions
    <3> DEFINE list == <<D!Plain("wrapper"), D!Plain("log"), D!Write("service", v), D!Write("timer", v)>>
    <3>1. list \in Seq(DaemonCalls) /\ list # <<>>
      BY <2>1, <2>2 DEF Contents
    <3>2. D!WriteAll(v) = <<[calls |-> list, onError |-> "raise"]>>
      BY <2>4
    <3> HIDE DEF list
    <3>3. [calls |-> list, onError |-> "raise"] \in Groups
      BY <3>1 DEF Groups
    <3> QED
      BY <3>2, <3>3
  <2>10. Within(D!Delete, DeleteCalls) /\ AllRaise(D!Delete) /\ Has(D!Delete, D!Plain("unlink"))
         /\ \A f \in D!Mine : Has(D!Delete, D!Write(f, None))
    BY <2>1, <2>6 DEF Within, AllRaise, Has, DeleteCalls
  <2>11. /\ AllRaise(D!Register("raise")) /\ Within(D!Register("raise"), ApplyCalls)
         /\ Has(D!Register("raise"), D!Plain("enable")) /\ Has(D!Register("raise"), D!Plain("restart"))
    BY <2>3 DEF Within, AllRaise, Has, ApplyCalls
  <2>12. ASSUME NEW v \in Versions
         PROVE  /\ AllRaise(D!WriteAll(v)) /\ Within(D!WriteAll(v), ApplyCalls)
                /\ \A f \in D!Mine : Has(D!WriteAll(v), D!Write(f, v))
    BY <2>1, <2>4 DEF Within, AllRaise, Has, ApplyCalls
  <2> QED
    BY <1>2, <2>5, <2>7, <2>8, <2>9, <2>10, <2>11, <2>12
<1> QED
  BY <1>1, <1>2 DEF DaemonShapes

LEMMA Undoes ==
  ASSUME DaemonShapes, NEW b \in Host
  PROVE  /\ D!UndoApply(b) \in Seq(Groups)
         /\ \A r \in BOOLEAN : D!UndoRemove(b, r) \in Seq(Groups)
         /\ <<D!Group(D!RestoreFiles(b), "raise")>> \o D!Register("skip") \in Seq(Groups)
<1> DEFINE files0 == D!RestoreFiles(b)
           unwrap == D!If(~b.wrapper, <<D!Plain("unwrap")>>)
           unlog == D!If(~b.log, <<D!Plain("unlog")>>)
           unlink == D!If(~b.link, <<D!Plain("unlink")>>)
           again == D!Register("skip")
<1>1. files0 \in Seq(DaemonCalls) /\ files0 # <<>> /\ again \in Seq(Groups)
  BY Plans
<1>2. /\ D!Plain("unwrap") \in DaemonCalls /\ D!Plain("unlog") \in DaemonCalls
      /\ os = "linux" => \A c \in {"unlink", "reload", "disable"} : D!Plain(c) \in DaemonCalls
  BY DEF DaemonCalls, Plains
<1>3. /\ unwrap \in Seq(DaemonCalls) /\ unlog \in Seq(DaemonCalls)
      /\ os = "linux" => unlink \in Seq(DaemonCalls)
  BY <1>2 DEF D!If
<1>4. ASSUME NEW cs \in Seq(DaemonCalls), cs # <<>>, NEW e \in {"raise", "skip"}
      PROVE  D!Group(cs, e) \in Groups
  BY <1>4 DEF D!Group, Groups
<1>5. ASSUME NEW s \in Seq(DaemonCalls), NEW t \in Seq(DaemonCalls)
      PROVE  s \o t \in Seq(DaemonCalls) /\ (s # <<>> \/ t # <<>> => s \o t # <<>>)
  OBVIOUS
<1>6. D!UndoApply(b) =
        CASE D!UnitsPresent(b) /\ os = "mac" -> <<D!Group(files0, "raise")>> \o again
          [] D!UnitsPresent(b) /\ os = "linux" ->
               <<D!Group(files0, "raise"), D!Group(<<D!Plain("reload")>>, "skip")>> \o again
          [] ~D!UnitsPresent(b) /\ os = "mac" -> <<D!Group(files0 \o unwrap \o unlog, "raise")>>
          [] OTHER ->
               <<D!Group(<<D!Plain("disable")>>, "skip"), D!Group(files0 \o unlink, "skip"),
                 D!Group(<<D!Plain("reload")>>, "skip")>>
               \o D!If(~b.wrapper \/ ~b.log, <<D!Group(unwrap \o unlog, "raise")>>)
  BY DEF D!UndoApply
<1>7. ~b.wrapper \/ ~b.log => unwrap \o unlog # <<>>
  <2>1. ~b.wrapper => unwrap # <<>>
    BY DEF D!If
  <2>2. ~b.log => unlog # <<>>
    BY DEF D!If
  <2> HIDE DEF unwrap, unlog
  <2> QED
    BY <1>3, <1>5, <2>1, <2>2
<1> HIDE DEF files0, unwrap, unlog, unlink, again
<1>8. files0 \o unwrap \o unlog \in Seq(DaemonCalls) /\ files0 \o unwrap \o unlog # <<>>
  <2>1. files0 \o unwrap \in Seq(DaemonCalls) /\ files0 \o unwrap # <<>>
    BY <1>1, <1>3, <1>5
  <2> QED
    BY <1>3, <1>5, <2>1
<1>9. os = "linux" => files0 \o unlink \in Seq(DaemonCalls) /\ files0 \o unlink # <<>>
  BY <1>1, <1>3, <1>5
<1>10. <<D!Group(files0, "raise")>> \in Seq(Groups) /\ <<D!Group(files0 \o unwrap \o unlog, "raise")>> \in Seq(Groups)
  <2>1. D!Group(files0, "raise") \in Groups /\ D!Group(files0 \o unwrap \o unlog, "raise") \in Groups
    BY <1>1, <1>4, <1>8
  <2> QED
    BY <2>1
<1>11. os = "linux" =>
         /\ <<D!Group(files0, "raise"), D!Group(<<D!Plain("reload")>>, "skip")>> \in Seq(Groups)
         /\ <<D!Group(<<D!Plain("disable")>>, "skip"), D!Group(files0 \o unlink, "skip"),
              D!Group(<<D!Plain("reload")>>, "skip")>> \in Seq(Groups)
         /\ D!If(~b.wrapper \/ ~b.log, <<D!Group(unwrap \o unlog, "raise")>>) \in Seq(Groups)
  <2> SUFFICES ASSUME os = "linux"
               PROVE  /\ <<D!Group(files0, "raise"), D!Group(<<D!Plain("reload")>>, "skip")>> \in Seq(Groups)
                      /\ <<D!Group(<<D!Plain("disable")>>, "skip"), D!Group(files0 \o unlink, "skip"),
                           D!Group(<<D!Plain("reload")>>, "skip")>> \in Seq(Groups)
                      /\ D!If(~b.wrapper \/ ~b.log, <<D!Group(unwrap \o unlog, "raise")>>) \in Seq(Groups)
    OBVIOUS
  <2>1. D!Group(files0, "raise") \in Groups /\ D!Group(files0 \o unlink, "skip") \in Groups
    BY <1>1, <1>4, <1>9
  <2>2. D!Group(<<D!Plain("reload")>>, "skip") \in Groups /\ D!Group(<<D!Plain("disable")>>, "skip") \in Groups
    <3>1. \A c \in DaemonCalls : <<c>> \in Seq(DaemonCalls) /\ <<c>> # <<>>
      OBVIOUS
    <3> QED
      BY <1>2, <1>4, <3>1
  <2>3. ~b.wrapper \/ ~b.log => D!Group(unwrap \o unlog, "raise") \in Groups
    BY <1>3, <1>4, <1>5, <1>7
  <2> QED
    BY <2>1, <2>2, <2>3 DEF D!If
<1>12. D!UndoApply(b) \in Seq(Groups)
  BY <1>1, <1>6, <1>10, <1>11, Concatenated DEF DaemonShapes
<1>13. <<D!Group(files0, "raise")>> \o again \in Seq(Groups)
  BY <1>1, <1>10, Concatenated
<1>14. ASSUME NEW r \in BOOLEAN PROVE D!UndoRemove(b, r) \in Seq(Groups)
  <2>1. D!UndoRemove(b, r) = IF os = "mac" THEN again
                             ELSE <<D!Group(files0, "raise")>> \o (IF r THEN again ELSE <<>>)
    BY DEF D!UndoRemove, again, files0
  <2>2. <<>> \in Seq(Groups)
    OBVIOUS
  <2> QED
    BY <1>1, <1>10, <2>1, <2>2, Concatenated
<1> QED
  BY <1>12, <1>13, <1>14 DEF files0, again
-----------------------------------------------------------------------------
\* The definitions that only tell the system apart.
LEMMA SameOs ==
  ASSUME os' = os
  PROVE  /\ Groups' = Groups /\ D!Mine' = D!Mine /\ DaemonCalls' = DaemonCalls
         /\ D!Unregister' = D!Unregister /\ ApplyCalls' = ApplyCalls /\ DeleteCalls' = DeleteCalls
<1>1. D!Mine' = D!Mine /\ Plains' = Plains
  BY DEF D!Mine, Plains
<1>2. DaemonCalls' = DaemonCalls /\ ApplyCalls' = ApplyCalls /\ DeleteCalls' = DeleteCalls
  BY <1>1 DEF DaemonCalls, ApplyCalls, DeleteCalls
<1> QED
  BY <1>1, <1>2 DEF Groups, D!Unregister

LEMMA StillShaped ==
  ASSUME DaemonShapes, os' = os, host' \in Host, OneOs(host)', reach' \in BOOLEAN, todo' \in Seq(Groups),
         op' \in Op, at' # "idle" => op'.before \in Host /\ OneOs(op.before)',
         cache' \in [value : BOOLEAN, fresh : BOOLEAN, gen : Nat],
         reader' \in [pc : {"idle", "probe", "store"}, gen : Nat, value : BOOLEAN],
         off' \in [is : BOOLEAN, warned : BOOLEAN, reached : BOOLEAN]
  PROVE  DaemonShapes'
<1>1. todo' \in Seq(Groups')
  BY SameOs
<1> QED
  BY <1>1 DEF DaemonShapes

\* What begins, and what it begins with.
LEMMA Begins ==
  ASSUME DaemonShapes, NEW kind \in {"apply", "remove", "reschedule"}, NEW next, NEW groups \in Seq(Groups),
         next # "idle", D!Start(kind, next, groups)
  PROVE  /\ DaemonShapes' /\ at' = next /\ todo' = groups /\ ~off'.is
         /\ op'.kind = kind /\ op'.before = host /\ op'.reached /\ ~op'.warned /\ ~op'.error /\ ~op'.unrepaired
         /\ UNCHANGED <<os, host, cache, reader, since>>
<1>1. /\ at' = next /\ todo' = groups /\ op' = [D!Idle EXCEPT !.kind = kind, !.before = host]
      /\ off' = D!On /\ UNCHANGED <<os, host, reach, cache, reader, since>>
  BY DEF D!Start, D!Rest
<1>2. /\ op' = [kind |-> kind, before |-> host, reached |-> TRUE, retried |-> FALSE,
                warned |-> FALSE, error |-> FALSE, unrepaired |-> FALSE]
      /\ off' = [is |-> FALSE, warned |-> FALSE, reached |-> TRUE]
  BY <1>1 DEF D!Idle, D!On
<1>3. op' \in Op /\ op'.before = host
  BY <1>2 DEF Op, DaemonShapes
<1> QED
  <2>1. OneOs(host)' /\ OneOs(op.before)'
    BY <1>1, <1>3, SameOs DEF DaemonShapes, OneOs
  <2>2. host' \in Host /\ reach' \in BOOLEAN /\ off' \in [is : BOOLEAN, warned : BOOLEAN, reached : BOOLEAN]
        /\ cache' \in [value : BOOLEAN, fresh : BOOLEAN, gen : Nat]
        /\ reader' \in [pc : {"idle", "probe", "store"}, gen : Nat, value : BOOLEAN]
        /\ op'.before \in Host
    BY <1>1, <1>2, <1>3 DEF DaemonShapes
  <2>3. DaemonShapes'
    BY <1>1, <1>3, <2>1, <2>2, StillShaped
  <2>4. ~off'.is /\ op'.kind = kind /\ op'.reached /\ ~op'.warned /\ ~op'.error /\ ~op'.unrepaired
    BY <1>2
  <2>5. at' = next /\ todo' = groups /\ UNCHANGED <<os, host, cache, reader, since>>
    BY <1>1
  <2> QED
    BY <1>3, <2>3, <2>4, <2>5

\* Where nothing of ours changes but the plan, and the phase and its locals go on.
LEMMA HostStays ==
  ASSUME DaemonInv, UNCHANGED <<os, host, cache, off, since, reader>>, reach' \in BOOLEAN,
         todo' \in Seq(Groups), op' \in Op, op'.before = op.before,
         at' # "idle", at # "idle"
  PROVE  DaemonShapes' /\ CacheInv'
<1>1. op.before \in Host /\ OneOs(op.before) /\ OneOs(host)
  BY DEF DaemonInv, DaemonShapes
<1>2. OneOs(host)' /\ OneOs(op.before)' /\ op'.before \in Host
  BY <1>1 DEF OneOs, D!Mine
<1>3. host' \in Host /\ off' \in [is : BOOLEAN, warned : BOOLEAN, reached : BOOLEAN]
      /\ cache' \in [value : BOOLEAN, fresh : BOOLEAN, gen : Nat]
      /\ reader' \in [pc : {"idle", "probe", "store"}, gen : Nat, value : BOOLEAN]
  BY DEF DaemonInv, DaemonShapes
<1>4. DaemonShapes'
  BY <1>2, <1>3, StillShaped DEF DaemonInv
<1>5. D!State(host)' = D!State(host)
  BY DEF D!State, D!UnitsPresent, D!Mine
<1>6. CacheInv'
  BY <1>5 DEF DaemonInv, CacheInv
<1> QED
  BY <1>4, <1>6

LEMMA DaemonBegins ==
  ASSUME DaemonInv, D!Remove \/ \E v \in Versions : D!TurnOn(v) \/ D!EnsureDefault(v) \/ D!Reschedule(v)
  PROVE  DaemonInv'
<1>1. ASSUME NEW kind \in {"apply", "remove", "reschedule"}, NEW next, NEW groups \in Seq(Groups),
             next # "idle", D!Start(kind, next, groups)
      PROVE  /\ DaemonShapes' /\ CacheInv' /\ at' = next /\ todo' = groups /\ ~off'.is
             /\ op'.kind = kind /\ os' = os /\ host' = host
  <2>1. /\ DaemonShapes' /\ at' = next /\ todo' = groups /\ ~off'.is
        /\ op'.kind = kind /\ UNCHANGED <<os, host, cache, reader, since>>
    BY <1>1, Begins DEF DaemonInv
  <2>2. D!State(host)' = D!State(host)
    BY <2>1 DEF D!State, D!UnitsPresent, D!Mine
  <2>3. CacheInv'
    BY <2>1, <2>2 DEF DaemonInv, CacheInv
  <2> QED
    BY <2>1, <2>3
<1>2. ASSUME NEW v \in Versions, D!Apply(v) PROVE DaemonInv'
  <2> DEFINE plan == D!WriteAll(v) \o D!Register("raise")
  <2>1. plan \in Seq(Groups) /\ D!Start("apply", "apply", plan)
    BY <1>2, Plans, Concatenated DEF D!Apply, DaemonInv
  <2>2. os = "linux" => /\ AllRaise(plan) /\ Within(plan, ApplyCalls)
                        /\ Has(plan, D!Plain("enable")) /\ Has(plan, D!Plain("restart"))
                        /\ \A f \in D!Mine : Has(plan, D!Write(f, v))
    BY Plans, Concatenated DEF DaemonInv
  <2> HIDE DEF plan
  <2>3. /\ DaemonShapes' /\ CacheInv' /\ at' = "apply" /\ todo' = plan /\ ~off'.is
        /\ op'.kind = "apply" /\ os' = os /\ host' = host
    BY <1>1, <2>1
  <2>4. D!Mine' = D!Mine /\ ApplyCalls' = ApplyCalls
    BY <2>3, SameOs
  <2>5. PhaseInv'
    BY <2>2, <2>3, <2>4 DEF PhaseInv
  <2> QED
    BY <2>3, <2>5 DEF DaemonInv
<1>3. ASSUME NEW v \in Versions, D!Reschedule(v) PROVE DaemonInv'
  <2>1. D!Start("reschedule", "write", D!WriteAll(v)) /\ D!WriteAll(v) \in Seq(Groups)
    BY <1>3, Plans DEF D!Reschedule, DaemonInv
  <2>2. DaemonShapes' /\ CacheInv' /\ at' = "write" /\ ~off'.is
    BY <1>1, <2>1
  <2> QED
    BY <2>2 DEF DaemonInv, PhaseInv
<1>4. CASE D!Remove
  <2> DEFINE plan == <<D!Group(<<D!Unregister>>, "raise")>>
             undo == D!Unregister
  <2>1. undo \in DaemonCalls
    BY DEF D!Unregister, DaemonCalls, Plains, DaemonInv, DaemonShapes
  <2>2. plan = <<[calls |-> <<undo>>, onError |-> "raise"]>>
    BY DEF D!Group
  <2> HIDE DEF undo
  <2>3. [calls |-> <<undo>>, onError |-> "raise"] \in Groups
    BY <2>1 DEF Groups
  <2>4. plan \in Seq(Groups) /\ AllRaise(plan) /\ Within(plan, {undo}) /\ Has(plan, undo)
    BY <2>2, <2>3 DEF AllRaise, Within, Has
  <2>5. D!Start("remove", "unregister", plan)
    BY <1>4 DEF D!Remove
  <2> HIDE DEF plan
  <2>6. /\ DaemonShapes' /\ CacheInv' /\ at' = "unregister" /\ todo' = plan /\ ~off'.is
        /\ op'.kind = "remove" /\ os' = os
    BY <1>1, <2>4, <2>5
  <2>7. D!Unregister' = undo
    BY <2>6, SameOs DEF undo
  <2>8. PhaseInv'
    BY <2>4, <2>6, <2>7 DEF PhaseInv
  <2> QED
    BY <2>6, <2>8 DEF DaemonInv
<1> QED
  BY <1>2, <1>3, <1>4 DEF D!TurnOn, D!EnsureDefault

\* Its locals are changed a field at a time.
LEMMA OpFields ==
  ASSUME DaemonInv, NEW b \in BOOLEAN
  PROVE  /\ [op EXCEPT !.error = b] \in Op /\ [op EXCEPT !.unrepaired = b] \in Op
         /\ [op EXCEPT !.warned = b] \in Op /\ [op EXCEPT !.retried = b] \in Op
         /\ [op EXCEPT !.reached = b] \in Op
         /\ \A o \in {[op EXCEPT !.error = b], [op EXCEPT !.unrepaired = b], [op EXCEPT !.retried = b],
                      [op EXCEPT !.warned = b]} :
              o.before = op.before /\ o.kind = op.kind /\ o.reached = op.reached
         /\ [op EXCEPT !.reached = b].before = op.before /\ [op EXCEPT !.reached = b].kind = op.kind
         /\ [op EXCEPT !.reached = b].reached = b /\ [op EXCEPT !.warned = b].warned = b
         /\ op.error \in BOOLEAN /\ op \in Op /\ [op EXCEPT !.retried = b].warned = op.warned
  BY DEF DaemonInv, DaemonShapes, Op

LEMMA DaemonRaises ==
  ASSUME DaemonInv, D!Suppressed \/ D!ApplyRaises \/ D!WriteRaises \/ D!RegisterRaises \/ D!UndoRaises
                    \/ D!RecordRaises \/ D!UnregisterRaises \/ D!DeleteRaises
  PROVE  DaemonInv'
<1>1. todo # <<>> /\ at \notin {"idle", "ended", "rival", "escaped"} /\ ~off.is
  <2>1. todo # <<>>
    BY DEF D!Suppressed, D!ApplyRaises, D!WriteRaises, D!RegisterRaises, D!UndoRaises, D!RecordRaises,
           D!UnregisterRaises, D!DeleteRaises, D!Raises
  <2> QED
    BY <2>1 DEF DaemonInv, PhaseInv
<1>2. UNCHANGED <<os, host, cache, off, since, reader>> /\ reach' \in BOOLEAN
  BY DEF D!Suppressed, D!ApplyRaises, D!WriteRaises, D!RegisterRaises, D!UndoRaises, D!RecordRaises,
         D!UnregisterRaises, D!DeleteRaises, D!Rest, DaemonInv, DaemonShapes
<1>3. /\ \A t \in {D!AfterCall(todo), Tail(todo)} :
              /\ t \in Seq(Groups)
              /\ \A X : Within(todo, X) => Within(t, X)
      /\ AllRaise(todo) => Head(todo).onError = "raise"
      /\ <<>> \in Seq(Groups)
  BY <1>1, Advanced DEF DaemonInv, DaemonShapes
<1>4. op.before \in Host /\ op.reached \in BOOLEAN
  BY <1>1 DEF DaemonInv, DaemonShapes, Op
<1>5. ASSUME todo' \in Seq(Groups), op' \in Op, op'.before = op.before, at' # "idle"
      PROVE  DaemonShapes' /\ CacheInv'
  BY <1>1, <1>2, <1>5, HostStays
<1>6. CASE D!Suppressed
  <2>1. at' = at /\ op' = [op EXCEPT !.unrepaired = op.error] /\ todo' = Tail(todo)
        /\ ~AllRaise(todo)
    BY <1>3, <1>6 DEF D!Suppressed
  <2>2. op' \in Op /\ op'.before = op.before /\ op'.kind = op.kind /\ op'.reached = op.reached
    BY <2>1, OpFields
  <2>3. DaemonShapes' /\ CacheInv'
    BY <1>1, <1>3, <1>5, <2>1, <2>2
  <2>4. at = "clean" => Within(todo', {D!Plain("reload"), D!Plain("unwrap")}) /\ Down(host)'
    BY <1>2, <1>3, <2>1, <2>2 DEF DaemonInv, PhaseInv, Down, Quiet
  <2>5. PhaseInv'
    BY <1>1, <1>2, <2>1, <2>2, <2>4 DEF DaemonInv, PhaseInv
  <2> QED
    BY <2>3, <2>5 DEF DaemonInv
<1>7. ASSUME at' = "undo" \/ (at' = "ended" /\ todo' = <<>>), todo' \in Seq(Groups),
             \E b \in BOOLEAN : op' \in {[op EXCEPT !.error = b], [op EXCEPT !.unrepaired = b]}
      PROVE  DaemonInv'
  <2>1. op' \in Op /\ op'.before = op.before
    BY <1>7, OpFields
  <2>2. DaemonShapes' /\ CacheInv'
    BY <1>5, <1>7, <2>1
  <2>3. PhaseInv'
    BY <1>1, <1>2, <1>7 DEF PhaseInv
  <2> QED
    BY <2>2, <2>3 DEF DaemonInv
<1>8. CASE D!ApplyRaises
  BY <1>4, <1>7, <1>8, Undoes DEF D!ApplyRaises, DaemonInv
<1>9. CASE D!WriteRaises
  BY <1>3, <1>7, <1>9 DEF D!WriteRaises, D!Ended
<1>10. CASE D!RegisterRaises
  BY <1>4, <1>7, <1>10, Undoes DEF D!RegisterRaises, DaemonInv
<1>11. CASE D!UndoRaises
  BY <1>3, <1>7, <1>11 DEF D!UndoRaises, D!Ended
<1>12. CASE D!DeleteRaises
  BY <1>4, <1>7, <1>12, Undoes DEF D!DeleteRaises, DaemonInv
<1>13. CASE D!RecordRaises
  <2>1. at = "record" /\ at' = "record"
    BY <1>13 DEF D!RecordRaises
  <2>2. \/ op' = [op EXCEPT !.warned = TRUE] /\ todo' = <<>>
        \/ op' = [op EXCEPT !.retried = TRUE] /\ todo' = todo
    BY <1>13 DEF D!RecordRaises
  <2>3. op' \in Op /\ op'.before = op.before /\ op'.kind = op.kind /\ op'.reached = op.reached
        /\ \/ todo' = todo /\ (op.warned => op'.warned)
           \/ todo' = <<>> /\ op'.warned
    <3>1. CASE op' = [op EXCEPT !.warned = TRUE] /\ todo' = <<>>
      BY <3>1, OpFields
    <3>2. CASE op' = [op EXCEPT !.retried = TRUE] /\ todo' = todo
      <4>1. op' \in Op /\ op'.before = op.before /\ op'.kind = op.kind /\ op'.reached = op.reached
        BY <3>2, OpFields
      <4>2. op'.warned = op.warned
        BY <3>2 DEF DaemonInv, DaemonShapes, Op
      <4>3. todo' = todo
        BY <3>2
      <4> QED
        BY <4>1, <4>2, <4>3
    <3> QED
      BY <2>2, <3>1, <3>2
  <2>4. DaemonShapes' /\ CacheInv'
    BY <1>3, <1>5, <2>1, <2>3 DEF DaemonInv, DaemonShapes
  <2>5. AllRaise(todo') /\ Within(todo', {D!Plain("record")})
    <3>1. AllRaise(<<>>) /\ Within(<<>>, {D!Plain("record")})
      BY DEF AllRaise, Within
    <3>2. AllRaise(todo) /\ Within(todo, {D!Plain("record")})
      BY <2>1 DEF DaemonInv, PhaseInv
    <3> QED
      BY <2>3, <3>1, <3>2
  <2>6. /\ op.kind = "apply" /\ os = "linux" => Up(host)'
        /\ op.kind = "remove" => Down(host)'
    BY <1>2, <2>1, <2>3 DEF DaemonInv, PhaseInv, Up, Down, Quiet, D!UnitsPresent, D!Mine
  <2>7. host'.marker \/ op'.warned \/ Has(todo', D!Plain("record"))
    BY <1>2, <2>1, <2>3 DEF DaemonInv, PhaseInv
  <2>8. PhaseInv'
    BY <1>1, <1>2, <2>1, <2>3, <2>5, <2>6, <2>7 DEF DaemonInv, PhaseInv
  <2> QED
    BY <2>4, <2>8 DEF DaemonInv
<1>14. CASE D!UnregisterRaises
  <2>1. at = "unregister"
    BY <1>14 DEF D!UnregisterRaises
  <2>2. CASE D!Ended([op EXCEPT !.error = TRUE])
    BY <1>3, <1>7, <2>2 DEF D!Ended
  <2>3. CASE /\ IF os = "mac" THEN host.loaded = D!NoFiles ELSE ~(reach /\ host.running)
             /\ todo' = <<>> /\ at' = at /\ op' = [op EXCEPT !.reached = os = "mac" \/ reach]
    <3> DEFINE b == os = "mac" \/ reach
    <3>1. b \in BOOLEAN
      OBVIOUS
    <3> HIDE DEF b
    <3>2. op' = [op EXCEPT !.reached = b]
      BY <2>3 DEF b
    <3>3. op' \in Op /\ op'.before = op.before /\ op'.kind = op.kind /\ op'.reached = b
      BY <3>1, <3>2, OpFields
    <3>4. DaemonShapes' /\ CacheInv'
      BY <1>3, <1>5, <2>1, <2>3, <3>3
    <3>5. b => Quiet(host)'
      BY <1>2, <2>3 DEF b, Quiet, DaemonInv, DaemonShapes, OneOs
    <3>6. PhaseInv'
      BY <1>1, <1>2, <2>1, <2>3, <3>3, <3>5 DEF DaemonInv, PhaseInv, AllRaise, Within
    <3> QED
      BY <3>4, <3>6 DEF DaemonInv
  <2> QED
    BY <1>14, <2>2, <2>3 DEF D!UnregisterRaises
<1> QED
  BY <1>6, <1>8, <1>9, <1>10, <1>11, <1>12, <1>13, <1>14

\* A phase that is done is followed by the next.
LEMMA DaemonGoesOn ==
  ASSUME DaemonInv, D!Written \/ D!Rescheduled \/ D!Undone \/ D!Registered \/ D!Recorded
                    \/ D!Unregistered \/ D!Deleted \/ D!Cleaned
  PROVE  DaemonInv'
<1>1. todo = <<>> /\ at \notin {"idle", "ended", "rival", "escaped"} /\ ~off.is /\ <<>> \in Seq(Groups)
      /\ \A c : ~Has(todo, c)
  BY DEF D!Written, D!Rescheduled, D!Undone, D!Registered, D!Recorded, D!Unregistered, D!Deleted, D!Cleaned,
         DaemonInv, PhaseInv, Has
<1>2. UNCHANGED <<os, host, cache, since, reader>> /\ reach' \in BOOLEAN /\ op' = op
  BY DEF D!Written, D!Rescheduled, D!Undone, D!Registered, D!Recorded, D!Unregistered, D!Deleted, D!Cleaned,
         D!Ended, D!Rest, DaemonInv, DaemonShapes
<1>3. ASSUME todo' \in Seq(Groups), off' = off, at' # "idle"
      PROVE  DaemonShapes' /\ CacheInv'
  BY <1>1, <1>2, <1>3, HostStays DEF DaemonInv, DaemonShapes
<1>4. /\ Up(host)' <=> Up(host)
      /\ Down(host)' <=> Down(host)
      /\ Quiet(host)' <=> Quiet(host)
  BY <1>2 DEF Up, Down, Quiet, D!UnitsPresent, D!Mine
<1>5. ASSUME NEW c \in DaemonCalls, NEW e \in {"raise", "skip"}
      PROVE  LET plan == <<D!Group(<<c>>, e)>> IN
             /\ plan \in Seq(Groups) /\ Within(plan, {c}) /\ Has(plan, c)
             /\ e = "raise" => AllRaise(plan)
  <2>1. D!Group(<<c>>, e) = [calls |-> <<c>>, onError |-> e] /\ [calls |-> <<c>>, onError |-> e] \in Groups
    BY DEF D!Group, Groups
  <2> QED
    BY <2>1 DEF Within, Has, AllRaise
<1>6. /\ D!Plain("record") \in DaemonCalls /\ D!Plain("unwrap") \in DaemonCalls
      /\ os = "linux" => D!Plain("reload") \in DaemonCalls
  BY DEF DaemonCalls, Plains
<1>7. CASE D!Written
  <2>1. at' = "register" /\ todo' \in Seq(Groups) /\ off' = off
    BY <1>7, Plans DEF D!Written, DaemonInv
  <2> QED
    BY <1>1, <1>3, <2>1 DEF DaemonInv, PhaseInv
<1>8. CASE D!Rescheduled \/ D!Undone
  <2>1. at' = "ended" /\ todo' = <<>> /\ off' = off
    BY <1>8 DEF D!Rescheduled, D!Undone, D!Ended
  <2> QED
    BY <1>1, <1>3, <2>1 DEF DaemonInv, PhaseInv
<1>9. ASSUME at' = "record", todo' = <<D!Group(<<D!Plain("record")>>, "raise")>>, off' = off,
             op.kind \in {"apply", "remove"}, op.kind = "apply" /\ os = "linux" => Up(host),
             op.kind = "remove" => Down(host)
      PROVE  DaemonInv'
  <2>1. todo' \in Seq(Groups) /\ AllRaise(todo') /\ Within(todo', {D!Plain("record")}) /\ Has(todo', D!Plain("record"))
    BY <1>5, <1>6, <1>9
  <2>2. DaemonShapes' /\ CacheInv'
    BY <1>3, <1>9, <2>1
  <2>3. PhaseInv'
    BY <1>1, <1>2, <1>4, <1>9, <2>1 DEF PhaseInv
  <2> QED
    BY <2>2, <2>3 DEF DaemonInv
<1>10. CASE D!Registered
  <2>1. at = "apply" /\ op.kind = "apply" /\ (os = "linux" => Up(host))
    BY <1>1, <1>10 DEF D!Registered, DaemonInv, PhaseInv, Up, D!UnitsPresent
  <2> QED
    BY <1>9, <1>10, <2>1 DEF D!Registered
<1>11. CASE D!Cleaned
  <2>1. op.kind = "remove" /\ Down(host)
    BY <1>11 DEF D!Cleaned, DaemonInv, PhaseInv
  <2> QED
    BY <1>9, <1>11, <2>1 DEF D!Cleaned
<1>12. CASE D!Recorded
  <2>1. at = "record" /\ (host.marker \/ op.warned)
        /\ (op.kind = "apply" /\ os = "linux" => Up(host)) /\ (op.kind = "remove" => Down(host))
    BY <1>1, <1>12 DEF D!Recorded, DaemonInv, PhaseInv
  <2>2. CASE op.kind = "apply" /\ os = "linux"
    <3>1. at' = "rival" /\ todo' = <<>> /\ off' = off
      BY <1>1, <1>12, <2>2 DEF D!Recorded
    <3> QED
      BY <1>1, <1>2, <1>3, <1>4, <2>1, <2>2, <3>1 DEF DaemonInv, PhaseInv
  <2>3. CASE ~(op.kind = "apply" /\ os = "linux")
    <3>1. at' = "ended" /\ todo' = <<>>
          /\ off' = IF op.kind # "remove" THEN off ELSE [is |-> TRUE, warned |-> op.warned, reached |-> op.reached]
      BY <1>12, <2>3 DEF D!Recorded, D!Ended
    <3>2. CASE op.kind # "remove"
      BY <1>1, <1>3, <3>1, <3>2 DEF DaemonInv, PhaseInv
    <3>3. CASE op.kind = "remove"
      <4> DEFINE w == op.warned
                 r == op.reached
      <4>1. w \in BOOLEAN /\ r \in BOOLEAN /\ op.before \in Host /\ OneOs(op.before) /\ OneOs(host) /\ host \in Host
        BY <1>1 DEF DaemonInv, DaemonShapes, Op
      <4>2. off' = [is |-> TRUE, warned |-> w, reached |-> r]
        BY <3>1, <3>3
      <4>3. /\ host.file = D!NoFiles /\ ~host.link
            /\ r => Quiet(host)
            /\ w \/ host.marker
        BY <2>1, <3>3 DEF Down
      <4> HIDE DEF w, r
      <4>4. off'.is /\ off'.warned = w /\ off'.reached = r
            /\ off' \in [is : BOOLEAN, warned : BOOLEAN, reached : BOOLEAN]
        BY <4>1, <4>2
      <4>5. OneOs(host)' /\ OneOs(op.before)'
        BY <1>2, <4>1 DEF OneOs, D!Mine
      <4>6. DaemonShapes'
        BY <1>1, <1>2, <3>1, <4>1, <4>4, <4>5, StillShaped DEF DaemonInv, DaemonShapes
      <4>7. D!State(host)' = D!State(host)
        BY <1>2 DEF D!State, D!UnitsPresent, D!Mine
      <4>8. CacheInv'
        BY <1>2, <4>7 DEF DaemonInv, CacheInv
      <4>9. PhaseInv'
        BY <1>2, <1>4, <3>1, <4>3, <4>4 DEF PhaseInv
      <4> QED
        BY <4>6, <4>8, <4>9 DEF DaemonInv
    <3> QED
      BY <3>2, <3>3
  <2> QED
    BY <2>2, <2>3
<1>13. CASE D!Unregistered
  <2>1. at = "unregister" /\ op.kind = "remove" /\ (op.reached => Quiet(host))
    BY <1>1, <1>13 DEF D!Unregistered, DaemonInv, PhaseInv
  <2>2. at' = "delete" /\ todo' = D!Delete /\ off' = off
    BY <1>13 DEF D!Unregistered
  <2>3. /\ D!Delete \in Seq(Groups) /\ Within(D!Delete, DeleteCalls) /\ AllRaise(D!Delete)
        /\ \A f \in D!Mine : Has(D!Delete, D!Write(f, None))
        /\ os = "linux" => Has(D!Delete, D!Plain("unlink"))
    BY Plans DEF DaemonInv
  <2>4. DeleteCalls' = DeleteCalls /\ D!Mine' = D!Mine
    BY <1>2, SameOs
  <2>5. host.link => os = "linux"
    BY DEF DaemonInv, DaemonShapes, OneOs
  <2>6. DaemonShapes' /\ CacheInv'
    BY <1>3, <2>2, <2>3
  <2>7. PhaseInv'
    BY <1>1, <1>2, <1>4, <2>1, <2>2, <2>3, <2>4, <2>5 DEF PhaseInv
  <2> QED
    BY <2>6, <2>7 DEF DaemonInv
<1>14. CASE D!Deleted
  <2> DEFINE last == <<D!Group(<<D!Plain("unwrap")>>, "skip")>>
             first == D!If(os = "linux" /\ op.reached, <<D!Group(<<D!Plain("reload")>>, "skip")>>)
             both == {D!Plain("reload"), D!Plain("unwrap")}
  <2>1. /\ at = "delete" /\ op.kind = "remove" /\ (op.reached => Quiet(host))
        /\ \A f \in D!Mine : host.file[f] = None
        /\ ~host.link
    BY <1>1, <1>14 DEF D!Deleted, DaemonInv, PhaseInv
  <2>2. at' = "clean" /\ todo' = first \o last /\ off' = off
    BY <1>14 DEF D!Deleted
  <2>3. last \in Seq(Groups) /\ Within(last, {D!Plain("unwrap")})
    BY <1>5, <1>6
  <2>4. first \in Seq(Groups) /\ Within(first, {D!Plain("reload")})
    <3>1. CASE os = "linux" /\ op.reached
      BY <1>5, <1>6, <3>1 DEF D!If
    <3>2. CASE ~(os = "linux" /\ op.reached)
      BY <1>1, <3>2 DEF D!If, Within
    <3> QED
      BY <3>1, <3>2
  <2> HIDE DEF first, last
  <2>5. Within(first, both) /\ Within(last, both)
    BY <2>3, <2>4 DEF Within
  <2>6. todo' \in Seq(Groups) /\ Within(todo', both)
    BY <2>2, <2>3, <2>4, <2>5, Concatenated
  <2>7. host.file = D!NoFiles
    <3>1. \A f \in D!Files : host.file[f] = None
      BY <2>1 DEF DaemonInv, DaemonShapes, OneOs
    <3>2. host.file = [f \in D!Files |-> host.file[f]]
      BY DEF DaemonInv, DaemonShapes, Host, FilesOf
    <3> QED
      BY <3>1, <3>2 DEF D!NoFiles
  <2>8. Down(host)
    BY <2>1, <2>7 DEF Down
  <2>9. DaemonShapes' /\ CacheInv'
    BY <1>3, <2>2, <2>6
  <2>10. PhaseInv'
    BY <1>1, <1>2, <1>4, <2>1, <2>2, <2>6, <2>8 DEF PhaseInv
  <2> QED
    BY <2>9, <2>10 DEF DaemonInv
<1> QED
  BY <1>7, <1>8, <1>10, <1>11, <1>12, <1>13, <1>14

LEMMA DaemonCall == ASSUME DaemonInv, D!Call PROVE DaemonInv'
<1> DEFINE c == Head(Head(todo).calls)
<1>1. /\ todo # <<>> /\ host' = D!Performed(host, c) /\ todo' = D!AfterCall(todo)
      /\ since' = since \cup {D!State(host')}
      /\ UNCHANGED <<at, op, cache, off, os, reader>> /\ reach' \in BOOLEAN
  BY DEF D!Call, D!Seen, D!Rest, DaemonInv, DaemonShapes
<1>2. /\ c \in DaemonCalls /\ Has(todo, c) /\ \A X : Within(todo, X) => c \in X
      /\ todo' \in Seq(Groups)
      /\ \A X : Within(todo, X) => Within(todo', X)
      /\ AllRaise(todo) => AllRaise(todo')
      /\ \A d : Has(todo, d) => d = c \/ Has(todo', d)
  BY <1>1, Advanced DEF DaemonInv, DaemonShapes
<1>3. Did(host, c, host') /\ at \notin {"idle", "ended", "rival", "escaped"} /\ ~off.is
  BY <1>1, <1>2, Performing DEF DaemonInv, DaemonShapes, PhaseInv
<1> HIDE DEF c
<1>4. host' \in Host /\ OneOs(host)' /\ OneOs(op.before)' /\ op.before \in Host
  BY <1>1, <1>3 DEF Did, OneOs, D!Mine, DaemonInv, DaemonShapes
<1>5. DaemonShapes'
  BY <1>1, <1>2, <1>4, StillShaped DEF DaemonInv, DaemonShapes
<1>6. D!State(host)' = D!State(host')
  BY <1>1 DEF D!State, D!UnitsPresent, D!Mine
<1>7. CacheInv'
  BY <1>1, <1>6 DEF DaemonInv, CacheInv
<1>8. D!Mine' = D!Mine /\ ApplyCalls' = ApplyCalls /\ DeleteCalls' = DeleteCalls /\ D!Unregister' = D!Unregister
  BY <1>1, SameOs
<1>9. D!Mine \subseteq D!Files /\ host.file \in FilesOf
  BY DEF D!Mine, D!Files, DaemonInv, DaemonShapes, Host
<1>10. \A n, f, v : D!Plain(n)[1] = n /\ (n # "write" => D!Plain(n) # D!Write(f, v))
  BY DEF D!Plain, D!Write
<1>11. \A v : \A f \in D!Mine : c = D!Write(f, v) =>
         /\ host'.file = [host.file EXCEPT ![f] = v]
         /\ host'.link = host.link /\ host'.running = host.running
  BY <1>3 DEF Did, D!Write
<1>12. \A n : c = D!Plain(n) /\ n # "write" => host'.file = host.file /\ c[1] = n
  BY <1>3 DEF Did, D!Plain
<1>13. CASE at = "apply"
  <2> SUFFICES ASSUME os = "linux"
               PROVE  /\ AllRaise(todo') /\ Within(todo', ApplyCalls)
                      /\ \A f \in D!Mine : host'.file[f] # None \/ \E v \in Versions : Has(todo', D!Write(f, v))
                      /\ host'.link \/ Has(todo', D!Plain("enable"))
                      /\ host'.running \/ Has(todo', D!Plain("restart"))
    <3>1. op.kind = "apply"
      BY <1>13 DEF DaemonInv, PhaseInv
    <3> QED
      BY <1>1, <1>3, <1>5, <1>7, <1>8, <1>13, <3>1 DEF DaemonInv, PhaseInv
  <2>1. /\ AllRaise(todo) /\ Within(todo, ApplyCalls)
        /\ \A f \in D!Mine : host.file[f] # None \/ \E v \in Versions : Has(todo, D!Write(f, v))
        /\ host.link \/ Has(todo, D!Plain("enable"))
        /\ host.running \/ Has(todo, D!Plain("restart"))
    BY <1>13 DEF DaemonInv, PhaseInv
  <2>2. c \in ApplyCalls
    BY <1>2, <2>1
  <2>3. CASE \E g \in D!Mine, w \in Versions : c = D!Write(g, w)
    <3>1. PICK g \in D!Mine, w \in Versions : c = D!Write(g, w)
      BY <2>3
    <3>2. host'.file = [host.file EXCEPT ![g] = w] /\ host'.link = host.link /\ host'.running = host.running
      BY <1>11, <3>1
    <3>3. w # None
      BY NoneIsNothing
    <3>4. ASSUME NEW f \in D!Mine PROVE host'.file[f] # None \/ \E v \in Versions : Has(todo', D!Write(f, v))
      <4>1. CASE f = g
        BY <1>9, <3>2, <3>3, <4>1 DEF FilesOf
      <4>2. CASE f # g
        <5>1. host'.file[f] = host.file[f]
          BY <1>9, <3>2, <4>2 DEF FilesOf
        <5>2. \A v : D!Write(f, v) # c
          BY <3>1, <4>2 DEF D!Write
        <5> QED
          BY <1>2, <2>1, <5>1, <5>2
      <4> QED
        BY <4>1, <4>2
    <3>5. D!Plain("enable") # c /\ D!Plain("restart") # c
      BY <3>1 DEF D!Plain, D!Write
    <3> QED
      BY <1>2, <2>1, <3>2, <3>4, <3>5
  <2>4. CASE \E n \in {"wrapper", "log", "reload", "enable", "restart"} : c = D!Plain(n)
    <3>1. PICK n \in {"wrapper", "log", "reload", "enable", "restart"} : c = D!Plain(n)
      BY <2>4
    <3>2. host'.file = host.file /\ c[1] = n
      BY <1>12, <3>1
    <3>3. /\ host'.link = IF n = "enable" THEN TRUE ELSE host.link
          /\ host'.running = IF n = "restart" THEN TRUE ELSE host.running
      BY <1>3, <3>2 DEF Did
    <3>4. \A f, v : D!Write(f, v) # c
      BY <3>1 DEF D!Plain, D!Write
    <3>5. (D!Plain("enable") = c => n = "enable") /\ (D!Plain("restart") = c => n = "restart")
      BY <3>1 DEF D!Plain
    <3> QED
      BY <1>2, <2>1, <3>2, <3>3, <3>4, <3>5
  <2> QED
    BY <2>2, <2>3, <2>4 DEF ApplyCalls
<1>14. CASE at = "record"
  <2>1. c = D!Plain("record")
    BY <1>2, <1>14 DEF DaemonInv, PhaseInv
  <2>2. c[1] = "record" /\ host'.file = host.file
    BY <1>12, <2>1
  <2>3. host'.link = host.link /\ host'.running = host.running /\ host'.loaded = host.loaded /\ host'.marker
    BY <1>3, <2>2 DEF Did
  <2>4. (Up(host)' <=> Up(host)) /\ (Down(host)' <=> Down(host))
    BY <1>1, <2>2, <2>3 DEF Up, Down, Quiet, D!UnitsPresent, D!Mine
  <2>5. PhaseInv'
    BY <1>1, <1>2, <1>3, <1>14, <2>3, <2>4 DEF DaemonInv, PhaseInv
  <2> QED
    BY <1>5, <1>7, <2>5 DEF DaemonInv
<1>15. CASE at = "unregister"
  <2>1. c = D!Unregister
    BY <1>2, <1>15 DEF DaemonInv, PhaseInv
  <2>2. c[1] = IF os = "mac" THEN "bootout" ELSE "stop"
    BY <2>1 DEF D!Unregister, D!Plain
  <2>3. Quiet(host')
    BY <1>3, <2>2 DEF Did, Quiet, OneOs, DaemonInv, DaemonShapes
  <2>4. Quiet(host)'
    BY <1>1, <2>3 DEF Quiet
  <2>5. PhaseInv'
    BY <1>1, <1>2, <1>3, <1>8, <1>15, <2>4 DEF DaemonInv, PhaseInv
  <2> QED
    BY <1>5, <1>7, <2>5 DEF DaemonInv
<1>16. CASE at = "delete"
  <2>1. /\ AllRaise(todo) /\ Within(todo, DeleteCalls) /\ (op.reached => Quiet(host))
        /\ \A f \in D!Mine : host.file[f] = None \/ Has(todo, D!Write(f, None))
        /\ host.link => Has(todo, D!Plain("unlink"))
        /\ op.kind = "remove"
    BY <1>16 DEF DaemonInv, PhaseInv
  <2>2. c \in DeleteCalls
    BY <1>2, <2>1
  <2>3. /\ \A f \in D!Mine : host'.file[f] = None \/ Has(todo', D!Write(f, None))
        /\ host'.link => Has(todo', D!Plain("unlink"))
        /\ host'.running = host.running /\ host'.loaded = host.loaded
    <3>1. CASE \E g \in D!Mine : c = D!Write(g, None)
      <4>1. PICK g \in D!Mine : c = D!Write(g, None)
        BY <3>1
      <4>2. host'.file = [host.file EXCEPT ![g] = None] /\ host'.link = host.link
            /\ host'.running = host.running /\ host'.loaded = host.loaded
        BY <1>3, <1>11, <4>1 DEF Did, D!Write
      <4>3. ASSUME NEW f \in D!Mine PROVE host'.file[f] = None \/ Has(todo', D!Write(f, None))
        <5>1. f # g => D!Write(f, None) # c
          BY <4>1 DEF D!Write
        <5> QED
          BY <1>2, <1>9, <2>1, <4>2, <5>1 DEF FilesOf
      <4>4. D!Plain("unlink") # c
        BY <4>1 DEF D!Plain, D!Write
      <4> QED
        BY <1>2, <2>1, <4>2, <4>3, <4>4
    <3>2. CASE c = D!Plain("unlink")
      <4>1. host'.file = host.file /\ c[1] = "unlink"
        BY <1>12, <3>2
      <4>2. ~host'.link /\ host'.running = host.running /\ host'.loaded = host.loaded
        BY <1>3, <4>1 DEF Did
      <4>3. \A f : D!Write(f, None) # c
        BY <3>2 DEF D!Plain, D!Write
      <4> QED
        BY <1>2, <2>1, <4>1, <4>2, <4>3
    <3> QED
      BY <2>2, <3>1, <3>2 DEF DeleteCalls
  <2>4. op.reached => Quiet(host)'
    BY <1>1, <2>1, <2>3 DEF Quiet
  <2>5. PhaseInv'
    BY <1>1, <1>2, <1>3, <1>8, <1>16, <2>1, <2>3, <2>4 DEF PhaseInv
  <2> QED
    BY <1>5, <1>7, <2>5 DEF DaemonInv
<1>17. CASE at = "clean"
  <2>1. c \in {D!Plain("reload"), D!Plain("unwrap")} /\ Down(host)
        /\ Within(todo, {D!Plain("reload"), D!Plain("unwrap")}) /\ op.kind = "remove"
    BY <1>2, <1>17 DEF DaemonInv, PhaseInv
  <2>2. c[1] \in {"reload", "unwrap"} /\ host'.file = host.file
    BY <1>12, <2>1
  <2>3. host'.link = host.link /\ host'.running = host.running
        /\ (host'.loaded = host.loaded \/ host'.loaded = D!Read(host))
    BY <1>3, <2>2 DEF Did
  <2>4. D!Read(host) = D!NoFiles
    <3>1. ~D!UnitsPresent(host)
      BY <2>1 DEF Down, D!UnitsPresent, D!NoFiles, D!Mine, D!Files, DaemonInv, DaemonShapes
    <3> QED
      BY <3>1 DEF D!Read
  <2>5. Down(host)'
    BY <1>1, <2>1, <2>2, <2>3, <2>4 DEF Down, Quiet
  <2>6. PhaseInv'
    BY <1>1, <1>2, <1>3, <1>17, <2>1, <2>5 DEF PhaseInv
  <2> QED
    BY <1>5, <1>7, <2>6 DEF DaemonInv
<1>18. CASE at \in {"write", "register", "undo"}
  <2>1. PhaseInv'
    BY <1>1, <1>3, <1>18 DEF PhaseInv
  <2> QED
    BY <1>5, <1>7, <2>1 DEF DaemonInv
<1> QED
  BY <1>3, <1>13, <1>14, <1>15, <1>16, <1>17, <1>18 DEF DaemonInv, PhaseInv

LEMMA DaemonReturns == ASSUME DaemonInv, D!Return \/ D!Kill PROVE DaemonInv'
<1>1. /\ at' = "idle" /\ op' = D!Idle /\ UNCHANGED <<os, host, off>> /\ todo' = <<>> /\ reach' \in BOOLEAN
      /\ since' = {D!State(host)}
  BY DEF D!Return, D!Kill, D!Rest, DaemonInv, DaemonShapes, PhaseInv
<1>2. D!State(host)' = D!State(host) /\ OneOs(host)' /\ (Quiet(host)' <=> Quiet(host))
  BY <1>1 DEF D!State, D!UnitsPresent, D!Mine, OneOs, Quiet, DaemonInv, DaemonShapes
<1>3. \/ reader' = reader /\ cache' = [cache EXCEPT !.fresh = FALSE, !.gen = @ + 1]
      \/ /\ reader' = [pc |-> "idle", gen |-> 0, value |-> FALSE]
         /\ cache' = [value |-> FALSE, fresh |-> FALSE, gen |-> 0]
  BY DEF D!Return, D!Kill, D!Rest
<1>4. /\ cache \in [value : BOOLEAN, fresh : BOOLEAN, gen : Nat]
      /\ reader \in [pc : {"idle", "probe", "store"}, gen : Nat, value : BOOLEAN]
      /\ reader.gen <= cache.gen
  BY DEF DaemonInv, DaemonShapes, CacheInv
<1>5. /\ cache' \in [value : BOOLEAN, fresh : BOOLEAN, gen : Nat] /\ ~cache'.fresh
      /\ reader' \in [pc : {"idle", "probe", "store"}, gen : Nat, value : BOOLEAN]
      /\ reader'.gen <= cache'.gen /\ (reader'.pc = "store" => reader'.gen # cache'.gen)
  <2>1. CASE reader' = reader /\ cache' = [cache EXCEPT !.fresh = FALSE, !.gen = @ + 1]
    <3>1. cache'.gen = cache.gen + 1 /\ cache'.gen \in Nat /\ ~cache'.fresh
          /\ cache' \in [value : BOOLEAN, fresh : BOOLEAN, gen : Nat]
      <4> DEFINE stale == [cache EXCEPT !.fresh = FALSE]
      <4>1. stale \in [value : BOOLEAN, fresh : BOOLEAN, gen : Nat] /\ ~stale.fresh /\ stale.gen = cache.gen
        BY <1>4
      <4>2. cache' = [stale EXCEPT !.gen = stale.gen + 1]
        BY <1>4, <2>1
      <4> HIDE DEF stale
      <4> QED
        BY <1>4, <4>1, <4>2
    <3>2. reader.gen \in Nat /\ cache.gen \in Nat
      BY <1>4
    <3> QED
      BY <1>4, <2>1, <3>1, <3>2
  <2>2. CASE /\ reader' = [pc |-> "idle", gen |-> 0, value |-> FALSE]
             /\ cache' = [value |-> FALSE, fresh |-> FALSE, gen |-> 0]
    BY <2>2
  <2> QED
    BY <1>3, <2>1, <2>2
<1>6. D!Idle \in Op /\ <<>> \in Seq(Groups)
  BY DEF D!Idle, Op
<1>7. DaemonShapes'
  BY <1>1, <1>2, <1>5, <1>6, StillShaped DEF DaemonInv, DaemonShapes
<1>8. CacheInv'
  BY <1>1, <1>2, <1>5 DEF CacheInv
<1>9. PhaseInv'
  BY <1>1, <1>2 DEF DaemonInv, PhaseInv
<1> QED
  BY <1>7, <1>8, <1>9 DEF DaemonInv

LEMMA DaemonRead ==
  ASSUME DaemonInv, D!ReadBegins \/ D!Probe \/ D!Store \/ D!Expire \/ D!LoseManager \/ UNCHANGED daemonVars
  PROVE  DaemonInv'
<1>1. UNCHANGED <<os, host, at, todo, op, off, since>> /\ reach' \in BOOLEAN
  BY DEF D!ReadBegins, D!Probe, D!Store, D!Expire, D!LoseManager, daemonVars, DaemonInv, DaemonShapes
<1>2. /\ cache \in [value : BOOLEAN, fresh : BOOLEAN, gen : Nat]
      /\ reader \in [pc : {"idle", "probe", "store"}, gen : Nat, value : BOOLEAN]
      /\ D!State(host) \in since /\ reader.gen <= cache.gen /\ D!State(host) \in BOOLEAN
      /\ cache.fresh => cache.value \in since
      /\ reader.pc = "store" /\ reader.gen = cache.gen => reader.value \in since
  BY DEF DaemonInv, DaemonShapes, CacheInv, D!State, D!UnitsPresent, Host
<1>3. /\ cache' \in [value : BOOLEAN, fresh : BOOLEAN, gen : Nat]
      /\ reader' \in [pc : {"idle", "probe", "store"}, gen : Nat, value : BOOLEAN]
      /\ reader'.gen <= cache'.gen
      /\ cache'.fresh => cache'.value \in since
      /\ reader'.pc = "store" /\ reader'.gen = cache'.gen => reader'.value \in since
  <2>1. CASE D!ReadBegins
    BY <1>2, <2>1 DEF D!ReadBegins
  <2>2. CASE D!Probe
    <3> DEFINE st == D!State(host)
    <3>1. reader' = [reader EXCEPT !.pc = "store", !.value = st] /\ cache' = cache
      BY <2>2 DEF D!Probe
    <3>2. st \in BOOLEAN /\ st \in since
      BY <1>2
    <3> HIDE DEF st
    <3> QED
      BY <1>2, <3>1, <3>2
  <2>3. CASE D!Store
    <3>1. reader.pc = "store" /\ reader' = [reader EXCEPT !.pc = "idle"]
      BY <2>3 DEF D!Store
    <3>2. CASE cache' = cache
      BY <1>2, <3>1, <3>2
    <3>3. CASE reader.gen = cache.gen /\ cache' = [cache EXCEPT !.value = reader.value, !.fresh = TRUE]
      BY <1>2, <3>1, <3>3
    <3> QED
      BY <2>3, <3>2, <3>3 DEF D!Store
  <2>4. CASE D!Expire
    BY <1>2, <2>4 DEF D!Expire
  <2>5. CASE D!LoseManager \/ UNCHANGED daemonVars
    BY <1>2, <2>5 DEF D!LoseManager, daemonVars
  <2> QED
    BY <2>1, <2>2, <2>3, <2>4, <2>5
<1>4. /\ D!State(host)' = D!State(host) /\ OneOs(host)' /\ (at' # "idle" => OneOs(op.before)')
      /\ (Quiet(host)' <=> Quiet(host)) /\ (Up(host)' <=> Up(host)) /\ (Down(host)' <=> Down(host))
  BY <1>1 DEF D!State, D!UnitsPresent, D!Mine, OneOs, Quiet, Up, Down, DaemonInv, DaemonShapes
<1>5. DaemonShapes'
  BY <1>1, <1>3, <1>4, StillShaped DEF DaemonInv, DaemonShapes
<1>6. CacheInv'
  BY <1>1, <1>2, <1>3, <1>4 DEF CacheInv
<1>7. D!Mine' = D!Mine /\ ApplyCalls' = ApplyCalls /\ DeleteCalls' = DeleteCalls /\ D!Unregister' = D!Unregister
  BY <1>1, SameOs
<1>8. PhaseInv'
  BY <1>1, <1>4, <1>7 DEF DaemonInv, PhaseInv
<1> QED
  BY <1>5, <1>6, <1>8 DEF DaemonInv

LEMMA DaemonElsewhere ==
  ASSUME DaemonInv, D!TakeOver \/ D!Login \/ D!UserStops
  PROVE  DaemonInv'
<1>1. UNCHANGED <<os, todo, op, off, cache, reader>> /\ reach' \in BOOLEAN
      /\ ((at = "idle" /\ at' = "idle") \/ (at = "rival" /\ at' = "ended")) /\ todo = <<>>
  BY DEF D!TakeOver, D!Login, D!UserStops, D!Ended, D!Rest, DaemonInv, DaemonShapes, PhaseInv
<1>2. OneOs(host) /\ host \in Host /\ D!NoFiles \in FilesOf /\ D!Read(host) \in FilesOf
  BY DEF DaemonInv, DaemonShapes, D!NoFiles, D!Read, FilesOf, Contents, Host
<1>3. /\ host' \in Host /\ OneOs(host') /\ host'.file = host.file /\ host'.marker = host.marker
      /\ host'.link => host.link
      /\ at = "idle" => since' = since \cup {D!State(host')}
      /\ at = "rival" => since' = since /\ D!State(host') = D!State(host)
      /\ host.file = D!NoFiles /\ Quiet(host) => Quiet(host')
  <2>1. CASE D!TakeOver
    <3>1. host' = host \/ host' = [host EXCEPT !.rival = "disabled"]
      BY <2>1 DEF D!TakeOver
    <3>2. at = "rival" /\ since' = since
      BY <2>1 DEF D!TakeOver
    <3>3. host' \in Host /\ host'.file = host.file /\ host'.link = host.link /\ host'.running = host.running
          /\ host'.loaded = host.loaded /\ host'.marker = host.marker
      BY <1>2, <3>1 DEF Host
    <3>4. D!State(host') = D!State(host)
      BY <3>3 DEF D!State, D!UnitsPresent
    <3> QED
      BY <1>2, <3>2, <3>3, <3>4 DEF OneOs, Quiet
  <2>2. CASE D!Login
    <3> DEFINE loadedNow == D!Read(host)
               runs0 == host.link /\ D!UnitsPresent(host)
    <3>1. host' = [host EXCEPT !.loaded = loadedNow, !.running = runs0]
          /\ at = "idle" /\ since' = since \cup {D!State(host')}
      BY <2>2 DEF D!Login, D!Seen
    <3>2. loadedNow \in FilesOf /\ runs0 \in BOOLEAN /\ (runs0 => host.link)
      BY <1>2 DEF Host
    <3>3. host.file = D!NoFiles => loadedNow = D!NoFiles /\ ~runs0
      BY DEF D!Read, D!UnitsPresent, D!NoFiles, D!Mine, D!Files, DaemonInv, DaemonShapes
    <3> HIDE DEF loadedNow, runs0
    <3>4. host' \in Host /\ host'.file = host.file /\ host'.link = host.link /\ host'.running = runs0
          /\ host'.loaded = loadedNow /\ host'.marker = host.marker
      BY <1>2, <3>1, <3>2 DEF Host
    <3> QED
      BY <1>2, <3>1, <3>2, <3>3, <3>4 DEF OneOs, Quiet
  <2>3. CASE D!UserStops
    <3>1. PICK n \in {"disable", "stop"} : host' = D!Performed(host, D!Plain(n))
      BY <2>3 DEF D!UserStops
    <3>2. at = "idle" /\ since' = since \cup {D!State(host')} /\ os = "linux"
      BY <2>3 DEF D!UserStops, D!Seen
    <3>3. D!Plain(n) \in DaemonCalls
      BY <3>2 DEF DaemonCalls, Plains
    <3>4. Did(host, D!Plain(n), host') /\ D!Plain(n)[1] = n
      BY <1>2, <3>1, <3>3, Performing DEF DaemonInv, D!Plain
    <3>5. host' \in Host /\ OneOs(host') /\ host'.file = host.file /\ ~host'.link
          /\ (host'.running => host.running) /\ host'.marker = host.marker /\ host'.loaded = host.loaded
      BY <1>2, <3>4 DEF Did, Host
    <3> QED
      BY <3>2, <3>5 DEF Quiet
  <2> QED
    BY <2>1, <2>2, <2>3
<1>4. /\ D!State(host)' = D!State(host') /\ OneOs(host)' /\ (at' # "idle" => OneOs(op.before)')
      /\ (Quiet(host)' <=> Quiet(host'))
  BY <1>1, <1>3 DEF D!State, D!UnitsPresent, D!Mine, OneOs, Quiet, DaemonInv, DaemonShapes
<1>5. DaemonShapes'
  BY <1>1, <1>3, <1>4, StillShaped DEF DaemonInv, DaemonShapes
<1>6. CacheInv'
  BY <1>1, <1>3, <1>4 DEF DaemonInv, CacheInv
<1>7. PhaseInv'
  BY <1>1, <1>3, <1>4 DEF DaemonInv, PhaseInv
<1> QED
  BY <1>5, <1>6, <1>7 DEF DaemonInv

\* Where the file of the decision is saved in another encoding, the rest of the host is as it was.
LEMMA Reencodes ==
  ASSUME DaemonInv, D!Reencode
  PROVE  /\ host' \in Host /\ host'.file = host.file /\ host'.link = host.link /\ host'.wrapper = host.wrapper
         /\ host'.log = host.log /\ host'.marker = host.marker /\ host'.loaded = host.loaded
         /\ host'.running = host.running /\ host'.rival = host.rival
         /\ UNCHANGED <<os, reach, at, todo, op, cache, reader, off, since>>
<1>1. host \in Host /\ host' = [host EXCEPT !.utf8 = ~@]
      /\ UNCHANGED <<os, reach, at, todo, op, cache, reader, off, since>>
  BY DEF D!Reencode, DaemonInv, DaemonShapes
<1>2. \E b \in BOOLEAN : host' = [host EXCEPT !.utf8 = b]
  BY <1>1 DEF Host
<1> QED
  BY <1>1, <1>2 DEF Host

LEMMA DaemonReencodes == ASSUME DaemonInv, D!Reencode PROVE DaemonInv'
<1>1. /\ host' \in Host /\ host'.file = host.file /\ host'.link = host.link /\ host'.marker = host.marker
      /\ host'.loaded = host.loaded /\ host'.running = host.running
      /\ UNCHANGED <<os, reach, at, todo, op, cache, reader, off, since>>
  BY Reencodes
<1>2. /\ D!State(host)' = D!State(host) /\ OneOs(host)' /\ (at' # "idle" => OneOs(op.before)')
      /\ (Quiet(host)' <=> Quiet(host)) /\ (Up(host)' <=> Up(host)) /\ (Down(host)' <=> Down(host))
  BY <1>1 DEF D!State, D!UnitsPresent, D!Mine, OneOs, Quiet, Up, Down, DaemonInv, DaemonShapes
<1>3. DaemonShapes'
  BY <1>1, <1>2, StillShaped DEF DaemonInv, DaemonShapes
<1>4. CacheInv'
  BY <1>1, <1>2 DEF DaemonInv, CacheInv
<1>5. D!Mine' = D!Mine /\ ApplyCalls' = ApplyCalls /\ DeleteCalls' = DeleteCalls /\ D!Unregister' = D!Unregister
  BY <1>1, SameOs
<1>6. PhaseInv'
  BY <1>1, <1>2, <1>5 DEF DaemonInv, PhaseInv
<1> QED
  BY <1>3, <1>4, <1>6 DEF DaemonInv

\* The record's error ends a change that is complete.
LEMMA DaemonEscapes == ASSUME DaemonInv, D!RecordEscapes PROVE DaemonInv'
<1>1. /\ at = "record" /\ at' = "escaped" /\ todo' = <<>> /\ op' = op /\ ~off.is
      /\ UNCHANGED <<os, host, cache, off, since, reader>> /\ reach' \in BOOLEAN
  BY DEF D!RecordEscapes, D!Rest, DaemonInv, DaemonShapes, PhaseInv
<1>2. DaemonShapes' /\ CacheInv'
  <2>1. <<>> \in Seq(Groups)
    OBVIOUS
  <2> QED
    BY <1>1, <2>1, HostStays DEF DaemonInv, DaemonShapes
<1>3. (Up(host)' <=> Up(host)) /\ (Down(host)' <=> Down(host))
  BY <1>1 DEF Up, Down, Quiet, D!UnitsPresent, D!Mine
<1>4. PhaseInv'
  BY <1>1, <1>3 DEF DaemonInv, PhaseInv
<1> QED
  BY <1>2, <1>4 DEF DaemonInv

LEMMA DaemonStep == DaemonInv /\ [D!Next]_daemonVars => DaemonInv'
  BY DaemonBegins, DaemonCall, DaemonRaises, DaemonGoesOn, DaemonReturns, DaemonRead, DaemonElsewhere,
     DaemonReencodes, DaemonEscapes DEF D!Next

\* Another cleanup job is disabled in one place only.
LEMMA RivalIsLeft == DaemonInv /\ [D!Next]_daemonVars => D!RivalYields
<1> SUFFICES ASSUME DaemonInv, D!Next, host'.rival # host.rival
             PROVE  host.running /\ host.link /\ D!UnitsPresent(host)
  BY DEF D!RivalYields, daemonVars
<1>1. CASE D!TakeOver
  BY <1>1 DEF D!TakeOver, DaemonInv, PhaseInv, Up
<1>2. CASE D!Call
  <2> DEFINE c == Head(Head(todo).calls)
  <2>1. host' = D!Performed(host, c) /\ c \in DaemonCalls
    BY <1>2, Advanced DEF D!Call, DaemonInv, DaemonShapes
  <2> HIDE DEF c
  <2>2. Did(host, c, host')
    BY <2>1, Performing DEF DaemonInv, DaemonShapes
  <2> QED
    BY <2>2 DEF Did
<1>3. CASE D!Login
  BY <1>3 DEF D!Login, DaemonInv, DaemonShapes, Host
<1>4. CASE D!UserStops
  <2>1. PICK n \in {"disable", "stop"} : host' = D!Performed(host, D!Plain(n))
    BY <1>4 DEF D!UserStops
  <2>2. D!Plain(n) \in DaemonCalls
    BY <1>4 DEF DaemonCalls, Plains, D!UserStops
  <2>3. Did(host, D!Plain(n), host')
    BY <2>1, <2>2, Performing DEF DaemonInv, DaemonShapes
  <2> QED
    BY <2>3 DEF Did
<1>5. CASE D!Remove \/ \E v \in Versions : D!TurnOn(v) \/ D!EnsureDefault(v) \/ D!Reschedule(v)
  BY <1>5 DEF D!Remove, D!TurnOn, D!EnsureDefault, D!Reschedule, D!Apply, D!Start
<1>6. CASE \/ D!Suppressed \/ D!ApplyRaises \/ D!WriteRaises \/ D!RegisterRaises \/ D!UndoRaises
           \/ D!RecordRaises \/ D!UnregisterRaises \/ D!DeleteRaises
  BY <1>6 DEF D!Suppressed, D!ApplyRaises, D!WriteRaises, D!RegisterRaises, D!UndoRaises, D!RecordRaises,
              D!UnregisterRaises, D!DeleteRaises
<1>7. CASE \/ D!Written \/ D!Rescheduled \/ D!Undone \/ D!Registered \/ D!Recorded \/ D!Unregistered
           \/ D!Deleted \/ D!Cleaned
  BY <1>7 DEF D!Written, D!Rescheduled, D!Undone, D!Registered, D!Recorded, D!Unregistered, D!Deleted, D!Cleaned
<1>8. CASE \/ D!Return \/ D!Kill \/ D!ReadBegins \/ D!Probe \/ D!Store \/ D!Expire \/ D!LoseManager
           \/ D!RecordEscapes
  BY <1>8 DEF D!Return, D!Kill, D!ReadBegins, D!Probe, D!Store, D!Expire, D!LoseManager, D!RecordEscapes
<1>9. CASE D!Reencode
  BY <1>9, Reencodes
<1> QED
  BY <1>1, <1>2, <1>3, <1>4, <1>5, <1>6, <1>7, <1>8, <1>9 DEF D!Next

LEMMA DaemonLives == PartsSpec => [](life = "daemon" => DaemonInv)
<1>1. PartsInit => (life = "daemon" => DaemonInv)
  BY DaemonStart DEF PartsInit
<1>2. (life = "daemon" => DaemonInv) /\ [PartsNext]_partsVars => (life = "daemon" => DaemonInv)'
  BY OneLife, DaemonStep
<1> QED
  BY <1>1, <1>2, PTL DEF PartsSpec

(***************************************************************************)
(* A daemon that was turned off is off, stays off and is not applied again *)
(* by default, or the user was warned; and a timer state that counts as    *)
(* fresh is one the timer has had since the last change ended              *)
(* (linux_daemon_policy._remove in policy.py, _ProbeCache.read in          *)
(* systemd_daemon.py).                                                     *)
(***************************************************************************)
THEOREM DaemonAlwaysAsShown == PartsSpec => []DaemonIsAsShown
<1>1. (life = "daemon" => DaemonInv) => DaemonIsAsShown
  BY DEF DaemonIsAsShown, DaemonInv, PhaseInv, CacheInv, Quiet, D!OffStaysOff, D!Removed, D!CacheIsCurrent
<1> QED
  BY <1>1, DaemonLives, PTL

(***************************************************************************)
(* What is not the installer's stays, but for what arrives between a check *)
(* and its write (guards.py 488, 614); and another cleanup job is disabled *)
(* only while ours is registered and running                               *)
(* (_detect_and_take_over_competitors in policy.py).                       *)
(***************************************************************************)
THEOREM OthersAlwaysRespected == PartsSpec => OthersAreRespected
<1>1. /\ life = "shims" => ShimInv /\ ApplyInv
      /\ life = "daemon" => DaemonInv
      /\ [PartsNext]_partsVars
      => [/\ life = "shims" => S!TheirsStay
          /\ life = "daemon" => D!RivalYields]_<<daemonVars, shimVars>>
  BY OneLife, TheirsAreKept, RivalIsLeft
<1> QED
  BY <1>1, ShimsLive, DaemonLives, PTL DEF PartsSpec, OthersAreRespected
-----------------------------------------------------------------------------
(***************************************************************************)
(* A change that raised.                                                   *)
(***************************************************************************)
\* Where a call of X is in a list, it is the last of all.
Lasts(t, X) ==
  \A i \in DOMAIN t : \A j \in DOMAIN t[i].calls :
    t[i].calls[j] \in X => i = Len(t) /\ j = Len(t[i].calls)

\* The calls that leave the files alone, and a registration that agrees with them; those that
\* leave the registration; and those of a recovery.
Calm      == {D!Plain(c) : c \in {"reload", "enable", "restart", "bootstrap", "unwrap", "unlog"}}
Silent(b) == {D!Write(f, b.file[f]) : f \in D!Mine} \cup {D!Plain(c) : c \in {"unwrap", "unlog"}}
UndoCalls(b) ==
  {D!Write(f, b.file[f]) : f \in D!Mine}
  \cup {D!Plain(c) : c \in {"reload", "enable", "restart", "disable", "bootout", "bootstrap"}}
  \cup {D!Plain(c) : c \in {n \in {"unwrap"} : ~b.wrapper} \cup {n \in {"unlog"} : ~b.log}
                            \cup {n \in {"unlink"} : ~b.link}}

\* The manager reads the files once they are back; it has; or what it has read is as it was.
Coming(t) ==
  \E i \in DOMAIN t :
    /\ t[i].calls[1] \in {D!Plain("reload"), D!Plain("bootstrap")}
    /\ \A k \in DOMAIN t : k >= i => \A j \in DOMAIN t[k].calls : t[k].calls[j] \in Calm
Settled(h, t, b) == h.file = b.file /\ D!Agree(h) /\ Within(t, Calm)
Untold(h, t, b)  == h.loaded = b.loaded /\ Within(t, Silent(b))

\* Nothing is left of a first apply, once these calls are made.
Cleans(h, t, b) ==
  /\ ~Has(t, D!Plain("enable"))
  /\ h.wrapper # b.wrapper => Has(t, D!Plain("unwrap"))
  /\ h.log # b.log => Has(t, D!Plain("unlog"))
  /\ h.link /\ ~b.link => Has(t, D!Plain("unlink"))

FirstApply(k, b) == k = "apply" /\ ~D!UnitsPresent(b)

Undoing(h, t, b, k) ==
  /\ Within(t, UndoCalls(b))
  /\ \A f \in D!Mine : h.file[f] = b.file[f] \/ Has(t, D!Write(f, b.file[f]))
  /\ Settled(h, t, b) \/ Coming(t) \/ Untold(h, t, b)
  /\ FirstApply(k, b) => Cleans(h, t, b)

Restored(h, b, k) ==
  /\ h.file = b.file /\ D!Agree(h)
  /\ FirstApply(k, b) => h.wrapper = b.wrapper /\ h.log = b.log /\ (h.link => b.link)

Same(h, b) == h.file = b.file /\ h.loaded = b.loaded

PlistWrites == {D!Write("plist", v) : v \in Contents}

\* What a recovery finds, where a phase may raise; and how far it is.
RestoreInv ==
  /\ at \in {"undo", "ended"} \/ ~op.error
  /\ at = "apply" =>
       /\ Within(todo, ApplyCalls \cup {D!Plain("bootout"), D!Plain("bootstrap")})
       /\ op.before.wrapper => host.wrapper
       /\ op.before.log => host.log
       /\ os = "mac" /\ todo # <<>> => Lasts(todo, {D!Plain("bootstrap")})
                                       /\ host.loaded \in {D!NoFiles, op.before.loaded}
  /\ at \in {"write", "register"} => op.kind = "reschedule" /\ os = "mac"
  /\ at = "write" /\ todo # <<>> =>
       /\ Same(host, op.before) /\ Lasts(todo, PlistWrites)
       /\ Within(todo, PlistWrites \cup {D!Plain("wrapper"), D!Plain("log")})
  /\ at = "unregister" =>
       /\ host.file = op.before.file /\ Lasts(todo, {D!Unregister})
       /\ todo # <<>> \/ os = "linux" => host.loaded = op.before.loaded
  /\ at = "delete" =>
       /\ os = "linux" => host.loaded = op.before.loaded
       /\ os = "mac" /\ todo # <<>> => host.file = op.before.file /\ Lasts(todo, DeleteCalls)
  /\ at = "undo" => op.error
  /\ at = "undo" /\ ~op.unrepaired /\ D!Agree(op.before) => Undoing(host, todo, op.before, op.kind)
  /\ at = "ended" /\ op.error /\ ~op.unrepaired /\ D!Agree(op.before) => Restored(host, op.before, op.kind)
-----------------------------------------------------------------------------
\* Where the groups of a list are, once a call is made or a group dropped.
LEMMA Shifted ==
  ASSUME NEW s \in Seq(Groups), s # <<>>
  PROVE  /\ 1 \in DOMAIN s /\ Len(s) \in Nat /\ DOMAIN s = 1..Len(s)
         /\ s[1].calls \in Seq(DaemonCalls) /\ s[1].calls # <<>> /\ Head(s) = s[1]
         /\ Len(Tail(s)) = Len(s) - 1 /\ DOMAIN Tail(s) = 1..Len(s) - 1
         /\ \A i \in DOMAIN Tail(s) : i + 1 \in DOMAIN s /\ Tail(s)[i] = s[i + 1]
         /\ \A i \in DOMAIN s : i = 1 \/ (i - 1 \in DOMAIN Tail(s) /\ Tail(s)[i - 1] = s[i])
         /\ Len(s[1].calls) = 1 => D!AfterCall(s) = Tail(s)
         /\ Len(s[1].calls) # 1 =>
              /\ DOMAIN D!AfterCall(s) = DOMAIN s /\ Len(D!AfterCall(s)) = Len(s)
              /\ \A i \in DOMAIN s \ {1} : D!AfterCall(s)[i] = s[i]
              /\ D!AfterCall(s)[1].calls = Tail(s[1].calls)
<1>1. /\ Len(s) \in Nat /\ Len(s) > 0 /\ DOMAIN s = 1..Len(s) /\ Head(s) = s[1] /\ s[1] \in Groups
  OBVIOUS
<1>2. s[1].calls \in Seq(DaemonCalls) /\ s[1].calls # <<>> /\ s[1] = [calls |-> s[1].calls, onError |-> s[1].onError]
  BY <1>1 DEF Groups
<1>3. /\ Tail(s) \in Seq(Groups) /\ Len(Tail(s)) = Len(s) - 1
      /\ \A i \in 1..Len(s) - 1 : Tail(s)[i] = s[i + 1]
  BY <1>1, Suffix
<1>4. DOMAIN Tail(s) = 1..Len(s) - 1
  BY <1>3
<1> DEFINE short == [s EXCEPT ![1].calls = Tail(@)]
<1>5. /\ DOMAIN short = DOMAIN s /\ \A i \in DOMAIN s \ {1} : short[i] = s[i]
      /\ short[1].calls = Tail(s[1].calls)
  BY <1>1, <1>2
<1>6. D!AfterCall(s) = IF Len(s[1].calls) = 1 THEN Tail(s) ELSE short
  BY DEF D!AfterCall
<1>7. Len(s[1].calls) # 1 => Len(short) = Len(s)
  <2> SUFFICES ASSUME Len(s[1].calls) # 1 PROVE Len(short) = Len(s)
    OBVIOUS
  <2>1. short \in Seq(Groups)
    BY <1>6, Advanced
  <2> HIDE DEF short
  <2>2. Len(short) \in Nat /\ DOMAIN short = 1..Len(short)
    BY <2>1
  <2> QED
    BY <1>1, <1>5, <2>2
<1> HIDE DEF short
<1>8. \A i \in DOMAIN Tail(s) : i + 1 \in DOMAIN s /\ Tail(s)[i] = s[i + 1]
  BY <1>1, <1>3, <1>4
<1>9. \A i \in DOMAIN s : i = 1 \/ (i - 1 \in DOMAIN Tail(s) /\ Tail(s)[i - 1] = s[i])
  BY <1>1, <1>3, <1>4
<1>10. 1 \in DOMAIN s
  BY <1>1
<1> QED
  BY <1>1, <1>2, <1>3, <1>4, <1>5, <1>6, <1>7, <1>8, <1>9, <1>10

\* The last call stays the last, and nothing is left after it.
LEMMA LastStays ==
  ASSUME NEW s \in Seq(Groups), s # <<>>, NEW X, Lasts(s, X)
  PROVE  /\ \A t \in {D!AfterCall(s), Tail(s)} : Lasts(t, X)
         /\ Head(Head(s).calls) \in X => D!AfterCall(s) = <<>>
<1> DEFINE g == s[1].calls
           rest == Tail(s)
           next == D!AfterCall(s)
<1>1. /\ 1 \in DOMAIN s /\ Len(s) \in Nat /\ DOMAIN s = 1..Len(s)
      /\ g \in Seq(DaemonCalls) /\ g # <<>> /\ Head(s) = s[1]
      /\ Len(rest) = Len(s) - 1 /\ DOMAIN rest = 1..Len(s) - 1 /\ rest \in Seq(Groups)
      /\ \A i \in DOMAIN rest : i + 1 \in DOMAIN s /\ rest[i] = s[i + 1]
      /\ Len(g) = 1 => next = rest
      /\ Len(g) # 1 => /\ DOMAIN next = DOMAIN s /\ Len(next) = Len(s)
                       /\ \A i \in DOMAIN s \ {1} : next[i] = s[i]
                       /\ next[1].calls = Tail(g)
  BY Shifted, Suffix
<1>2. /\ Len(g) \in Nat /\ Len(g) > 0 /\ DOMAIN g = 1..Len(g) /\ Head(g) = g[1]
      /\ Tail(g) \in Seq(DaemonCalls) /\ Len(Tail(g)) = Len(g) - 1
      /\ \A j \in 1..Len(g) - 1 : Tail(g)[j] = g[j + 1]
  BY <1>1, Suffix
<1>3. DOMAIN Tail(g) = 1..Len(g) - 1
  BY <1>2
<1> HIDE DEF rest, next
<1>4. \A i \in DOMAIN s : \A j \in DOMAIN s[i].calls : s[i].calls[j] \in X => i = Len(s) /\ j = Len(s[i].calls)
  BY DEF Lasts
<1>5. Lasts(rest, X)
  BY <1>1, <1>4 DEF Lasts
<1>8. \A j \in DOMAIN g : g[j] \in X => 1 = Len(s) /\ j = Len(g)
  BY <1>1, <1>4
<1>9. g = s[1].calls
  OBVIOUS
<1> HIDE DEF g
<1>6. CASE Len(g) = 1
  <2>1. Head(g) \in X => Len(rest) = 0
    BY <1>1, <1>2, <1>8
  <2>2. Len(rest) = 0 => rest = <<>>
    BY <1>1
  <2> QED
    BY <1>1, <1>5, <1>6, <1>9, <2>1, <2>2 DEF rest, next
<1>7. CASE Len(g) # 1
  <2>1. Head(g) \notin X
    BY <1>2, <1>7, <1>8
  <2>2. ASSUME NEW i \in DOMAIN next, NEW j \in DOMAIN next[i].calls, next[i].calls[j] \in X
        PROVE  i = Len(next) /\ j = Len(next[i].calls)
    <3>1. CASE i = 1
      <4>4. j \in DOMAIN Tail(g) /\ Tail(g)[j] \in X
        BY <1>1, <1>7, <2>2, <3>1
      <4>1. j \in 1..Len(g) - 1 /\ g[j + 1] \in X /\ j + 1 \in DOMAIN g
        BY <1>2, <1>3, <4>4
      <4>2. 1 = Len(s) /\ j + 1 = Len(g) /\ j \in Nat
        BY <1>2, <1>8, <4>1
      <4>3. Len(next[i].calls) = Len(g) - 1
        BY <1>1, <1>2, <1>7, <3>1
      <4> QED
        <5>1. i = Len(next)
          BY <1>1, <1>7, <3>1, <4>2
        <5>2. j = Len(g) - 1
          <6>1. Len(g) \in Nat
            BY <1>2
          <6> QED
            BY <4>2, <6>1
        <5> QED
          BY <4>3, <5>1, <5>2
    <3>2. CASE i # 1
      BY <1>1, <1>4, <1>7, <2>2, <3>2
    <3> QED
      BY <3>1, <3>2
  <2>3. Lasts(next, X)
    BY <2>2 DEF Lasts
  <2> QED
    BY <1>1, <1>5, <1>9, <2>1, <2>3 DEF rest, next
<1> QED
  BY <1>6, <1>7

\* A list whose only calls of X come last.
LEMMA LastOfTwo ==
  ASSUME NEW s \in Seq(Groups), NEW t \in Seq(Groups), NEW X, NEW Y, Within(s, Y), Lasts(t, X), X \cap Y = {}
  PROVE  Lasts(s \o t, X)
<1> DEFINE u == s \o t
<1>1. Len(u) = Len(s) + Len(t) /\ Len(s) \in Nat /\ Len(t) \in Nat /\ DOMAIN u = 1..Len(s) + Len(t)
      /\ DOMAIN s = 1..Len(s) /\ DOMAIN t = 1..Len(t)
  OBVIOUS
<1>2. \A i \in DOMAIN u : \/ i \in DOMAIN s /\ u[i] = s[i]
                          \/ i - Len(s) \in DOMAIN t /\ u[i] = t[i - Len(s)]
  OBVIOUS
<1> HIDE DEF u
<1>3. \A i \in DOMAIN s : \A j \in DOMAIN s[i].calls : s[i].calls[j] \notin X
  BY DEF Within
<1>4. \A i \in DOMAIN t : \A j \in DOMAIN t[i].calls : t[i].calls[j] \in X => i = Len(t) /\ j = Len(t[i].calls)
  BY DEF Lasts
<1>5. Lasts(u, X)
  BY <1>1, <1>2, <1>3, <1>4 DEF Lasts
<1> QED
  BY <1>5 DEF u

\* What is coming comes, before what is calm or after anything.
LEMMA ComesToo ==
  ASSUME NEW s \in Seq(Groups), NEW t \in Seq(Groups)
  PROVE  /\ Coming(t) => Coming(s \o t)
         /\ Coming(s) /\ Within(t, Calm) => Coming(s \o t)
<1> DEFINE u == s \o t
<1>1. Len(u) = Len(s) + Len(t) /\ Len(s) \in Nat /\ Len(t) \in Nat /\ DOMAIN u = 1..Len(s) + Len(t)
      /\ DOMAIN s = 1..Len(s) /\ DOMAIN t = 1..Len(t)
  OBVIOUS
<1>2. /\ \A i \in DOMAIN s : i \in DOMAIN u /\ u[i] = s[i]
      /\ \A i \in DOMAIN t : Len(s) + i \in DOMAIN u /\ u[Len(s) + i] = t[i]
      /\ \A i \in DOMAIN u : i > Len(s) => i - Len(s) \in DOMAIN t /\ u[i] = t[i - Len(s)]
  OBVIOUS
<1> HIDE DEF u
<1>3. ASSUME Coming(t) PROVE Coming(u)
  <2>1. PICK i \in DOMAIN t :
          /\ t[i].calls[1] \in {D!Plain("reload"), D!Plain("bootstrap")}
          /\ \A k \in DOMAIN t : k >= i => \A j \in DOMAIN t[k].calls : t[k].calls[j] \in Calm
    BY <1>3 DEF Coming
  <2>2. /\ Len(s) + i \in DOMAIN u /\ u[Len(s) + i] = t[i]
        /\ \A k \in DOMAIN u : k >= Len(s) + i =>
             k - Len(s) \in DOMAIN t /\ u[k] = t[k - Len(s)] /\ k - Len(s) >= i
    BY <1>1, <1>2
  <2> QED
    BY <2>1, <2>2 DEF Coming
<1>4. ASSUME Coming(s), Within(t, Calm) PROVE Coming(u)
  <2>1. PICK i \in DOMAIN s :
          /\ s[i].calls[1] \in {D!Plain("reload"), D!Plain("bootstrap")}
          /\ \A k \in DOMAIN s : k >= i => \A j \in DOMAIN s[k].calls : s[k].calls[j] \in Calm
    BY <1>4 DEF Coming
  <2>2. \A k \in DOMAIN u : (k \in DOMAIN s /\ u[k] = s[k]) \/ (k - Len(s) \in DOMAIN t /\ u[k] = t[k - Len(s)])
    BY <1>1, <1>2
  <2>3. \A k \in DOMAIN t : \A j \in DOMAIN t[k].calls : t[k].calls[j] \in Calm
    BY <1>4 DEF Within
  <2> QED
    BY <1>2, <2>1, <2>2, <2>3 DEF Coming
<1> QED
  BY <1>3, <1>4 DEF u

\* It still does after a call, or the call was it.
LEMMA ComingGoesOn ==
  ASSUME NEW s \in Seq(Groups), s # <<>>, Coming(s)
  PROVE  \/ Coming(D!AfterCall(s))
         \/ Head(Head(s).calls) \in {D!Plain("reload"), D!Plain("bootstrap")} /\ Within(s, Calm)
<1> DEFINE g == s[1].calls
           rest == Tail(s)
           next == D!AfterCall(s)
<1>1. /\ 1 \in DOMAIN s /\ Len(s) \in Nat /\ DOMAIN s = 1..Len(s)
      /\ g \in Seq(DaemonCalls) /\ g # <<>> /\ Head(s) = s[1]
      /\ DOMAIN rest = 1..Len(s) - 1
      /\ \A i \in DOMAIN rest : i + 1 \in DOMAIN s /\ rest[i] = s[i + 1]
      /\ \A i \in DOMAIN s : i = 1 \/ (i - 1 \in DOMAIN rest /\ rest[i - 1] = s[i])
      /\ Len(g) = 1 => next = rest
      /\ Len(g) # 1 => DOMAIN next = DOMAIN s /\ \A i \in DOMAIN s \ {1} : next[i] = s[i]
  BY Shifted
<1>2. Head(g) = g[1]
  BY <1>1
<1>3. PICK i \in DOMAIN s :
        /\ s[i].calls[1] \in {D!Plain("reload"), D!Plain("bootstrap")}
        /\ \A k \in DOMAIN s : k >= i => \A j \in DOMAIN s[k].calls : s[k].calls[j] \in Calm
  BY DEF Coming
<1> HIDE DEF rest, next
<1>4. CASE i = 1
  BY <1>1, <1>2, <1>3, <1>4 DEF Within
<1>5. CASE i # 1 /\ Len(g) = 1
  <2>1. i - 1 \in DOMAIN rest /\ rest[i - 1] = s[i]
    BY <1>1, <1>5
  <2>2. \A k \in DOMAIN rest : k >= i - 1 => k + 1 \in DOMAIN s /\ rest[k] = s[k + 1] /\ k + 1 >= i
    BY <1>1
  <2>3. Coming(rest)
    BY <1>3, <2>1, <2>2 DEF Coming
  <2> QED
    BY <1>1, <1>5, <2>3 DEF next
<1>6. CASE i # 1 /\ Len(g) # 1
  <2>1. i \in DOMAIN next /\ next[i] = s[i]
    BY <1>1, <1>6
  <2>2. \A k \in DOMAIN next : k >= i => k \in DOMAIN s /\ next[k] = s[k]
    BY <1>1, <1>6
  <2>3. Coming(next)
    BY <1>3, <2>1, <2>2 DEF Coming
  <2> QED
    BY <2>3 DEF next
<1> QED
  BY <1>4, <1>5, <1>6

\* A recovery goes on.
LEMMA UndoGoesOn ==
  ASSUME DaemonShapes, NEW h \in Host, OneOs(h), NEW b \in Host, OneOs(b), D!Agree(b), NEW k,
         NEW t \in Seq(Groups), t # <<>>, Undoing(h, t, b, k), NEW p, Did(h, Head(Head(t).calls), p)
  PROVE  Undoing(p, D!AfterCall(t), b, k)
<1> DEFINE c == Head(Head(t).calls)
           next == D!AfterCall(t)
<1>1. /\ c \in DaemonCalls /\ next \in Seq(Groups) /\ \A X : Within(t, X) => c \in X /\ Within(next, X)
      /\ Has(t, c) /\ \A d : Has(t, d) => d = c \/ Has(next, d)
  BY Advanced
<1>2. Did(h, c, p)
  OBVIOUS
<1>3. ~Has(t, D!Plain("enable")) => c # D!Plain("enable") /\ ~Has(next, D!Plain("enable"))
  <2> SUFFICES ASSUME ~Has(t, D!Plain("enable")) PROVE c # D!Plain("enable") /\ ~Has(next, D!Plain("enable"))
    OBVIOUS
  <2> DEFINE X == DaemonCalls \ {D!Plain("enable")}
  <2>1. Within(t, X)
    <3>1. ASSUME NEW i \in DOMAIN t, NEW j \in DOMAIN t[i].calls PROVE t[i].calls[j] \in DaemonCalls
      <4>0. t[i] \in Groups
        OBVIOUS
      <4>1. t[i].calls \in Seq(DaemonCalls)
        BY <4>0 DEF Groups
      <4> QED
        BY <4>1
    <3> QED
      BY <3>1 DEF Within, Has
  <2>2. c \in X /\ Within(next, X)
    BY <1>1, <2>1
  <2> QED
    BY <2>2 DEF Within, Has
<1>4. Coming(t) => Coming(next) \/ (c \in {D!Plain("reload"), D!Plain("bootstrap")} /\ Within(t, Calm))
  BY ComingGoesOn
<1> HIDE DEF c, next
<1>5. D!Mine \subseteq D!Files /\ h.file \in FilesOf /\ b.file \in FilesOf
  BY DEF D!Mine, D!Files, DaemonShapes, Host
<1>6. \A n, f, v : D!Plain(n)[1] = n /\ (n # "write" => D!Plain(n) # D!Write(f, v)) /\ D!Write(f, v)[1] = "write"
  BY DEF D!Plain, D!Write
<1>7. c \in UndoCalls(b)
  BY <1>1 DEF Undoing
<1>8. \/ \E f \in D!Mine : c = D!Write(f, b.file[f]) /\ p.file = [h.file EXCEPT ![f] = b.file[f]]
      \/ c[1] # "write" /\ p.file = h.file /\ \A f, v : c # D!Write(f, v)
  <2>1. \A f \in D!Mine : c = D!Write(f, b.file[f]) => p.file = [h.file EXCEPT ![f] = b.file[f]]
    BY <1>2 DEF Did, D!Write
  <2>2. c[1] # "write" => p.file = h.file
    BY <1>2 DEF Did
  <2>3. \/ \E f \in D!Mine : c = D!Write(f, b.file[f])
        \/ \E n \in {"reload", "enable", "restart", "disable", "bootout", "bootstrap", "unwrap", "unlog", "unlink"} :
             c = D!Plain(n)
    BY <1>7 DEF UndoCalls
  <2>4. CASE \E f \in D!Mine : c = D!Write(f, b.file[f])
    BY <2>1, <2>4
  <2>5. ASSUME NEW n, n # "write", c = D!Plain(n)
        PROVE  c[1] # "write" /\ \A f, v : c # D!Write(f, v)
    BY <2>5 DEF D!Plain, D!Write
  <2> QED
    BY <2>2, <2>3, <2>4, <2>5
<1>9. \A f \in D!Mine : p.file[f] = b.file[f] \/ Has(next, D!Write(f, b.file[f]))
  <2> SUFFICES ASSUME NEW f \in D!Mine, p.file[f] # b.file[f] PROVE Has(next, D!Write(f, b.file[f]))
    OBVIOUS
  <2>1. h.file[f] = b.file[f] \/ Has(t, D!Write(f, b.file[f]))
    BY DEF Undoing
  <2>2. h.file[f] = b.file[f] => p.file[f] = b.file[f]
    BY <1>5, <1>8 DEF FilesOf
  <2>3. c = D!Write(f, b.file[f]) => p.file[f] = b.file[f]
    BY <1>2, <1>5 DEF Did, D!Write, FilesOf
  <2> QED
    BY <1>1, <2>1, <2>2, <2>3
<1>10. ASSUME Within(t, Calm) PROVE p.file = h.file
  BY <1>1, <1>2, <1>6, <1>10 DEF Calm, Did
<1>11. ASSUME h.file = b.file, p.file = h.file PROVE D!Read(p) = D!Read(h)
  BY <1>11 DEF D!Read, D!UnitsPresent
<1>12. Settled(p, next, b) \/ Coming(next) \/ Untold(p, next, b)
  <2>1. CASE Settled(h, t, b)
    <3>1. h.file = b.file /\ h.loaded = D!Read(h) /\ p.file = h.file /\ Within(next, Calm) /\ c \in Calm
      BY <1>1, <1>10, <2>1 DEF Settled, D!Agree
    <3>2. p.loaded \in {D!Read(h), h.loaded}
      BY <1>2, <1>6, <3>1 DEF Calm, Did
    <3> QED
      BY <1>11, <3>1, <3>2 DEF Settled, D!Agree
  <2>2. CASE Coming(t) /\ ~Coming(next)
    <3>1. c \in {D!Plain("reload"), D!Plain("bootstrap")} /\ Within(t, Calm) /\ Within(next, Calm)
      BY <1>1, <1>4, <2>2
    <3>2. \A f \in D!Mine : h.file[f] = b.file[f]
      <4>1. \A f, v : ~Has(t, D!Write(f, v))
        BY <1>6, <3>1 DEF Has, Within, Calm
      <4> QED
        BY <4>1 DEF Undoing
    <3>3. h.file = b.file
      BY <1>5, <3>2 DEF OneOs, FilesOf
    <3>4. p.loaded = D!Read(h)
      BY <1>2, <1>6, <3>1 DEF Did
    <3>5. p.file = h.file
      BY <1>10, <3>1
    <3> QED
      BY <1>11, <3>1, <3>3, <3>4, <3>5 DEF Settled, D!Agree
  <2>3. CASE Untold(h, t, b)
    <3>1. c \in Silent(b) /\ Within(next, Silent(b)) /\ h.loaded = b.loaded
      BY <1>1, <2>3 DEF Untold
    <3>2. p.loaded = h.loaded
      BY <1>2, <1>6, <3>1 DEF Silent, Did
    <3> QED
      BY <3>1, <3>2 DEF Untold
  <2> QED
    BY <2>1, <2>2, <2>3 DEF Undoing
<1>13. ASSUME FirstApply(k, b) PROVE Cleans(p, next, b)
  <2>1. Cleans(h, t, b)
    BY <1>13 DEF Undoing
  <2>2. c[1] \in {"write", "reload", "restart", "disable", "bootout", "bootstrap", "unwrap", "unlog", "unlink"}
        /\ (c[1] = "unwrap" => ~b.wrapper) /\ (c[1] = "unlog" => ~b.log)
        /\ (c[1] # "write" => c = D!Plain(c[1]))
    BY <1>3, <1>6, <1>7, <2>1 DEF UndoCalls, Cleans
  <2>3. /\ p.wrapper = IF c[1] = "unwrap" THEN FALSE ELSE h.wrapper
        /\ p.log = IF c[1] = "unlog" THEN FALSE ELSE h.log
        /\ p.link = IF c[1] \in {"unlink", "disable"} THEN FALSE ELSE h.link
    BY <1>2, <2>2 DEF Did
  <2>4. \A n \in {"unwrap", "unlog", "unlink"} : c = D!Plain(n) => c[1] = n
    BY <1>6
  <2>5. h.wrapper \in BOOLEAN /\ b.wrapper \in BOOLEAN /\ h.log \in BOOLEAN /\ b.log \in BOOLEAN
        /\ h.link \in BOOLEAN /\ b.link \in BOOLEAN
    BY DEF Host
  <2>6. p.wrapper # b.wrapper => Has(next, D!Plain("unwrap"))
    <3>1. CASE c[1] = "unwrap"
      <4>1. p.wrapper = FALSE /\ b.wrapper = FALSE
        BY <2>2, <2>3, <2>5, <3>1
      <4> QED
        BY <4>1
    <3>2. CASE c[1] # "unwrap"
      <4>1. p.wrapper = h.wrapper
        BY <2>3, <3>2
      <4>2. c # D!Plain("unwrap")
        BY <2>4, <3>2
      <4> QED
        BY <1>1, <2>1, <4>1, <4>2 DEF Cleans
    <3> QED
      BY <3>1, <3>2
  <2>7. p.log # b.log => Has(next, D!Plain("unlog"))
    <3>1. CASE c[1] = "unlog"
      <4>1. p.log = FALSE /\ b.log = FALSE
        BY <2>2, <2>3, <2>5, <3>1
      <4> QED
        BY <4>1
    <3>2. CASE c[1] # "unlog"
      <4>1. p.log = h.log
        BY <2>3, <3>2
      <4>2. c # D!Plain("unlog")
        BY <2>4, <3>2
      <4> QED
        BY <1>1, <2>1, <4>1, <4>2 DEF Cleans
    <3> QED
      BY <3>1, <3>2
  <2>8. p.link /\ ~b.link => Has(next, D!Plain("unlink"))
    BY <1>1, <2>1, <2>2, <2>3, <2>4, <2>5 DEF Cleans
  <2> QED
    BY <1>3, <2>1, <2>6, <2>7, <2>8 DEF Cleans
<1>14. Within(next, UndoCalls(b))
  BY <1>1 DEF Undoing
<1> QED
  BY <1>9, <1>12, <1>13, <1>14 DEF Undoing, next

\* The calls of one group, of two and of three.
Of(cs) == {cs[j] : j \in DOMAIN cs}

LEMMA OfGroups ==
  /\ \A g \in Groups :
       /\ \A c : Has(<<g>>, c) <=> c \in Of(g.calls)
       /\ \A X : Within(<<g>>, X) <=> Of(g.calls) \subseteq X
  /\ \A g1, g2 \in Groups :
       /\ \A c : Has(<<g1, g2>>, c) <=> c \in Of(g1.calls) \cup Of(g2.calls)
       /\ \A X : Within(<<g1, g2>>, X) <=> Of(g1.calls) \cup Of(g2.calls) \subseteq X
  /\ \A g1, g2, g3 \in Groups :
       /\ \A c : Has(<<g1, g2, g3>>, c) <=> c \in Of(g1.calls) \cup Of(g2.calls) \cup Of(g3.calls)
       /\ \A X : Within(<<g1, g2, g3>>, X) <=> Of(g1.calls) \cup Of(g2.calls) \cup Of(g3.calls) \subseteq X
<1>1. ASSUME NEW g \in Groups
      PROVE  /\ \A c : Has(<<g>>, c) <=> c \in Of(g.calls)
             /\ \A X : Within(<<g>>, X) <=> Of(g.calls) \subseteq X
  BY DEF Has, Within, Of
<1>2. ASSUME NEW g1 \in Groups, NEW g2 \in Groups
      PROVE  /\ \A c : Has(<<g1, g2>>, c) <=> c \in Of(g1.calls) \cup Of(g2.calls)
             /\ \A X : Within(<<g1, g2>>, X) <=> Of(g1.calls) \cup Of(g2.calls) \subseteq X
  BY DEF Has, Within, Of
<1>3. ASSUME NEW g1 \in Groups, NEW g2 \in Groups, NEW g3 \in Groups
      PROVE  /\ \A c : Has(<<g1, g2, g3>>, c) <=> c \in Of(g1.calls) \cup Of(g2.calls) \cup Of(g3.calls)
             /\ \A X : Within(<<g1, g2, g3>>, X) <=> Of(g1.calls) \cup Of(g2.calls) \cup Of(g3.calls) \subseteq X
  BY DEF Has, Within, Of
<1> QED
  BY <1>1, <1>2, <1>3

LEMMA OfBoth ==
  ASSUME NEW s \in Seq(DaemonCalls), NEW t \in Seq(DaemonCalls)
  PROVE  s \o t \in Seq(DaemonCalls) /\ Of(s \o t) = Of(s) \cup Of(t)
<1> DEFINE u == s \o t
<1>1. /\ \A i \in DOMAIN s : i \in DOMAIN u /\ u[i] = s[i]
      /\ \A i \in DOMAIN t : Len(s) + i \in DOMAIN u /\ u[Len(s) + i] = t[i]
      /\ \A i \in DOMAIN u : i \in DOMAIN s \/ (i - Len(s) \in DOMAIN t /\ u[i] = t[i - Len(s)])
  OBVIOUS
<1>2. u \in Seq(DaemonCalls)
  OBVIOUS
<1> HIDE DEF u
<1>3. Of(u) = Of(s) \cup Of(t)
  BY <1>1 DEF Of
<1> QED
  BY <1>2, <1>3 DEF u

\* What a recovery is made of.
LEMMA UndoParts ==
  ASSUME DaemonShapes, NEW b \in Host
  PROVE  /\ Of(D!RestoreFiles(b)) = {D!Write(f, b.file[f]) : f \in D!Mine}
         /\ D!RestoreFiles(b) \in Seq(DaemonCalls) /\ D!RestoreFiles(b) # <<>>
         /\ D!Register("skip") \in Seq(Groups) /\ Coming(D!Register("skip"))
         /\ Within(D!Register("skip"), {D!Plain(c) : c \in {"reload", "enable", "restart", "bootout", "bootstrap"}})
         /\ os = "linux" => Within(D!Register("skip"), Calm)
<1>1. CASE os = "mac"
  <2>1. D!Mine = {"plist"} /\ D!RestoreFiles(b) = <<D!Write("plist", b.file["plist"])>>
    BY <1>1 DEF D!Mine, D!RestoreFiles
  <2>2. D!Register("skip") = <<[calls |-> <<D!Plain("bootout")>>, onError |-> "skip"],
                               [calls |-> <<D!Plain("bootstrap")>>, onError |-> "skip"]>>
    BY <1>1 DEF D!Register, D!Group
  <2>3. Coming(D!Register("skip"))
    BY <2>2 DEF Coming, Calm
  <2>4. Within(D!Register("skip"), {D!Plain(c) : c \in {"reload", "enable", "restart", "bootout", "bootstrap"}})
    BY <2>2 DEF Within
  <2> QED
    BY <1>1, <2>1, <2>3, <2>4, Plans DEF Of
<1>2. CASE os = "linux"
  <2>1. D!Mine = {"service", "timer"}
        /\ D!RestoreFiles(b) = <<D!Write("service", b.file["service"]), D!Write("timer", b.file["timer"])>>
    BY <1>2 DEF D!Mine, D!RestoreFiles
  <2>2. D!Register("skip") =
          <<[calls |-> <<D!Plain("reload"), D!Plain("enable"), D!Plain("restart")>>, onError |-> "skip"]>>
    BY <1>2 DEF D!Register, D!Group
  <2>3. Coming(D!Register("skip"))
    BY <2>2 DEF Coming, Calm
  <2>4. /\ Within(D!Register("skip"), {D!Plain(c) : c \in {"reload", "enable", "restart", "bootout", "bootstrap"}})
        /\ Within(D!Register("skip"), Calm)
    BY <2>2 DEF Within, Calm
  <2>5. Of(D!RestoreFiles(b)) = {D!Write(f, b.file[f]) : f \in D!Mine}
    BY <2>1 DEF Of
  <2> QED
    BY <2>3, <2>4, <2>5, Plans
<1> QED
  BY <1>1, <1>2 DEF DaemonShapes

\* The files and then a registration: what a recovery does where there was a timer.
LEMMA FilesThenRegister ==
  ASSUME DaemonShapes, NEW h \in Host, NEW b \in Host, NEW k, ~FirstApply(k, b)
  PROVE  /\ Undoing(h, <<D!Group(D!RestoreFiles(b), "raise")>> \o D!Register("skip"), b, k)
         /\ Undoing(h, <<D!Group(D!RestoreFiles(b), "raise"), D!Group(<<D!Plain("reload")>>, "skip")>>
                       \o D!Register("skip"), b, k)
            \/ os = "mac"
         /\ h.file = b.file => Undoing(h, D!Register("skip"), b, k)
         /\ h.loaded = b.loaded => Undoing(h, <<D!Group(D!RestoreFiles(b), "raise")>>, b, k)
<1> DEFINE F == D!RestoreFiles(b)
           back == D!Group(F, "raise")
           tell == D!Group(<<D!Plain("reload")>>, "skip")
           again == D!Register("skip")
           plains == {D!Plain(c) : c \in {"reload", "enable", "restart", "bootout", "bootstrap"}}
<1>1. /\ Of(F) = {D!Write(f, b.file[f]) : f \in D!Mine} /\ F \in Seq(DaemonCalls) /\ F # <<>>
      /\ again \in Seq(Groups) /\ Coming(again) /\ Within(again, plains)
  BY UndoParts
<1>2. plains \subseteq UndoCalls(b) /\ Of(F) \subseteq UndoCalls(b) /\ Of(F) \subseteq Silent(b)
  BY <1>1 DEF UndoCalls, Silent
<1>3. back.calls = F /\ back \in Groups /\ <<back>> \in Seq(Groups)
  <2>1. back = [calls |-> F, onError |-> "raise"]
    BY DEF D!Group
  <2> HIDE DEF F, back
  <2>2. back \in Groups /\ back.calls = F
    BY <1>1, <2>1 DEF Groups
  <2> QED
    BY <2>2
<1>4. os = "linux" => tell.calls = <<D!Plain("reload")>> /\ tell \in Groups /\ <<back, tell>> \in Seq(Groups)
  <2> SUFFICES ASSUME os = "linux"
               PROVE  tell.calls = <<D!Plain("reload")>> /\ tell \in Groups /\ <<back, tell>> \in Seq(Groups)
    OBVIOUS
  <2>1. tell = [calls |-> <<D!Plain("reload")>>, onError |-> "skip"]
    BY DEF D!Group
  <2>2. D!Plain("reload") \in DaemonCalls
    BY DEF DaemonCalls, Plains
  <2>3. tell \in Groups /\ tell.calls = <<D!Plain("reload")>>
    <3> DEFINE list == <<D!Plain("reload")>>
    <3>1. list \in Seq(DaemonCalls) /\ list # <<>>
      BY <2>2
    <3>2. tell = [calls |-> list, onError |-> "skip"]
      BY <2>1
    <3> HIDE DEF list, tell
    <3>3. tell \in Groups /\ tell.calls = list
      BY <3>1, <3>2 DEF Groups
    <3> QED
      BY <3>3 DEF list
  <2> HIDE DEF back, tell
  <2> QED
    BY <1>3, <2>3
<1> HIDE DEF F, back, tell, again, plains
<1>5. Within(again, UndoCalls(b))
  BY <1>1, <1>2 DEF Within
<1>6. ASSUME NEW s \in Seq(Groups), Within(s, UndoCalls(b)), \A f \in D!Mine : Has(s, D!Write(f, b.file[f]))
      PROVE  Undoing(h, s \o again, b, k)
  <2>1. Within(s \o again, UndoCalls(b)) /\ \A f \in D!Mine : Has(s \o again, D!Write(f, b.file[f]))
    BY <1>1, <1>5, <1>6, Concatenated
  <2>2. Coming(s \o again)
    BY <1>1, ComesToo
  <2> QED
    BY <2>1, <2>2 DEF Undoing
<1>7. Within(<<back>>, UndoCalls(b)) /\ Within(<<back>>, Silent(b))
      /\ \A f \in D!Mine : Has(<<back>>, D!Write(f, b.file[f]))
  BY <1>1, <1>2, <1>3, OfGroups
<1>8. Undoing(h, <<back>> \o again, b, k)
  BY <1>3, <1>6, <1>7
<1>9. ASSUME os = "linux" PROVE Undoing(h, <<back, tell>> \o again, b, k)
  <2>1. Of(tell.calls) = {D!Plain("reload")} /\ D!Plain("reload") \in plains
    BY <1>4, <1>9 DEF Of, plains
  <2>2. Within(<<back, tell>>, UndoCalls(b)) /\ \A f \in D!Mine : Has(<<back, tell>>, D!Write(f, b.file[f]))
    BY <1>1, <1>2, <1>3, <1>4, <1>9, <2>1, OfGroups
  <2> QED
    BY <1>4, <1>6, <1>9, <2>2
<1>10. ASSUME h.file = b.file PROVE Undoing(h, again, b, k)
  BY <1>1, <1>5, <1>10 DEF Undoing
<1>11. ASSUME h.loaded = b.loaded PROVE Undoing(h, <<back>>, b, k)
  BY <1>7, <1>11 DEF Undoing, Untold
<1> QED
  BY <1>8, <1>9, <1>10, <1>11 DEF F, back, tell, again, DaemonShapes

\* An apply that raised begins its recovery.
LEMMA ApplyUndoes ==
  ASSUME DaemonShapes, NEW h \in Host, OneOs(h), NEW b \in Host, OneOs(b), D!Agree(b),
         b.wrapper => h.wrapper, b.log => h.log, os = "mac" => h.loaded \in {D!NoFiles, b.loaded}
  PROVE  Undoing(h, D!UndoApply(b), b, "apply")
<1>1. CASE D!UnitsPresent(b)
  <2>1. ~FirstApply("apply", b)
    BY <1>1 DEF FirstApply
  <2> QED
    BY <1>1, <2>1, FilesThenRegister DEF D!UndoApply, DaemonShapes
<1>2. CASE ~D!UnitsPresent(b)
  <2> DEFINE F == D!RestoreFiles(b)
             unwrap == D!If(~b.wrapper, <<D!Plain("unwrap")>>)
             unlog == D!If(~b.log, <<D!Plain("unlog")>>)
             unlink == D!If(~b.link, <<D!Plain("unlink")>>)
             writes == {D!Write(f, b.file[f]) : f \in D!Mine}
  <2>1. Of(F) = writes /\ F \in Seq(DaemonCalls) /\ F # <<>>
    BY UndoParts
  <2>2. /\ h.wrapper \in BOOLEAN /\ b.wrapper \in BOOLEAN /\ h.log \in BOOLEAN /\ b.log \in BOOLEAN
        /\ h.link \in BOOLEAN /\ b.link \in BOOLEAN
    BY DEF Host
  <2>3. /\ Of(unwrap) = {D!Plain(c) : c \in {n \in {"unwrap"} : ~b.wrapper}}
        /\ Of(unlog) = {D!Plain(c) : c \in {n \in {"unlog"} : ~b.log}}
        /\ Of(unlink) = {D!Plain(c) : c \in {n \in {"unlink"} : ~b.link}}
    BY DEF Of, D!If
  <2>4. /\ unwrap \in Seq(DaemonCalls) /\ unlog \in Seq(DaemonCalls)
        /\ os = "linux" => unlink \in Seq(DaemonCalls)
        /\ ~b.wrapper => unwrap # <<>>
        /\ ~b.log => unlog # <<>>
    <3>1. /\ D!Plain("unwrap") \in DaemonCalls /\ D!Plain("unlog") \in DaemonCalls
          /\ os = "linux" => D!Plain("unlink") \in DaemonCalls
      BY DEF DaemonCalls, Plains
    <3>2. unwrap \in Seq(DaemonCalls) /\ (~b.wrapper => unwrap # <<>>)
      BY <3>1 DEF D!If
    <3>3. unlog \in Seq(DaemonCalls) /\ (~b.log => unlog # <<>>)
      BY <3>1 DEF D!If
    <3>4. os = "linux" => unlink \in Seq(DaemonCalls)
      BY <3>1 DEF D!If
    <3> QED
      BY <3>2, <3>3, <3>4
  <2>5. D!Plain("enable") \notin writes \cup Of(unwrap) \cup Of(unlog) \cup Of(unlink)
                                 \cup {D!Plain("disable"), D!Plain("reload")}
    BY <2>3 DEF D!Plain, D!Write
  <2>6. /\ ~b.wrapper => D!Plain("unwrap") \in Of(unwrap)
        /\ ~b.log => D!Plain("unlog") \in Of(unlog)
        /\ ~b.link => D!Plain("unlink") \in Of(unlink)
    BY <2>3
  <2>7. /\ h.wrapper # b.wrapper => ~b.wrapper
        /\ h.log # b.log => ~b.log
    BY <2>2
  <2>8. /\ writes \cup Of(unwrap) \cup Of(unlog) \subseteq Silent(b)
        /\ writes \cup Of(unwrap) \cup Of(unlog) \cup Of(unlink) \cup {D!Plain("disable"), D!Plain("reload")}
             \subseteq UndoCalls(b)
        /\ Of(unwrap) \cup Of(unlog) \cup {D!Plain("reload")} \subseteq Calm
    BY <2>3 DEF Silent, UndoCalls, Calm
  <2>9. D!UndoApply(b) =
          IF os = "mac" THEN <<D!Group(F \o unwrap \o unlog, "raise")>>
          ELSE <<D!Group(<<D!Plain("disable")>>, "skip"), D!Group(F \o unlink, "skip"),
                 D!Group(<<D!Plain("reload")>>, "skip")>>
               \o D!If(~b.wrapper \/ ~b.log, <<D!Group(unwrap \o unlog, "raise")>>)
    BY <1>2 DEF D!UndoApply, DaemonShapes
  <2>10. /\ F \o unwrap \o unlog \in Seq(DaemonCalls) /\ F \o unwrap \o unlog # <<>>
         /\ Of(F \o unwrap \o unlog) = writes \cup Of(unwrap) \cup Of(unlog)
         /\ unwrap \o unlog \in Seq(DaemonCalls) /\ Of(unwrap \o unlog) = Of(unwrap) \cup Of(unlog)
         /\ ~b.wrapper \/ ~b.log => unwrap \o unlog # <<>>
         /\ os = "linux" => /\ F \o unlink \in Seq(DaemonCalls) /\ F \o unlink # <<>>
                            /\ Of(F \o unlink) = writes \cup Of(unlink)
    <3> HIDE DEF F, unwrap, unlog, unlink, writes
    <3>1. F \o unwrap \in Seq(DaemonCalls) /\ Of(F \o unwrap) = writes \cup Of(unwrap)
      BY <2>1, <2>4, OfBoth
    <3>2. F \o unwrap \o unlog \in Seq(DaemonCalls) /\ Of(F \o unwrap \o unlog) = writes \cup Of(unwrap) \cup Of(unlog)
      BY <2>4, <3>1, OfBoth
    <3>3. \A s, t \in Seq(DaemonCalls) : s # <<>> \/ t # <<>> => s \o t # <<>>
      OBVIOUS
    <3>4. unwrap \o unlog \in Seq(DaemonCalls) /\ Of(unwrap \o unlog) = Of(unwrap) \cup Of(unlog)
      BY <2>4, OfBoth
    <3>5. os = "linux" => F \o unlink \in Seq(DaemonCalls) /\ Of(F \o unlink) = writes \cup Of(unlink)
      BY <2>1, <2>4, OfBoth
    <3> QED
      BY <2>1, <2>4, <3>1, <3>2, <3>3, <3>4, <3>5
  <2>11. ASSUME NEW cs \in Seq(DaemonCalls), cs # <<>>, NEW e \in {"raise", "skip"}
         PROVE  D!Group(cs, e) \in Groups /\ D!Group(cs, e).calls = cs
    BY <2>11 DEF D!Group, Groups
  <2> HIDE DEF F, unwrap, unlog, unlink
  <2>12. CASE os = "mac"
    <3> DEFINE g == D!Group(F \o unwrap \o unlog, "raise")
    <3>1. g \in Groups /\ Of(g.calls) = writes \cup Of(unwrap) \cup Of(unlog)
      BY <2>10, <2>11
    <3> HIDE DEF g, writes
    <3>2. /\ Within(<<g>>, UndoCalls(b)) /\ Within(<<g>>, Silent(b)) /\ ~Has(<<g>>, D!Plain("enable"))
          /\ \A w \in writes : Has(<<g>>, w)
          /\ ~b.wrapper => Has(<<g>>, D!Plain("unwrap"))
          /\ ~b.log => Has(<<g>>, D!Plain("unlog"))
      BY <2>5, <2>6, <2>8, <3>1, OfGroups
    <3>3. h.loaded = b.loaded
      BY <1>2, <2>12 DEF D!Agree, D!Read
    <3>4. ~h.link
      BY <2>12 DEF OneOs
    <3>5. \A f \in D!Mine : Has(<<g>>, D!Write(f, b.file[f]))
      BY <3>2 DEF writes
    <3>6. Cleans(h, <<g>>, b)
      BY <2>7, <3>2, <3>4 DEF Cleans
    <3>7. Undoing(h, <<g>>, b, "apply")
      BY <3>2, <3>3, <3>5, <3>6 DEF Undoing, Untold
    <3> QED
      BY <2>9, <2>12, <3>7 DEF g
  <2>13. CASE os = "linux"
    <3> DEFINE g1 == D!Group(<<D!Plain("disable")>>, "skip")
               g2 == D!Group(F \o unlink, "skip")
               g3 == D!Group(<<D!Plain("reload")>>, "skip")
               first == <<g1, g2, g3>>
               last == D!If(~b.wrapper \/ ~b.log, <<D!Group(unwrap \o unlog, "raise")>>)
    <3>1. /\ g1 \in Groups /\ g1.calls = <<D!Plain("disable")>>
          /\ g3 \in Groups /\ g3.calls = <<D!Plain("reload")>>
      <4>1. D!Plain("disable") \in DaemonCalls /\ D!Plain("reload") \in DaemonCalls
        BY <2>13 DEF DaemonCalls, Plains
      <4>2. \A c \in DaemonCalls : <<c>> \in Seq(DaemonCalls) /\ <<c>> # <<>>
        OBVIOUS
      <4> QED
        BY <2>11, <4>1, <4>2
    <3>2. g2 \in Groups /\ Of(g2.calls) = writes \cup Of(unlink)
      BY <2>10, <2>11, <2>13
    <3>3. Of(g1.calls) = {D!Plain("disable")} /\ Of(g3.calls) = {D!Plain("reload")}
      BY <3>1 DEF Of
    <3>4. last \in Seq(Groups) /\ (\A c : Has(last, c) <=> c \in Of(unwrap) \cup Of(unlog))
          /\ Within(last, Of(unwrap) \cup Of(unlog))
      <4>1. CASE ~b.wrapper \/ ~b.log
        <5>1. D!Group(unwrap \o unlog, "raise") \in Groups
              /\ Of(D!Group(unwrap \o unlog, "raise").calls) = Of(unwrap) \cup Of(unlog)
          BY <2>10, <2>11, <4>1
        <5>2. last = <<D!Group(unwrap \o unlog, "raise")>>
          BY <4>1 DEF D!If
        <5> HIDE DEF last
        <5> QED
          BY <5>1, <5>2, OfGroups
      <4>2. CASE b.wrapper /\ b.log
        <5>1. last = <<>>
          BY <4>2 DEF D!If
        <5>2. Of(unwrap) \cup Of(unlog) = {}
          BY <2>3, <4>2
        <5>3. \A c : ~Has(<<>>, c)
          BY DEF Has
        <5>4. \A X : Within(<<>>, X)
          BY DEF Within
        <5>5. <<>> \in Seq(Groups)
          OBVIOUS
        <5> HIDE DEF last
        <5> QED
          BY <5>1, <5>2, <5>3, <5>4, <5>5
      <4> QED
        BY <4>1, <4>2
    <3>5. first \in Seq(Groups)
      <4> HIDE DEF g1, g2, g3
      <4> QED
        BY <3>1, <3>2
    <3>6. Coming(first)
      <4> HIDE DEF g1, g2, g3
      <4>1. 3 \in DOMAIN first /\ first[3] = g3 /\ \A i \in DOMAIN first : i >= 3 => i = 3
        OBVIOUS
      <4> HIDE DEF first
      <4>2. g3.calls[1] = D!Plain("reload") /\ \A j \in DOMAIN g3.calls : g3.calls[j] \in Calm
        BY <3>1 DEF Calm
      <4> QED
        BY <4>1, <4>2 DEF Coming
    <3> DEFINE X == Of(unwrap) \cup Of(unlog)
               Y == writes \cup Of(unlink) \cup {D!Plain("disable"), D!Plain("reload")}
    <3> HIDE DEF g1, g2, g3, last, writes
    <3>7. (\A c : Has(first, c) <=> c \in Y) /\ Within(first, Y)
      <4>1. Y = Of(g1.calls) \cup Of(g2.calls) \cup Of(g3.calls)
        BY <3>2, <3>3
      <4> QED
        BY <3>1, <3>2, <4>1, OfGroups
    <3> HIDE DEF first
    <3>8. Within(last, Calm) /\ Within(last, UndoCalls(b)) /\ Within(first, UndoCalls(b))
      <4>1. X \subseteq Calm /\ X \subseteq UndoCalls(b) /\ Y \subseteq UndoCalls(b)
        BY <2>8
      <4> QED
        BY <3>4, <3>7, <4>1 DEF Within
    <3>9. Within(first \o last, UndoCalls(b)) /\ Coming(first \o last)
          /\ \A c : Has(first \o last, c) <=> c \in X \cup Y
      BY <3>4, <3>5, <3>6, <3>7, <3>8, Concatenated, ComesToo
    <3>10. \A f \in D!Mine : Has(first \o last, D!Write(f, b.file[f]))
      BY <3>9 DEF writes
    <3>11. Cleans(h, first \o last, b)
      BY <2>5, <2>6, <2>7, <3>9 DEF Cleans
    <3>12. Undoing(h, first \o last, b, "apply")
      BY <3>9, <3>10, <3>11 DEF Undoing
    <3> QED
      BY <2>9, <2>13, <3>12 DEF first, g1, g2, g3, last
  <2> QED
    BY <2>12, <2>13 DEF DaemonShapes
<1> QED
  BY <1>1, <1>2

\* A recovery that is done.
LEMMA UndoneIsRestored ==
  ASSUME DaemonShapes, NEW h \in Host, OneOs(h), NEW b \in Host, OneOs(b), D!Agree(b), NEW k,
         Undoing(h, <<>>, b, k)
  PROVE  Restored(h, b, k)
<1>1. \A c : ~Has(<<>>, c)
  BY DEF Has
<1>2. ~Coming(<<>>)
  BY DEF Coming
<1>3. \A f \in D!Mine : h.file[f] = b.file[f]
  BY <1>1 DEF Undoing
<1>4. h.file = b.file
  BY <1>3 DEF OneOs, Host, FilesOf
<1>5. D!Agree(h)
  BY <1>2, <1>4 DEF Undoing, Settled, Untold, D!Agree, D!Read, D!UnitsPresent
<1>6. FirstApply(k, b) => h.wrapper = b.wrapper /\ h.log = b.log /\ (h.link => b.link)
  BY <1>1 DEF Undoing, Cleans
<1> QED
  BY <1>4, <1>5, <1>6 DEF Restored

LEMMA SameRestore ==
  ASSUME os' = os
  PROVE  /\ PlistWrites' = PlistWrites /\ ApplyCalls' = ApplyCalls /\ D!Unregister' = D!Unregister
         /\ DeleteCalls' = DeleteCalls
  BY SameOs DEF PlistWrites, Contents, D!Write

\* Where nothing but what is not asked of changes.
LEMMA RestoreStays ==
  ASSUME RestoreInv, os' = os,
         \/ UNCHANGED <<host.file, host.link, host.wrapper, host.log, host.loaded, at, todo, op>>
         \/ at' = "idle" /\ ~op'.error
         \/ at' \in {"record", "rival", "clean", "ended", "escaped"} /\ ~op'.error
         \/ at' \in {"record", "rival", "clean", "idle"} /\ at' = at /\ op'.error = op.error
  PROVE  RestoreInv'
<1>1. CASE UNCHANGED <<host.file, host.link, host.wrapper, host.log, host.loaded, at, todo, op>>
  <2>1. Undoing(host, todo, op.before, op.kind)' <=> Undoing(host, todo, op.before, op.kind)
    BY <1>1 DEF Undoing, Settled, Untold, Cleans, FirstApply, UndoCalls, Silent, D!Agree, D!Read,
                D!UnitsPresent, D!Mine
  <2>2. Restored(host, op.before, op.kind)' <=> Restored(host, op.before, op.kind)
    BY <1>1 DEF Restored, FirstApply, D!Agree, D!Read, D!UnitsPresent, D!Mine
  <2>3. D!Agree(op.before)' <=> D!Agree(op.before)
    BY <1>1 DEF D!Agree, D!Read, D!UnitsPresent, D!Mine
  <2> QED
    BY <1>1, <2>1, <2>2, <2>3, SameRestore DEF RestoreInv, Same
<1>2. CASE at' = "idle" /\ ~op'.error
  BY <1>2 DEF RestoreInv
<1>3. CASE at' \in {"record", "rival", "clean", "ended", "escaped"} /\ ~op'.error
  BY <1>3 DEF RestoreInv
<1>4. CASE at' \in {"record", "rival", "clean", "idle"} /\ at' = at /\ op'.error = op.error
  BY <1>4 DEF RestoreInv
<1> QED
  BY <1>1, <1>2, <1>3, <1>4

\* The last call of one group, or of the second of two.
LEMMA LastOfOne ==
  ASSUME NEW list \in Seq(DaemonCalls), NEW e, NEW X, \A j \in DOMAIN list : list[j] \in X => j = Len(list)
  PROVE  /\ Lasts(<<[calls |-> list, onError |-> e]>>, X)
         /\ \A c, d : c \notin X =>
              Lasts(<<[calls |-> <<c>>, onError |-> d], [calls |-> list, onError |-> e]>>, X)
<1> DEFINE g == [calls |-> list, onError |-> e]
<1>1. g.calls = list
  OBVIOUS
<1>2. Lasts(<<g>>, X)
  <2> DEFINE t == <<g>>
  <2>1. DOMAIN t = {1} /\ Len(t) = 1 /\ t[1] = g
    OBVIOUS
  <2> HIDE DEF t, g
  <2>2. Lasts(t, X)
    BY <1>1, <2>1 DEF Lasts
  <2> QED
    BY <2>2 DEF t
<1>3. ASSUME NEW c, NEW d, c \notin X PROVE Lasts(<<[calls |-> <<c>>, onError |-> d], g>>, X)
  <2> DEFINE f == [calls |-> <<c>>, onError |-> d]
             t == <<f, g>>
  <2>1. f.calls = <<c>> /\ DOMAIN f.calls = {1} /\ f.calls[1] = c
    OBVIOUS
  <2> HIDE DEF f, g
  <2>2. DOMAIN t = {1, 2} /\ Len(t) = 2 /\ t[1] = f /\ t[2] = g
    OBVIOUS
  <2> HIDE DEF t
  <2>3. Lasts(t, X)
    BY <1>1, <1>3, <2>1, <2>2 DEF Lasts
  <2> QED
    BY <2>3 DEF t, f
<1> HIDE DEF g
<1> QED
  BY <1>2, <1>3 DEF g

\* Where the calls that decide come last.
LEMMA LastPlans ==
  ASSUME DaemonShapes
  PROVE  /\ Lasts(<<D!Group(<<D!Unregister>>, "raise")>>, {D!Unregister})
         /\ \A X : Lasts(<<>>, X)
         /\ os = "mac" =>
              /\ Lasts(D!Register("raise"), {D!Plain("bootstrap")})
              /\ Within(D!Register("raise"), {D!Plain("bootout"), D!Plain("bootstrap")})
              /\ Lasts(D!Delete, DeleteCalls)
              /\ \A v \in Versions :
                   /\ Lasts(D!WriteAll(v), PlistWrites)
                   /\ Within(D!WriteAll(v), PlistWrites \cup {D!Plain("wrapper"), D!Plain("log")})
                   /\ Within(D!WriteAll(v), ApplyCalls)
<1> DEFINE undo == D!Unregister
<1>1. D!Group(<<undo>>, "raise") = [calls |-> <<undo>>, onError |-> "raise"]
  BY DEF D!Group
<1>7. undo \in DaemonCalls
  BY DEF D!Unregister, DaemonCalls, Plains, DaemonShapes
<1> HIDE DEF undo
<1>2. Lasts(<<D!Group(<<undo>>, "raise")>>, {undo})
  <2>1. <<undo>> \in Seq(DaemonCalls) /\ DOMAIN <<undo>> = {1} /\ Len(<<undo>>) = 1
    BY <1>7
  <2> QED
    BY <1>1, <2>1, LastOfOne
<1>3. \A X : Lasts(<<>>, X)
  BY DEF Lasts
<1>4. ASSUME os = "mac", NEW v \in Versions
      PROVE  /\ Lasts(D!WriteAll(v), PlistWrites)
             /\ Within(D!WriteAll(v), PlistWrites \cup {D!Plain("wrapper"), D!Plain("log")})
             /\ Within(D!WriteAll(v), ApplyCalls)
  <2>1. D!WriteAll(v) = <<[calls |-> <<D!Plain("wrapper"), D!Plain("log"), D!Write("plist", v)>>,
                           onError |-> "raise"]>>
    BY <1>4 DEF D!WriteAll, D!Group
  <2>2. D!Write("plist", v) \in PlistWrites /\ D!Plain("wrapper") \notin PlistWrites
        /\ D!Plain("log") \notin PlistWrites
    BY DEF PlistWrites, Contents, D!Write, D!Plain
  <2>3. D!Write("plist", v) \in ApplyCalls /\ D!Plain("wrapper") \in ApplyCalls /\ D!Plain("log") \in ApplyCalls
    BY <1>4 DEF ApplyCalls, D!Mine
  <2> DEFINE list == <<D!Plain("wrapper"), D!Plain("log"), D!Write("plist", v)>>
  <2>4. list \in Seq(DaemonCalls) /\ Len(list) = 3 /\ DOMAIN list = 1..3
        /\ list[1] \notin PlistWrites /\ list[2] \notin PlistWrites
    BY <1>4, <2>2 DEF DaemonCalls, Plains, D!Mine, Contents
  <2> HIDE DEF list
  <2>5. \A j \in DOMAIN list : list[j] \in PlistWrites => j = Len(list)
    BY <2>4
  <2>6. Lasts(D!WriteAll(v), PlistWrites)
    BY <2>1, <2>4, <2>5, LastOfOne DEF list
  <2> QED
    BY <2>1, <2>2, <2>3, <2>6 DEF Within
<1>5. ASSUME os = "mac"
      PROVE  /\ Lasts(D!Register("raise"), {D!Plain("bootstrap")})
             /\ Within(D!Register("raise"), {D!Plain("bootout"), D!Plain("bootstrap")})
  <2>1. D!Register("raise") = <<[calls |-> <<D!Plain("bootout")>>, onError |-> "skip"],
                                [calls |-> <<D!Plain("bootstrap")>>, onError |-> "raise"]>>
    BY <1>5 DEF D!Register, D!Group
  <2>2. D!Plain("bootout") # D!Plain("bootstrap")
    BY DEF D!Plain
  <2>3. <<D!Plain("bootstrap")>> \in Seq(DaemonCalls) /\ DOMAIN <<D!Plain("bootstrap")>> = {1}
        /\ Len(<<D!Plain("bootstrap")>>) = 1
    BY <1>5 DEF DaemonCalls, Plains
  <2>4. Lasts(D!Register("raise"), {D!Plain("bootstrap")})
    BY <2>1, <2>2, <2>3, LastOfOne
  <2> QED
    BY <2>1, <2>4 DEF Within
<1>6. ASSUME os = "mac" PROVE Lasts(D!Delete, DeleteCalls)
  <2>1. D!Delete = <<[calls |-> <<D!Write("plist", None)>>, onError |-> "raise"]>>
    BY <1>6 DEF D!Delete, D!Group
  <2>2. <<D!Write("plist", None)>> \in Seq(DaemonCalls) /\ DOMAIN <<D!Write("plist", None)>> = {1}
        /\ Len(<<D!Write("plist", None)>>) = 1
    BY <1>6 DEF DaemonCalls, D!Mine, Contents
  <2> QED
    BY <2>1, <2>2, LastOfOne
<1> QED
  BY <1>2, <1>3, <1>4, <1>5, <1>6 DEF undo

LEMMA RestoreBegins ==
  ASSUME DaemonInv, RestoreInv, D!Remove \/ \E v \in Versions : D!TurnOn(v) \/ D!EnsureDefault(v) \/ D!Reschedule(v)
  PROVE  RestoreInv'
<1>1. DaemonShapes
  BY DEF DaemonInv
<1>2. CASE D!Remove
  <2> DEFINE plan == <<D!Group(<<D!Unregister>>, "raise")>>
  <2>1. D!Start("remove", "unregister", plan)
    BY <1>2 DEF D!Remove
  <2>2. plan \in Seq(Groups)
    <3> DEFINE undo == D!Unregister
    <3>1. undo \in DaemonCalls /\ D!Group(<<undo>>, "raise") = [calls |-> <<undo>>, onError |-> "raise"]
      BY <1>1 DEF D!Unregister, DaemonCalls, Plains, DaemonShapes, D!Group
    <3> HIDE DEF undo
    <3>2. <<undo>> \in Seq(DaemonCalls) /\ <<undo>> # <<>>
      BY <3>1
    <3>3. D!Group(<<undo>>, "raise") \in Groups
      <4> DEFINE list == <<undo>>
      <4>1. list \in Seq(DaemonCalls) /\ list # <<>> /\ D!Group(list, "raise") = [calls |-> list, onError |-> "raise"]
        BY <3>1, <3>2
      <4> HIDE DEF list
      <4>2. D!Group(list, "raise") \in Groups
        BY <4>1 DEF Groups
      <4> QED
        BY <4>2 DEF list
    <3>4. <<D!Group(<<undo>>, "raise")>> \in Seq(Groups)
      BY <3>3
    <3> QED
      BY <3>4 DEF undo
  <2>3. Lasts(plan, {D!Unregister})
    BY <1>1, LastPlans
  <2> HIDE DEF plan
  <2>4. at' = "unregister" /\ todo' = plan /\ ~op'.error /\ op'.before = host /\ UNCHANGED <<os, host>>
    BY <1>1, <2>1, <2>2, Begins
  <2>5. D!Unregister' = D!Unregister
    BY <2>4, SameOs
  <2> QED
    BY <2>3, <2>4, <2>5 DEF RestoreInv
<1>3. ASSUME NEW v \in Versions, D!Apply(v) PROVE RestoreInv'
  <2> DEFINE plan == D!WriteAll(v) \o D!Register("raise")
             all == ApplyCalls \cup {D!Plain("bootout"), D!Plain("bootstrap")}
  <2>1. plan \in Seq(Groups) /\ D!Start("apply", "apply", plan)
        /\ D!WriteAll(v) \in Seq(Groups) /\ D!Register("raise") \in Seq(Groups)
    BY <1>1, <1>3, Plans, Concatenated DEF D!Apply
  <2>2. Within(D!WriteAll(v), ApplyCalls)
    BY <1>1, Plans, LastPlans DEF DaemonShapes
  <2>3. Within(D!WriteAll(v), all) /\ Within(D!Register("raise"), all)
    <3>1. os = "mac" => Within(D!Register("raise"), {D!Plain("bootout"), D!Plain("bootstrap")})
      BY <1>1, LastPlans
    <3>2. os = "linux" => Within(D!Register("raise"), ApplyCalls)
      BY <1>1, Plans
    <3> QED
      BY <1>1, <2>2, <3>1, <3>2 DEF Within, DaemonShapes
  <2>4. Within(plan, all)
    BY <2>1, <2>3, Concatenated
  <2>5. os = "mac" => Lasts(plan, {D!Plain("bootstrap")})
    <3>1. D!Plain("bootstrap") \notin ApplyCalls
      BY DEF ApplyCalls, D!Plain, D!Write
    <3>2. {D!Plain("bootstrap")} \cap ApplyCalls = {}
      BY <3>1
    <3> QED
      BY <1>1, <2>1, <2>2, <3>2, LastPlans, LastOfTwo
  <2> HIDE DEF plan
  <2>6. at' = "apply" /\ todo' = plan /\ ~op'.error /\ op'.before = host /\ UNCHANGED <<os, host>>
    BY <1>1, <2>1, Begins
  <2>7. ApplyCalls' = ApplyCalls
    BY <2>6, SameOs
  <2> QED
    BY <2>4, <2>5, <2>6, <2>7 DEF RestoreInv
<1>4. ASSUME NEW v \in Versions, D!Reschedule(v) PROVE RestoreInv'
  <2> DEFINE plan == D!WriteAll(v)
  <2>1. D!Start("reschedule", "write", plan) /\ plan \in Seq(Groups) /\ os = "mac"
    BY <1>1, <1>4, Plans DEF D!Reschedule
  <2>2. Lasts(plan, PlistWrites) /\ Within(plan, PlistWrites \cup {D!Plain("wrapper"), D!Plain("log")})
    BY <1>1, <2>1, LastPlans
  <2> HIDE DEF plan
  <2>3. at' = "write" /\ todo' = plan /\ ~op'.error /\ op'.before = host /\ op'.kind = "reschedule"
        /\ UNCHANGED <<os, host>>
    BY <1>1, <2>1, Begins
  <2>4. PlistWrites' = PlistWrites
    BY <2>3, SameRestore
  <2> QED
    BY <2>1, <2>2, <2>3, <2>4 DEF RestoreInv, Same
<1> QED
  BY <1>2, <1>3, <1>4 DEF D!TurnOn, D!EnsureDefault

LEMMA RestoreCall == ASSUME DaemonInv, RestoreInv, D!Call PROVE RestoreInv'
<1> DEFINE c == Head(Head(todo).calls)
           b == op.before
<1>1. /\ todo # <<>> /\ host' = D!Performed(host, c) /\ todo' = D!AfterCall(todo)
      /\ UNCHANGED <<at, op, os>>
  BY DEF D!Call, D!Rest
<1>2. /\ c \in DaemonCalls /\ todo \in Seq(Groups) /\ \A X : Within(todo, X) => c \in X /\ Within(todo', X)
      /\ \A X : Lasts(todo, X) => Lasts(todo', X) /\ (c \in X => todo' = <<>>)
  BY <1>1, Advanced, LastStays DEF DaemonInv, DaemonShapes
<1>3. Did(host, c, host') /\ at \notin {"idle", "ended", "rival", "escaped"} /\ host \in Host /\ OneOs(host)
      /\ b \in Host /\ OneOs(b) /\ os \in {"linux", "mac"} /\ DaemonShapes
  BY <1>1, <1>2, Performing DEF DaemonInv, DaemonShapes, PhaseInv
<1>4. \A n, f, v : D!Plain(n)[1] = n /\ D!Write(f, v)[1] = "write"
  BY DEF D!Plain, D!Write
<1>5. PlistWrites' = PlistWrites /\ ApplyCalls' = ApplyCalls /\ D!Unregister' = D!Unregister /\ DeleteCalls' = DeleteCalls
  BY <1>1, SameRestore
<1>6. os = "mac" => c[1] \notin {"reload", "enable", "restart"}
  BY <1>2, <1>4 DEF DaemonCalls, Plains
<1> HIDE DEF c
<1>7. CASE at \in {"record", "clean"}
  BY <1>1, <1>7, RestoreStays
<1>8. CASE at = "apply"
  <2>1. Within(todo, ApplyCalls \cup {D!Plain("bootout"), D!Plain("bootstrap")})
        /\ (b.wrapper => host.wrapper) /\ (b.log => host.log)
        /\ (os = "mac" => Lasts(todo, {D!Plain("bootstrap")}) /\ host.loaded \in {D!NoFiles, b.loaded})
    BY <1>1, <1>8 DEF RestoreInv
  <2>2. c \in ApplyCalls \cup {D!Plain("bootout"), D!Plain("bootstrap")}
    BY <1>2, <2>1
  <2>3. c[1] \in {"write", "wrapper", "log", "reload", "enable", "restart", "bootout", "bootstrap"}
        /\ (c[1] = "bootstrap" => c = D!Plain("bootstrap"))
    BY <1>4, <2>2 DEF ApplyCalls
  <2>4. (host.wrapper => host'.wrapper) /\ (host.log => host'.log)
    BY <1>3, <2>3 DEF Did
  <2>5. os = "mac" /\ todo' # <<>> => host'.loaded \in {D!NoFiles, b.loaded}
    BY <1>2, <1>3, <1>6, <2>1, <2>3 DEF Did
  <2>6. Within(todo', ApplyCalls \cup {D!Plain("bootout"), D!Plain("bootstrap")})
        /\ (os = "mac" => Lasts(todo', {D!Plain("bootstrap")}))
    BY <1>2, <2>1
  <2>7. ~op.error
    BY <1>8 DEF RestoreInv
  <2> QED
    BY <1>1, <1>5, <1>8, <2>1, <2>4, <2>5, <2>6, <2>7 DEF RestoreInv
<1>9. CASE at = "register"
  BY <1>1, <1>9 DEF RestoreInv
<1>10. CASE at = "write"
  <2>1. /\ Same(host, b) /\ Lasts(todo, PlistWrites) /\ op.kind = "reschedule" /\ os = "mac" /\ ~op.error
        /\ Within(todo, PlistWrites \cup {D!Plain("wrapper"), D!Plain("log")})
    BY <1>1, <1>10 DEF RestoreInv
  <2>2. c \in PlistWrites \/ c[1] \in {"wrapper", "log"}
    BY <1>2, <1>4, <2>1
  <2>3. todo' # <<>> => Same(host', b)
    BY <1>2, <1>3, <2>1, <2>2 DEF Did, Same
  <2>4. Lasts(todo', PlistWrites) /\ Within(todo', PlistWrites \cup {D!Plain("wrapper"), D!Plain("log")})
    BY <1>2, <2>1
  <2> QED
    BY <1>1, <1>5, <1>10, <2>1, <2>3, <2>4 DEF RestoreInv, Same
<1>11. CASE at = "unregister"
  <2>1. /\ host.file = b.file /\ Lasts(todo, {D!Unregister}) /\ host.loaded = b.loaded /\ ~op.error
        /\ Within(todo, {D!Unregister})
    BY <1>1, <1>11 DEF RestoreInv, DaemonInv, PhaseInv
  <2>2. c = D!Unregister /\ todo' = <<>> /\ Lasts(todo', {D!Unregister})
    BY <1>2, <2>1
  <2>3. c[1] = IF os = "mac" THEN "bootout" ELSE "stop"
    BY <2>2 DEF D!Unregister, D!Plain
  <2>4. host'.file = b.file /\ (os = "linux" => host'.loaded = b.loaded)
    BY <1>3, <2>1, <2>3 DEF Did
  <2> QED
    BY <1>1, <1>5, <1>11, <2>1, <2>2, <2>4 DEF RestoreInv
<1>12. CASE at = "delete"
  <2>1. /\ os = "linux" => host.loaded = b.loaded
        /\ os = "mac" => Lasts(todo, DeleteCalls)
        /\ Within(todo, DeleteCalls) /\ ~op.error
    BY <1>1, <1>12 DEF RestoreInv, DaemonInv, PhaseInv
  <2>2. c \in DeleteCalls /\ c[1] \in {"write", "unlink"} /\ (os = "mac" => todo' = <<>>)
    BY <1>2, <1>4, <2>1 DEF DeleteCalls
  <2>3. host'.loaded = host.loaded
    BY <1>3, <2>2 DEF Did
  <2> QED
    BY <1>1, <1>12, <2>1, <2>2, <2>3 DEF RestoreInv
<1>13. CASE at = "undo"
  <2>1. op.error
    BY <1>13 DEF RestoreInv
  <2>2. ASSUME ~op.unrepaired, D!Agree(b) PROVE Undoing(host', todo', b, op.kind)
    <3>1. Undoing(host, todo, b, op.kind)
      BY <1>13, <2>2 DEF RestoreInv
    <3> QED
      BY <1>1, <1>2, <1>3, <2>2, <3>1, UndoGoesOn DEF c
  <2>3. Undoing(host, todo, op.before, op.kind)' <=> Undoing(host', todo', b, op.kind)
    BY <1>1 DEF Undoing, Settled, Untold, Cleans, FirstApply, UndoCalls, Silent, D!Agree, D!Read,
                D!UnitsPresent, D!Mine
  <2>4. D!Agree(op.before)' <=> D!Agree(b)
    BY <1>1 DEF D!Agree, D!Read, D!UnitsPresent, D!Mine
  <2> QED
    BY <1>1, <1>13, <2>1, <2>2, <2>3, <2>4 DEF RestoreInv
<1> QED
  BY <1>3, <1>7, <1>8, <1>9, <1>10, <1>11, <1>12, <1>13 DEF DaemonInv, PhaseInv

\* Its locals again: those that a recovery asks of.
LEMMA ErrorFields ==
  ASSUME DaemonInv, NEW b \in BOOLEAN
  PROVE  /\ LET o == [op EXCEPT !.error = TRUE] IN
            o.error /\ (o.unrepaired => op.unrepaired) /\ (op.unrepaired => o.unrepaired)
            /\ o.before = op.before /\ o.kind = op.kind
         /\ LET o == [op EXCEPT !.unrepaired = b] IN
            o.unrepaired = b /\ o.error = op.error /\ o.before = op.before /\ o.kind = op.kind
         /\ [op EXCEPT !.reached = b].error = op.error /\ [op EXCEPT !.reached = b].before = op.before
         /\ [op EXCEPT !.reached = b].kind = op.kind
         /\ [op EXCEPT !.warned = TRUE].error = op.error /\ [op EXCEPT !.retried = TRUE].error = op.error
  BY DEF DaemonInv, DaemonShapes, Op

LEMMA RestoreRaises ==
  ASSUME DaemonInv, RestoreInv, D!Suppressed \/ D!ApplyRaises \/ D!WriteRaises \/ D!RegisterRaises \/ D!UndoRaises
                    \/ D!RecordRaises \/ D!UnregisterRaises \/ D!DeleteRaises
  PROVE  RestoreInv'
<1> DEFINE b == op.before
<1>1. todo # <<>> /\ at \notin {"idle", "ended", "rival", "escaped"}
  <2>1. todo # <<>>
    BY DEF D!Suppressed, D!ApplyRaises, D!WriteRaises, D!RegisterRaises, D!UndoRaises, D!RecordRaises,
           D!UnregisterRaises, D!DeleteRaises, D!Raises
  <2> QED
    BY <2>1 DEF DaemonInv, PhaseInv
<1>2. UNCHANGED <<os, host>>
  BY DEF D!Suppressed, D!ApplyRaises, D!WriteRaises, D!RegisterRaises, D!UndoRaises, D!RecordRaises,
         D!UnregisterRaises, D!DeleteRaises, D!Rest
<1>3. /\ host \in Host /\ OneOs(host) /\ b \in Host /\ OneOs(b) /\ os \in {"linux", "mac"} /\ DaemonShapes
      /\ todo \in Seq(Groups) /\ op.error \in BOOLEAN
  BY <1>1 DEF DaemonInv, DaemonShapes, Op
<1>4. PlistWrites' = PlistWrites /\ ApplyCalls' = ApplyCalls /\ D!Unregister' = D!Unregister /\ DeleteCalls' = DeleteCalls
  BY <1>2, SameRestore
<1>5. ASSUME at' = "undo", op' = [op EXCEPT !.error = TRUE],
             D!Agree(b) => Undoing(host, todo', b, op.kind)
      PROVE  RestoreInv'
  <2>1. op'.error /\ op'.before = b /\ op'.kind = op.kind
    BY <1>5, ErrorFields
  <2>2. Undoing(host, todo, op.before, op.kind)' <=> Undoing(host, todo', b, op.kind)
    BY <1>2, <2>1 DEF Undoing, Settled, Untold, Cleans, FirstApply, UndoCalls, Silent, D!Agree, D!Read,
                D!UnitsPresent, D!Mine
  <2>3. D!Agree(op.before)' <=> D!Agree(b)
    BY <1>2, <2>1 DEF D!Agree, D!Read, D!UnitsPresent, D!Mine
  <2> QED
    BY <1>5, <2>1, <2>2, <2>3 DEF RestoreInv
<1>6. ASSUME D!Ended([op EXCEPT !.error = TRUE]), Same(host, b), op.kind # "apply"
      PROVE  RestoreInv'
  <2>1. at' = "ended" /\ op'.before = b /\ op'.kind = op.kind
    BY <1>6, ErrorFields DEF D!Ended
  <2>2. D!Agree(op.before)' => D!Agree(host)'
    BY <1>2, <1>6, <2>1 DEF D!Agree, D!Read, D!UnitsPresent, D!Mine, Same
  <2>3. D!Agree(op.before)' => Restored(host, op.before, op.kind)'
    BY <1>2, <1>6, <2>1, <2>2 DEF Restored, Same, FirstApply
  <2> QED
    BY <2>1, <2>3 DEF RestoreInv
<1>7. CASE D!Suppressed
  <2>1. at' = at /\ op' = [op EXCEPT !.unrepaired = op.error] /\ todo' = Tail(todo) /\ Head(todo).onError # "raise"
    BY <1>7 DEF D!Suppressed
  <2>2. op'.unrepaired = op.error /\ op'.error = op.error /\ op'.before = b /\ op'.kind = op.kind
    BY <1>3, <2>1, ErrorFields
  <2>3. /\ \A X : Within(todo, X) => Within(todo', X)
        /\ \A X : Lasts(todo, X) => Lasts(todo', X)
        /\ ~AllRaise(todo)
    BY <1>1, <1>3, <2>1, Advanced, LastStays
  <2>4. at \notin {"unregister", "delete", "record"}
    BY <2>3 DEF DaemonInv, PhaseInv
  <2>5. CASE at = "clean"
    BY <1>2, <2>1, <2>2, <2>5, RestoreStays
  <2>6. CASE at = "undo"
    BY <2>1, <2>2, <2>6 DEF RestoreInv
  <2>7. CASE at = "apply"
    BY <1>1, <1>2, <1>4, <2>1, <2>2, <2>3, <2>7 DEF RestoreInv
  <2>8. CASE at = "write"
    BY <1>1, <1>2, <1>4, <2>1, <2>2, <2>3, <2>8 DEF RestoreInv, Same
  <2>9. CASE at = "register"
    BY <1>2, <2>1, <2>2, <2>9 DEF RestoreInv
  <2> QED
    BY <1>1, <2>4, <2>5, <2>6, <2>7, <2>8, <2>9 DEF DaemonInv, PhaseInv
<1>8. CASE D!ApplyRaises
  <2>1. at = "apply" /\ at' = "undo" /\ todo' = D!UndoApply(b) /\ op' = [op EXCEPT !.error = TRUE] /\ op.kind = "apply"
    BY <1>8 DEF D!ApplyRaises, DaemonInv, PhaseInv
  <2>2. (b.wrapper => host.wrapper) /\ (b.log => host.log)
        /\ (os = "mac" => host.loaded \in {D!NoFiles, b.loaded})
    BY <1>1, <2>1 DEF RestoreInv
  <2>3. D!Agree(b) => Undoing(host, D!UndoApply(b), b, "apply")
    BY <1>3, <2>2, ApplyUndoes
  <2> QED
    BY <1>5, <2>1, <2>3
<1>9. CASE D!WriteRaises
  BY <1>1, <1>6, <1>9 DEF D!WriteRaises, RestoreInv
<1>10. CASE D!RegisterRaises
  <2>1. op.kind = "reschedule" /\ at' = "undo" /\ op' = [op EXCEPT !.error = TRUE]
        /\ todo' = <<D!Group(D!RestoreFiles(b), "raise")>> \o D!Register("skip")
    BY <1>10 DEF D!RegisterRaises, RestoreInv
  <2>2. ~FirstApply(op.kind, b)
    BY <2>1 DEF FirstApply
  <2>3. Undoing(host, todo', b, op.kind)
    BY <1>3, <2>1, <2>2, FilesThenRegister
  <2> QED
    BY <1>5, <2>1, <2>3
<1>11. CASE D!UndoRaises
  <2>1. at' = "ended" /\ op' = [op EXCEPT !.unrepaired = TRUE]
    BY <1>11 DEF D!UndoRaises, D!Ended
  <2>2. op'.unrepaired
    BY <2>1, ErrorFields
  <2> QED
    BY <2>1, <2>2 DEF RestoreInv
<1>12. CASE D!RecordRaises
  <2>1. at = "record" /\ at' = at
    BY <1>12 DEF D!RecordRaises
  <2>2. op'.error = op.error
    BY <1>12, ErrorFields DEF D!RecordRaises
  <2> QED
    BY <1>2, <2>1, <2>2, RestoreStays
<1>13. CASE D!UnregisterRaises
  <2>1. at = "unregister" /\ host.file = b.file /\ host.loaded = b.loaded /\ Same(host, b) /\ op.kind = "remove" /\ ~op.error
    BY <1>1, <1>13 DEF D!UnregisterRaises, RestoreInv, Same, DaemonInv, PhaseInv
  <2>2. CASE D!Ended([op EXCEPT !.error = TRUE])
    BY <1>6, <2>1, <2>2
  <2>3. CASE todo' = <<>> /\ at' = at /\ op' = [op EXCEPT !.reached = os = "mac" \/ reach]
    <3> DEFINE r == os = "mac" \/ reach
    <3>1. r \in BOOLEAN
      OBVIOUS
    <3> HIDE DEF r
    <3>2. op' = [op EXCEPT !.reached = r]
      BY <2>3 DEF r
    <3>3. op'.error = op.error /\ op'.before = b
      BY <3>1, <3>2, ErrorFields
    <3>4. Lasts(todo', {D!Unregister})
      BY <1>3, <2>3, LastPlans
    <3> QED
      BY <1>2, <1>4, <2>1, <2>3, <3>3, <3>4 DEF RestoreInv
  <2> QED
    BY <1>13, <2>2, <2>3 DEF D!UnregisterRaises
<1>14. CASE D!DeleteRaises
  <2>1. at = "delete" /\ at' = "undo" /\ op' = [op EXCEPT !.error = TRUE] /\ todo' = D!UndoRemove(b, op.reached)
        /\ op.kind = "remove"
    BY <1>14 DEF D!DeleteRaises, DaemonInv, PhaseInv
  <2>2. (os = "linux" => host.loaded = b.loaded) /\ (os = "mac" => host.file = b.file)
    BY <1>1, <2>1 DEF RestoreInv
  <2>3. ~FirstApply(op.kind, b)
    BY <2>1 DEF FirstApply
  <2>4. /\ os = "mac" => todo' = D!Register("skip")
        /\ os = "linux" /\ op.reached => todo' = <<D!Group(D!RestoreFiles(b), "raise")>> \o D!Register("skip")
        /\ os = "linux" /\ ~op.reached => todo' = <<D!Group(D!RestoreFiles(b), "raise")>> \o <<>>
    BY <2>1 DEF D!UndoRemove
  <2>5. os = "linux" /\ ~op.reached => todo' = <<D!Group(D!RestoreFiles(b), "raise")>>
    BY <2>4
  <2>6. Undoing(host, todo', b, op.kind)
    BY <1>3, <2>2, <2>3, <2>4, <2>5, FilesThenRegister
  <2> QED
    BY <1>5, <2>1, <2>6
<1> QED
  BY <1>7, <1>8, <1>9, <1>10, <1>11, <1>12, <1>13, <1>14

LEMMA RestoreGoesOn ==
  ASSUME DaemonInv, RestoreInv, D!Written \/ D!Rescheduled \/ D!Undone \/ D!Registered \/ D!Recorded
                    \/ D!Unregistered \/ D!Deleted \/ D!Cleaned
  PROVE  RestoreInv'
<1>1. UNCHANGED <<os, host>> /\ op' = op /\ todo = <<>>
  BY DEF D!Written, D!Rescheduled, D!Undone, D!Registered, D!Recorded, D!Unregistered, D!Deleted, D!Cleaned,
         D!Ended, D!Rest
<1>2. CASE D!Written
  BY <1>1, <1>2 DEF D!Written, RestoreInv
<1>3. CASE D!Rescheduled \/ D!Registered \/ D!Recorded \/ D!Deleted \/ D!Cleaned
  <2>1. at \notin {"undo", "ended"} /\ at' \in {"record", "rival", "clean", "ended", "escaped"}
    BY <1>3 DEF D!Rescheduled, D!Registered, D!Recorded, D!Deleted, D!Cleaned, D!Ended
  <2>2. ~op'.error
    BY <1>1, <2>1 DEF RestoreInv
  <2> QED
    BY <1>1, <2>1, <2>2, RestoreStays
<1>4. CASE D!Undone
  <2>1. at = "undo" /\ at' = "ended"
    BY <1>4 DEF D!Undone, D!Ended
  <2>2. ~op.unrepaired /\ D!Agree(op.before) => Restored(host, op.before, op.kind)
    BY <1>1, <2>1, UndoneIsRestored DEF RestoreInv, DaemonInv, DaemonShapes
  <2>3. Restored(host, op.before, op.kind)' <=> Restored(host, op.before, op.kind)
    BY <1>1 DEF Restored, FirstApply, D!Agree, D!Read, D!UnitsPresent, D!Mine
  <2>4. D!Agree(op.before)' <=> D!Agree(op.before)
    BY <1>1 DEF D!Agree, D!Read, D!UnitsPresent, D!Mine
  <2> QED
    BY <1>1, <2>1, <2>2, <2>3, <2>4 DEF RestoreInv
<1>5. CASE D!Unregistered
  <2>1. at = "unregister" /\ at' = "delete" /\ todo' = D!Delete
    BY <1>5 DEF D!Unregistered
  <2>2. ~op.error /\ host.file = op.before.file /\ (os = "linux" => host.loaded = op.before.loaded)
    BY <2>1 DEF RestoreInv
  <2>3. os = "mac" => Lasts(todo', DeleteCalls)
    BY <2>1, LastPlans DEF DaemonInv
  <2>4. DeleteCalls' = DeleteCalls
    BY <1>1, SameRestore
  <2> QED
    BY <1>1, <2>1, <2>2, <2>3, <2>4 DEF RestoreInv
<1> QED
  BY <1>2, <1>3, <1>4, <1>5

LEMMA RestoreStep == DaemonInv /\ RestoreInv /\ [D!Next]_daemonVars => RestoreInv'
<1> SUFFICES ASSUME DaemonInv, RestoreInv, [D!Next]_daemonVars PROVE RestoreInv'
  OBVIOUS
<1>1. CASE D!Return \/ D!Kill
  <2>1. at' = "idle" /\ op' = D!Idle /\ os' = os
    BY <1>1 DEF D!Return, D!Kill, D!Rest
  <2> QED
    BY <2>1, RestoreStays DEF D!Idle
<1>2. CASE D!ReadBegins \/ D!Probe \/ D!Store \/ D!Expire \/ D!LoseManager \/ UNCHANGED daemonVars
  BY <1>2, RestoreStays DEF D!ReadBegins, D!Probe, D!Store, D!Expire, D!LoseManager, daemonVars
<1>3. CASE D!Login \/ D!UserStops
  BY <1>3, RestoreStays DEF D!Login, D!UserStops
<1>5. CASE D!RecordEscapes
  <2>1. at = "record" /\ at' = "escaped" /\ op' = op /\ os' = os
    BY <1>5 DEF D!RecordEscapes, D!Rest
  <2>2. ~op'.error
    BY <2>1 DEF RestoreInv
  <2> QED
    BY <2>1, <2>2, RestoreStays
<1>6. CASE D!Reencode
  BY <1>6, Reencodes, RestoreStays
<1>4. CASE D!TakeOver
  <2>1. at = "rival" /\ at' = "ended" /\ op' = op /\ os' = os
    BY <1>4 DEF D!TakeOver, D!Ended, D!Rest
  <2>2. ~op'.error
    BY <2>1 DEF RestoreInv
  <2> QED
    BY <2>1, <2>2, RestoreStays
<1> QED
  BY <1>1, <1>2, <1>3, <1>4, <1>5, <1>6, RestoreBegins, RestoreCall, RestoreRaises, RestoreGoesOn DEF D!Next

-----------------------------------------------------------------------------
\* The calls of an apply, of which only the first of a registration may be skipped; and what it
\* has done once all of them are made, which is what an error of the record leaves.
Writes(t, f)  == \E v \in Versions : Has(t, D!Write(f, v))
Skippable(t)  == \A i \in DOMAIN t : t[i].onError = "skip" => \A j \in DOMAIN t[i].calls : t[i].calls[j] = D!Plain("bootout")
Applying(h, t) ==
  /\ h.wrapper \/ Has(t, D!Plain("wrapper"))
  /\ \A f \in D!Mine : h.file[f] # None \/ Writes(t, f)
  /\ Coming(t) \/ (D!Agree(h) /\ Within(t, Calm))
  /\ Skippable(t)
InPlace(h) == D!UnitsPresent(h) /\ D!Agree(h) /\ h.wrapper

AppliedInv ==
  /\ at = "apply" => Applying(host, todo)
  /\ at \in {"record", "escaped"} /\ op.kind = "apply" => InPlace(host)

\* What has come of an apply whose plan is empty.
LEMMA AppliedIsInPlace == ASSUME NEW h, Applying(h, <<>>) PROVE InPlace(h)
<1>1. (\A c : ~Has(<<>>, c)) /\ ~Coming(<<>>)
  BY DEF Has, Coming
<1> QED
  BY <1>1 DEF Applying, InPlace, Writes, D!UnitsPresent

\* The plan of an apply, as a whole.
LEMMA ApplyPlan ==
  ASSUME DaemonShapes, NEW v \in Versions, NEW h
  PROVE  Applying(h, D!WriteAll(v) \o D!Register("raise"))
<1> DEFINE s == D!WriteAll(v)
           t == D!Register("raise")
<1>1. s \in Seq(Groups) /\ t \in Seq(Groups)
  BY Plans
<1>2. /\ Has(s, D!Plain("wrapper")) /\ Skippable(s)
      /\ \A f \in D!Mine : Has(s, D!Write(f, v))
  <2>1. CASE os = "mac"
    <3>1. s = <<[calls |-> <<D!Plain("wrapper"), D!Plain("log"), D!Write("plist", v)>>, onError |-> "raise"]>>
          /\ D!Mine = {"plist"}
      BY <2>1 DEF D!WriteAll, D!Group, D!Mine
    <3> HIDE DEF s
    <3> QED
      BY <3>1 DEF Has, Skippable
  <2>2. CASE os = "linux"
    <3>1. s = <<[calls |-> <<D!Plain("wrapper"), D!Plain("log"), D!Write("service", v), D!Write("timer", v)>>,
                 onError |-> "raise"]>>
          /\ D!Mine = {"service", "timer"}
      BY <2>2 DEF D!WriteAll, D!Group, D!Mine
    <3> HIDE DEF s
    <3> QED
      BY <3>1 DEF Has, Skippable
  <2> QED
    BY <2>1, <2>2 DEF DaemonShapes
<1>3. Coming(t) /\ Skippable(t)
  <2>1. CASE os = "mac"
    <3>1. t = <<[calls |-> <<D!Plain("bootout")>>, onError |-> "skip"],
                [calls |-> <<D!Plain("bootstrap")>>, onError |-> "raise"]>>
      BY <2>1 DEF D!Register, D!Group
    <3> HIDE DEF t
    <3>2. DOMAIN t = {1, 2} /\ t[1].calls = <<D!Plain("bootout")>> /\ t[2].calls = <<D!Plain("bootstrap")>>
          /\ t[2].onError = "raise"
      BY <3>1
    <3>3. Skippable(t)
      BY <3>2 DEF Skippable
    <3>4. Coming(t)
      BY <3>2 DEF Coming, Calm
    <3> QED
      BY <3>3, <3>4
  <2>2. CASE os = "linux"
    <3>1. t = <<[calls |-> <<D!Plain("reload"), D!Plain("enable"), D!Plain("restart")>>, onError |-> "raise"]>>
      BY <2>2 DEF D!Register, D!Group
    <3> HIDE DEF t
    <3>2. DOMAIN t = {1} /\ t[1].onError = "raise"
          /\ t[1].calls = <<D!Plain("reload"), D!Plain("enable"), D!Plain("restart")>>
      BY <3>1
    <3>3. Skippable(t)
      BY <3>2 DEF Skippable
    <3>4. Coming(t)
      BY <3>2 DEF Coming, Calm
    <3> QED
      BY <3>3, <3>4
  <2> QED
    BY <2>1, <2>2 DEF DaemonShapes
<1> DEFINE u == s \o t
<1>4. Coming(u)
  BY <1>1, <1>3, ComesToo
<1>5. \A c : Has(s, c) => Has(u, c)
  BY <1>1, Concatenated
<1>6. Skippable(u)
  <2>1. \A i \in DOMAIN u : (i \in DOMAIN s /\ u[i] = s[i]) \/ (i - Len(s) \in DOMAIN t /\ u[i] = t[i - Len(s)])
    BY <1>1
  <2> HIDE DEF s, t, u
  <2> QED
    BY <1>2, <1>3, <2>1 DEF Skippable
<1> HIDE DEF s, t, u
<1>7. Applying(h, u)
  BY <1>2, <1>4, <1>5, <1>6 DEF Applying, Writes
<1> QED
  BY <1>7 DEF s, t, u

\* A call of it is made, or the one that may be skipped is.
LEMMA ApplyGoesOn ==
  ASSUME DaemonShapes, NEW t \in Seq(Groups), t # <<>>, Applying(host, t)
  PROVE  /\ \A p : Did(host, Head(Head(t).calls), p) /\ Head(Head(t).calls)[1] \notin {"unwrap"}
                   /\ (\A f \in D!Mine : Head(Head(t).calls) # D!Write(f, None))
                  => Applying(p, D!AfterCall(t))
         /\ Head(t).onError = "skip" => Applying(host, Tail(t))
<1> DEFINE c == Head(Head(t).calls)
           next == D!AfterCall(t)
           rest == Tail(t)
<1>1. /\ c \in DaemonCalls /\ Has(t, c) /\ (\A X : Within(t, X) => c \in X /\ Within(next, X) /\ Within(rest, X))
      /\ \A d : Has(t, d) => d = c \/ Has(next, d)
  BY Advanced
<1>2. /\ 1 \in DOMAIN t /\ Len(t) \in Nat /\ DOMAIN t = 1..Len(t)
      /\ t[1].calls \in Seq(DaemonCalls) /\ t[1].calls # <<>> /\ Head(t) = t[1]
      /\ DOMAIN rest = 1..Len(t) - 1
      /\ \A i \in DOMAIN rest : i + 1 \in DOMAIN t /\ rest[i] = t[i + 1]
      /\ \A i \in DOMAIN t : i = 1 \/ (i - 1 \in DOMAIN rest /\ rest[i - 1] = t[i])
      /\ Len(t[1].calls) = 1 => next = rest
      /\ Len(t[1].calls) # 1 => /\ DOMAIN next = DOMAIN t
                                 /\ \A i \in DOMAIN t \ {1} : next[i] = t[i]
                                 /\ next[1].calls = Tail(t[1].calls)
  BY Shifted
<1>3. Skippable(t) /\ Skippable(rest)
  BY <1>2 DEF Applying, Skippable
<1>4. Skippable(next)
  <2>1. CASE Len(t[1].calls) = 1
    BY <1>2, <1>3, <2>1
  <2>2. CASE Len(t[1].calls) # 1
    <3>1. next = [t EXCEPT ![1].calls = Tail(@)]
      BY <1>2, <2>2 DEF D!AfterCall
    <3>2. next[1].onError = t[1].onError
      <4>1. t[1] \in Groups
        BY <1>2, Advanced
      <4>2. t[1] = [calls |-> t[1].calls, onError |-> t[1].onError]
        BY <4>1 DEF Groups
      <4> QED
        BY <1>2, <3>1, <4>2
    <3>3. \A j \in DOMAIN Tail(t[1].calls) : j + 1 \in DOMAIN t[1].calls /\ Tail(t[1].calls)[j] = t[1].calls[j + 1]
      BY <1>2, Suffix
    <3>4. \A i \in DOMAIN t : t[i].onError = "skip" => \A j \in DOMAIN t[i].calls : t[i].calls[j] = D!Plain("bootout")
      BY <1>3 DEF Skippable
    <3>5. /\ DOMAIN next = DOMAIN t /\ next[1].calls = Tail(t[1].calls)
          /\ \A i \in DOMAIN t \ {1} : next[i] = t[i]
      BY <2>2, Shifted
    <3> HIDE DEF next, rest
    <3>6. ASSUME NEW i \in DOMAIN next, next[i].onError = "skip", NEW j \in DOMAIN next[i].calls
          PROVE  next[i].calls[j] = D!Plain("bootout")
      <4>1. CASE i = 1
        BY <1>2, <3>2, <3>3, <3>4, <3>5, <3>6, <4>1
      <4>2. CASE i # 1
        BY <3>4, <3>5, <3>6, <4>2
      <4> QED
        BY <4>1, <4>2
    <3> QED
      BY <3>6 DEF Skippable
  <2> QED
    BY <2>1, <2>2
<1>5. t[1].onError = "skip" => c = D!Plain("bootout") /\ \A d : Has(t, d) => d = D!Plain("bootout") \/ Has(rest, d)
  <2> SUFFICES ASSUME t[1].onError = "skip"
               PROVE  c = D!Plain("bootout") /\ \A d : Has(t, d) => d = D!Plain("bootout") \/ Has(rest, d)
    OBVIOUS
  <2>1. \A j \in DOMAIN t[1].calls : t[1].calls[j] = D!Plain("bootout")
    BY <1>2, <1>3 DEF Skippable
  <2>2. 1 \in DOMAIN t[1].calls /\ c = t[1].calls[1]
    BY <1>2
  <2> HIDE DEF rest, next, c
  <2>3. ASSUME NEW d, Has(t, d), d # D!Plain("bootout") PROVE Has(rest, d)
    <3>1. PICK i \in DOMAIN t : \E j \in DOMAIN t[i].calls : t[i].calls[j] = d
      BY <2>3 DEF Has
    <3>2. i # 1
      BY <2>1, <2>3, <3>1
    <3> QED
      BY <1>2, <3>1, <3>2 DEF Has
  <2> QED
    BY <2>1, <2>2, <2>3
<1>6. Coming(t) \/ (D!Agree(host) /\ Within(t, Calm))
  BY DEF Applying
<1>7. /\ \A n : D!Plain(n)[1] = n
      /\ \A f, v : D!Write(f, v)[1] = "write"
      /\ \A n, f, v : n # "write" => D!Plain(n) # D!Write(f, v)
  BY DEF D!Plain, D!Write
<1>8. D!Plain("bootout") \notin Calm /\ D!Plain("bootout") # D!Plain("wrapper")
      /\ D!Plain("bootout") \notin {D!Plain("reload"), D!Plain("bootstrap")}
  BY DEF D!Plain, Calm
<1>9. ASSUME t[1].onError = "skip" PROVE Applying(host, rest)
  <2>1. Coming(rest)
    <3>1. Coming(t)
      BY <1>1, <1>5, <1>6, <1>8, <1>9
    <3>2. PICK i \in DOMAIN t :
            /\ t[i].calls[1] \in {D!Plain("reload"), D!Plain("bootstrap")}
            /\ \A k \in DOMAIN t : k >= i => \A j \in DOMAIN t[k].calls : t[k].calls[j] \in Calm
      BY <3>1 DEF Coming
    <3>3. i # 1
      BY <1>2, <1>5, <1>8, <1>9, <3>2
    <3>4. i - 1 \in DOMAIN rest /\ rest[i - 1] = t[i]
      BY <1>2, <3>3
    <3>5. \A k \in DOMAIN rest : k >= i - 1 => k + 1 \in DOMAIN t /\ rest[k] = t[k + 1] /\ k + 1 >= i
      BY <1>2
    <3> HIDE DEF rest, next, c
    <3> QED
      BY <3>2, <3>4, <3>5 DEF Coming
  <2> HIDE DEF rest, next, c
  <2> QED
    BY <1>3, <1>5, <1>7, <1>8, <1>9, <2>1 DEF Applying, Writes
<1>10. ASSUME NEW p, Did(host, c, p), c[1] \notin {"unwrap"}, \A f \in D!Mine : c # D!Write(f, None)
       PROVE  Applying(p, next)
  <2>1. Coming(next) \/ (c \in {D!Plain("reload"), D!Plain("bootstrap")} /\ Within(t, Calm))
        \/ (D!Agree(host) /\ Within(t, Calm))
    BY <1>6, ComingGoesOn
  <2> HIDE DEF rest, next, c
  <2>2. Coming(next) \/ (D!Agree(p) /\ Within(next, Calm))
    <3>1. CASE Coming(next)
      BY <3>1
    <3>2. CASE Within(t, Calm) /\ (D!Agree(host) \/ c \in {D!Plain("reload"), D!Plain("bootstrap")})
      <4>1. c \in Calm /\ Within(next, Calm)
        BY <1>1, <3>2
      <4>2. c[1] \in {"reload", "enable", "restart", "bootstrap", "unwrap", "unlog"}
            /\ (c \in {D!Plain("reload"), D!Plain("bootstrap")} => c[1] \in {"reload", "bootstrap"})
        BY <1>7, <4>1 DEF Calm
      <4>3. p.file = host.file /\ (p.loaded = host.loaded \/ p.loaded = D!Read(host))
            /\ (c[1] \in {"reload", "bootstrap"} => p.loaded = D!Read(host))
        BY <1>10, <4>2 DEF Did
      <4>4. D!Read(p) = D!Read(host)
        BY <4>3 DEF D!Read, D!UnitsPresent
      <4> QED
        BY <3>2, <4>1, <4>2, <4>3, <4>4 DEF D!Agree
    <3> QED
      BY <2>1, <3>1, <3>2
  <2>3. p.wrapper \/ Has(next, D!Plain("wrapper"))
    <3>1. host.wrapper \/ Has(t, D!Plain("wrapper"))
      BY DEF Applying
    <3>2. (c = D!Plain("wrapper") => p.wrapper) /\ (host.wrapper => p.wrapper)
      BY <1>7, <1>10 DEF Did
    <3> QED
      BY <1>1, <3>1, <3>2
  <2>4. ASSUME NEW f \in D!Mine PROVE p.file[f] # None \/ Writes(next, f)
    <3>1. host.file[f] # None \/ Writes(t, f)
      BY DEF Applying
    <3>2. D!Mine \subseteq D!Files /\ host.file \in FilesOf
      BY DEF D!Mine, D!Files, DaemonShapes, Host
    <3>3. CASE \E g \in D!Mine, v \in Contents : c = D!Write(g, v)
      <4>1. PICK g \in D!Mine, v \in Contents : c = D!Write(g, v)
        BY <3>3
      <4>2. p.file = [host.file EXCEPT ![g] = v] /\ v # None
        BY <1>10, <4>1 DEF Did, D!Write
      <4>3. CASE f = g
        BY <3>2, <4>2, <4>3 DEF FilesOf
      <4>4. CASE f # g
        <5>1. p.file[f] = host.file[f] /\ \A w : D!Write(f, w) # c
          BY <3>2, <4>1, <4>2, <4>4 DEF FilesOf, D!Write
        <5> QED
          BY <1>1, <3>1, <5>1 DEF Writes
      <4> QED
        BY <4>3, <4>4
    <3>4. CASE \E n \in Plains : c = D!Plain(n)
      <4>1. p.file = host.file /\ \A w : D!Write(f, w) # c
        <5>1. PICK n \in Plains : c = D!Plain(n)
          BY <3>4
        <5>2. c[1] = n /\ n # "write"
          BY <1>7, <5>1 DEF Plains
        <5> QED
          BY <1>7, <1>10, <5>1, <5>2 DEF Did
      <4> QED
        BY <1>1, <3>1, <4>1 DEF Writes
    <3> QED
      BY <1>1, <3>3, <3>4 DEF DaemonCalls
  <2> QED
    BY <1>4, <2>2, <2>3, <2>4 DEF Applying
<1> QED
  BY <1>2, <1>9, <1>10

LEMMA AppliedStep == DaemonInv /\ RestoreInv /\ AppliedInv /\ [D!Next]_daemonVars => AppliedInv'
<1> SUFFICES ASSUME DaemonInv, RestoreInv, AppliedInv, [D!Next]_daemonVars PROVE AppliedInv'
  OBVIOUS
<1>1. DaemonShapes
  BY DEF DaemonInv
<1>2. ASSUME UNCHANGED <<os, host.file, host.loaded, host.wrapper>>
      PROVE  /\ Applying(host, todo)' <=> Applying(host, todo')
             /\ InPlace(host)' <=> InPlace(host)
  BY <1>2 DEF Applying, InPlace, D!Agree, D!Read, D!UnitsPresent, D!Mine
<1>3. CASE UNCHANGED <<os, host.file, host.loaded, host.wrapper, at, todo, op.kind>>
  BY <1>2, <1>3 DEF AppliedInv
<1>4. CASE at' \notin {"apply", "record", "escaped"}
  BY <1>4 DEF AppliedInv
<1>5. CASE \E v \in Versions : D!TurnOn(v) \/ D!EnsureDefault(v)
  <2>1. PICK v \in Versions : D!Apply(v)
    BY <1>5 DEF D!TurnOn, D!EnsureDefault
  <2>2. at' = "apply" /\ todo' = D!WriteAll(v) \o D!Register("raise") /\ UNCHANGED <<os, host>>
    BY <2>1 DEF D!Apply, D!Start, D!Rest
  <2> QED
    BY <1>1, <1>2, <2>2, ApplyPlan DEF AppliedInv
<1>6. CASE D!Call
  <2> DEFINE c == Head(Head(todo).calls)
  <2>1. /\ todo # <<>> /\ host' = D!Performed(host, c) /\ todo' = D!AfterCall(todo)
        /\ UNCHANGED <<os, at, op>>
    BY <1>6 DEF D!Call, D!Rest
  <2>2. c \in DaemonCalls /\ \A X : Within(todo, X) => c \in X
    BY <1>1, <2>1, Advanced DEF DaemonShapes
  <2>3. Did(host, c, host')
    BY <1>1, <2>1, <2>2, Performing DEF DaemonShapes
  <2>4. CASE at = "apply"
    <3>1. c \in ApplyCalls \cup {D!Plain("bootout"), D!Plain("bootstrap")}
      BY <2>2, <2>4 DEF RestoreInv
    <3>2. c[1] # "unwrap" /\ \A f \in D!Mine : c # D!Write(f, None)
      BY <3>1, NoneIsNothing DEF ApplyCalls, D!Plain, D!Write
    <3>3. Applying(host', todo')
      BY <1>1, <2>1, <2>3, <2>4, <3>2, ApplyGoesOn DEF AppliedInv, DaemonShapes
    <3>4. Applying(host, todo)' <=> Applying(host', todo')
      BY <2>1 DEF Applying, D!Agree, D!Read, D!UnitsPresent, D!Mine
    <3> QED
      BY <2>1, <2>4, <3>3, <3>4 DEF AppliedInv
  <2>5. CASE at = "record"
    <3>1. c = D!Plain("record")
      BY <2>2, <2>5 DEF DaemonInv, PhaseInv
    <3>2. c[1] = "record"
      BY <3>1 DEF D!Plain
    <3>3. host'.file = host.file /\ host'.loaded = host.loaded /\ host'.wrapper = host.wrapper
      BY <2>3, <3>2 DEF Did
    <3> QED
      BY <1>2, <2>1, <2>5, <3>3 DEF AppliedInv
  <2>6. at # "escaped"
    BY <2>1 DEF DaemonInv, PhaseInv
  <2> QED
    BY <1>4, <2>1, <2>4, <2>5, <2>6
<1>7. CASE D!Suppressed
  <2>1. /\ todo # <<>> /\ todo' = Tail(todo) /\ at' = at /\ Head(todo).onError = "skip" /\ UNCHANGED <<os, host>>
    BY <1>7 DEF D!Suppressed, D!Raises, D!Rest
  <2>2. CASE at = "apply"
    <3>1. Applying(host, todo')
      BY <1>1, <2>1, <2>2, ApplyGoesOn DEF AppliedInv, DaemonShapes
    <3> QED
      BY <1>2, <2>1, <2>2, <3>1 DEF AppliedInv
  <2>3. at \notin {"record", "escaped"}
    BY <1>1, <2>1, Advanced DEF DaemonInv, DaemonShapes, PhaseInv
  <2> QED
    BY <1>4, <2>1, <2>2, <2>3
<1>8. CASE D!Registered
  <2>1. at = "apply" /\ todo = <<>> /\ at' = "record" /\ UNCHANGED <<os, host>>
    BY <1>8 DEF D!Registered, D!Rest
  <2>2. InPlace(host)
    BY <2>1, AppliedIsInPlace DEF AppliedInv
  <2> QED
    BY <1>2, <2>1, <2>2 DEF AppliedInv
<1>9. CASE D!RecordRaises
  <2>1. at = "record" /\ at' = at /\ UNCHANGED <<os, host>> /\ op'.kind = op.kind
    BY <1>9, OpFields DEF D!RecordRaises, D!Rest
  <2> QED
    BY <1>2, <2>1 DEF AppliedInv
<1>10. CASE D!RecordEscapes
  BY <1>2, <1>10 DEF D!RecordEscapes, D!Rest, AppliedInv
<1>11. CASE D!Cleaned
  <2>1. at' = "record" /\ op' = op /\ op.kind = "remove"
    BY <1>11 DEF D!Cleaned, DaemonInv, PhaseInv
  <2> QED
    BY <2>1 DEF AppliedInv
<1>12. CASE D!Reencode
  BY <1>3, <1>12, Reencodes
<1>13. CASE \/ D!ReadBegins \/ D!Probe \/ D!Store \/ D!Expire \/ D!LoseManager \/ UNCHANGED daemonVars
  BY <1>3, <1>13 DEF D!ReadBegins, D!Probe, D!Store, D!Expire, D!LoseManager, daemonVars
<1>14. CASE \/ D!Login \/ D!UserStops \/ D!Kill \/ D!Return \/ D!Recorded \/ D!TakeOver \/ D!Written \/ D!Rescheduled
            \/ D!Undone \/ D!Unregistered \/ D!Deleted
  BY <1>4, <1>14 DEF D!Login, D!UserStops, D!Kill, D!Return, D!Recorded, D!TakeOver, D!Written, D!Rescheduled,
                     D!Undone, D!Unregistered, D!Deleted, D!Ended
<1>15. CASE \/ D!ApplyRaises \/ D!WriteRaises \/ D!RegisterRaises \/ D!UndoRaises \/ D!UnregisterRaises \/ D!DeleteRaises
            \/ D!Remove \/ \E v \in Versions : D!Reschedule(v)
  BY <1>4, <1>15 DEF D!ApplyRaises, D!WriteRaises, D!RegisterRaises, D!UndoRaises, D!UnregisterRaises, D!DeleteRaises,
                     D!Remove, D!Reschedule, D!Start, D!Ended
<1> QED
  BY <1>5, <1>6, <1>7, <1>8, <1>9, <1>10, <1>11, <1>12, <1>13, <1>14, <1>15 DEF D!Next

(***************************************************************************)
(* A change that raised leaves the files as they were, the registration in *)
(* agreement with them, and nothing of a first apply, unless its own       *)
(* recovery raised too (the except branches of _apply, _remove and         *)
(* set_schedule in policy.py and daemon.py).  An error of the record that  *)
(* no branch expects (daemon.py 392, systemd_daemon.py 934) restores       *)
(* nothing, and leaves a whole apply or a whole remove.                    *)
(***************************************************************************)
THEOREM FailureAlwaysRestores == PartsSpec => []FailureRestores
<1>1. PartsInit => (life = "daemon" => RestoreInv /\ AppliedInv)
  BY DEF PartsInit, D!Init, D!Idle, RestoreInv, AppliedInv
<1>2. (life = "daemon" => DaemonInv) /\ (life = "daemon" => RestoreInv /\ AppliedInv) /\ [PartsNext]_partsVars
      => (life = "daemon" => RestoreInv /\ AppliedInv)'
  BY OneLife, RestoreStep, AppliedStep
<1>3. ASSUME DaemonInv, RestoreInv, AppliedInv PROVE D!FailureRestores
  <2>1. at = "ended" /\ op.error /\ ~op.unrepaired /\ D!Agree(op.before) => Restored(host, op.before, op.kind)
    BY <1>3 DEF RestoreInv
  <2>2. at = "escaped" => \/ op.kind = "apply" /\ InPlace(host) /\ (os = "linux" => Up(host))
                          \/ op.kind = "remove" /\ D!Removed(host, op.reached)
    BY <1>3 DEF DaemonInv, PhaseInv, AppliedInv, Down, Quiet, D!Removed
  <2> QED
    BY <2>1, <2>2 DEF D!FailureRestores, Restored, FirstApply, InPlace, Up
<1>4. (life = "daemon" => DaemonInv /\ RestoreInv /\ AppliedInv) => FailureRestores
  BY <1>3 DEF FailureRestores
<1> QED
  BY <1>1, <1>2, <1>4, DaemonLives, PTL DEF PartsSpec

-----------------------------------------------------------------------------
(***************************************************************************)
(* The policies: a move of the link mode.                                  *)
(***************************************************************************)
\* The first of some of the table is one of them.
LEMMA FirstIsOne == ASSUME NEW ps, ps \subseteq L!ToSet(Order), ps # {} PROVE L!First(ps) \in ps
<1> DEFINE T == {i \in DOMAIN Order : Order[i] \in ps}
<1>1. T \subseteq Nat /\ T # {}
  BY TheTable DEF L!ToSet
<1>2. IsWellFoundedOn(OpToRel(<, Nat), Nat)
  BY NatLessThanWellFounded
<1>3. PICK i \in T : \A j \in T : ~(<<j, i>> \in OpToRel(<, Nat))
  BY <1>1, <1>2, WFMin
<1>4. \A j \in T : ~(j < i)
  BY <1>1, <1>3 DEF OpToRel
<1>5. \A j \in 1..i - 1 : Order[j] \notin ps
  BY <1>1, <1>4, TheTable
<1>6. \E k \in DOMAIN Order : Order[k] \in ps /\ \A j \in 1..k - 1 : Order[j] \notin ps
  BY <1>5
<1> QED
  BY <1>6 DEF L!First

\* The names of the shims, as a sequence.
LEMMA GuardsInARow ==
  LET s == L!SetToSeq(Guards) IN s \in Seq(Guards) /\ L!ToSet(s) = Guards
<1> DEFINE n == Cardinality(Guards)  s == L!SetToSeq(Guards)
<1>1. n \in Nat /\ ExistsBijection(1..n, Guards) /\ IsFiniteSet(Guards)
  BY FS_CardinalityType, TheTable
<1>2. \E f \in [1..n -> Guards] : IsInjective(f)
  BY <1>1 DEF ExistsBijection, Bijection, Injection
<1>8. L!Cardinality(Guards) = n
  BY DEF L!Cardinality, Cardinality
<1>3. s \in [1..n -> Guards] /\ IsInjective(s)
  BY <1>2, <1>8 DEF L!SetToSeq, L!IsInjective, IsInjective
<1>4. s \in Injection(1..n, Guards)
  BY <1>3 DEF Injection
<1>5. IsFiniteSet(1..n) /\ Cardinality(1..n) = n
  BY <1>1, FS_Interval
<1>6. s \in Surjection(1..n, Guards)
  BY <1>1, <1>4, <1>5, FS_Injection
<1>7. \A g \in Guards : \E i \in 1..n : s[i] = g
  BY <1>6 DEF Surjection
<1> HIDE DEF s
<1>9. s \in Seq(Guards) /\ DOMAIN s = 1..n
  BY <1>1, <1>3
<1> QED
  BY <1>7, <1>9, <1>3 DEF L!ToSet, s

-----------------------------------------------------------------------------
Disks == [shims : SUBSET Guards, alias : SUBSET L!ToSet(L!AllRc), block : SUBSET Tweaks,
          helper : SUBSET Tweaks, sourced : SUBSET L!RcFiles, decided : BOOLEAN, bad : Undecodable]

Applies == {"writeShim", "writeAliases", "writeBlock", "writeHelper", "ensureSource"}
Removes == {"dropShim", "stripAliases", "stripBlock", "dropHelper"}

PolicyCalls ==
  ({"writeShim", "dropShim"} \X Guards)
  \cup ({"writeAliases", "stripAliases"} \X L!ToSet(L!AllRc))
  \cup ({"writeBlock", "stripBlock", "writeHelper", "dropHelper"} \X Tweaks)
  \cup ({"ensureSource"} \X L!RcFiles)

\* What a call is for is so on the disk.
Holds(d, w) ==
  CASE w[1] = "writeShim"    -> w[2] \in d.shims
    [] w[1] = "dropShim"     -> w[2] \notin d.shims
    [] w[1] = "writeAliases" -> w[2] \in d.alias
    [] w[1] = "stripAliases" -> w[2] \notin d.alias
    [] w[1] = "writeBlock"   -> w[2] \in d.block
    [] w[1] = "stripBlock"   -> w[2] \notin d.block
    [] w[1] = "writeHelper"  -> w[2] \in d.helper
    [] w[1] = "dropHelper"   -> w[2] \notin d.helper
    [] w[1] = "ensureSource" -> w[2] \in d.sourced

\* Of two calls on the same thing one takes out what the other puts there.
Opposed(k, l) ==
  \/ <<k, l>> \in {<<"writeShim", "dropShim">>, <<"writeAliases", "stripAliases">>,
                  <<"writeBlock", "stripBlock">>, <<"writeHelper", "dropHelper">>}
  \/ <<l, k>> \in {<<"writeShim", "dropShim">>, <<"writeAliases", "stripAliases">>,
                  <<"writeBlock", "stripBlock">>, <<"writeHelper", "dropHelper">>}
Counters(c, w) == c[2] = w[2] /\ Opposed(c[1], w[1])

\* What w is for is so when these calls have been made: it is and stays, or one of them is w.
Sure(d, t, w) ==
  \/ Holds(d, w) /\ \A j \in DOMAIN t : ~Counters(t[j], w)
  \/ \E i \in DOMAIN t : t[i] = w /\ \A j \in DOMAIN t : j > i => ~Counters(t[j], w)

\* The calls that may be one of this policy's.
Belongs(p, c) ==
  \/ p = Ban /\ c[1] \in {"writeShim", "dropShim", "writeAliases", "stripAliases"}
  \/ p \in Tweaks /\ c[1] \in {"writeBlock", "stripBlock", "writeHelper", "dropHelper"} /\ c[2] = p
  \/ p \in Tweaks /\ c[1] = "ensureSource"

-----------------------------------------------------------------------------
LEMMA Performs ==
  ASSUME NEW d \in Disks, NEW c \in PolicyCalls, NEW w \in PolicyCalls
  PROVE  /\ L!Performed(d, c) \in Disks
         /\ L!Performed(d, c).bad = d.bad /\ L!Performed(d, c).decided = d.decided
         /\ c = w => Holds(L!Performed(d, c), w)
         /\ Holds(d, w) /\ ~Counters(c, w) => Holds(L!Performed(d, c), w)
<1> DEFINE e == L!Performed(d, c)
<1>0. c[1] \in Applies \cup Removes /\ w[1] \in Applies \cup Removes
  BY DEF PolicyCalls, Applies, Removes
<1>1. CASE c[1] = "writeShim"
  <2>1. e = [d EXCEPT !.shims = d.shims \cup {c[2]}] /\ c[2] \in Guards
    BY <1>1 DEF L!Performed, PolicyCalls
  <2>2. e \in Disks /\ e.decided = d.decided
    BY <2>1 DEF Disks
  <2>3. /\ e.shims = d.shims \cup {c[2]} /\ e.alias = d.alias /\ e.block = d.block /\ e.helper = d.helper /\ e.sourced = d.sourced /\ e.bad = d.bad
    BY <2>1 DEF Disks
  <2> HIDE DEF e
  <2>4. c = w => Holds(e, w)
    BY <1>1, <2>3 DEF Holds
  <2>5. ASSUME Holds(d, w), ~Counters(c, w) PROVE Holds(e, w)
    <3>1. CASE w[1] = "dropShim"
      <4>1. c[2] # w[2]
        BY <1>1, <2>5, <3>1 DEF Counters, Opposed
      <4> QED
        BY <2>3, <2>5, <3>1, <4>1 DEF Holds
    <3>2. CASE w[1] # "dropShim"
      BY <1>0, <2>3, <2>5, <3>2 DEF Holds, Applies, Removes
    <3> QED
      BY <3>1, <3>2
  <2> QED
    BY <2>2, <2>3, <2>4, <2>5 DEF e
<1>2. CASE c[1] = "dropShim"
  <2>1. e = [d EXCEPT !.shims = d.shims \ {c[2]}] /\ c[2] \in Guards
    BY <1>2 DEF L!Performed, PolicyCalls
  <2>2. e \in Disks /\ e.decided = d.decided
    BY <2>1 DEF Disks
  <2>3. /\ e.shims = d.shims \ {c[2]} /\ e.alias = d.alias /\ e.block = d.block /\ e.helper = d.helper /\ e.sourced = d.sourced /\ e.bad = d.bad
    BY <2>1 DEF Disks
  <2> HIDE DEF e
  <2>4. c = w => Holds(e, w)
    BY <1>2, <2>3 DEF Holds
  <2>5. Holds(d, w) /\ ~Counters(c, w) => Holds(e, w)
    BY <1>0, <1>2, <2>3 DEF Holds, Counters, Opposed, Applies, Removes
  <2> QED
    BY <2>2, <2>3, <2>4, <2>5 DEF e
<1>3. CASE c[1] = "writeAliases"
  <2>1. e = [d EXCEPT !.alias = d.alias \cup {c[2]}] /\ c[2] \in L!ToSet(L!AllRc)
    BY <1>3 DEF L!Performed, PolicyCalls
  <2>2. e \in Disks /\ e.decided = d.decided
    BY <2>1 DEF Disks
  <2>3. /\ e.alias = d.alias \cup {c[2]} /\ e.shims = d.shims /\ e.block = d.block /\ e.helper = d.helper /\ e.sourced = d.sourced /\ e.bad = d.bad
    BY <2>1 DEF Disks
  <2> HIDE DEF e
  <2>4. c = w => Holds(e, w)
    BY <1>3, <2>3 DEF Holds
  <2>5. ASSUME Holds(d, w), ~Counters(c, w) PROVE Holds(e, w)
    <3>1. CASE w[1] = "stripAliases"
      <4>1. c[2] # w[2]
        BY <1>3, <2>5, <3>1 DEF Counters, Opposed
      <4> QED
        BY <2>3, <2>5, <3>1, <4>1 DEF Holds
    <3>2. CASE w[1] # "stripAliases"
      BY <1>0, <2>3, <2>5, <3>2 DEF Holds, Applies, Removes
    <3> QED
      BY <3>1, <3>2
  <2> QED
    BY <2>2, <2>3, <2>4, <2>5 DEF e
<1>4. CASE c[1] = "stripAliases"
  <2>1. e = [d EXCEPT !.alias = d.alias \ {c[2]}] /\ c[2] \in L!ToSet(L!AllRc)
    BY <1>4 DEF L!Performed, PolicyCalls
  <2>2. e \in Disks /\ e.decided = d.decided
    BY <2>1 DEF Disks
  <2>3. /\ e.alias = d.alias \ {c[2]} /\ e.shims = d.shims /\ e.block = d.block /\ e.helper = d.helper /\ e.sourced = d.sourced /\ e.bad = d.bad
    BY <2>1 DEF Disks
  <2> HIDE DEF e
  <2>4. c = w => Holds(e, w)
    BY <1>4, <2>3 DEF Holds
  <2>5. Holds(d, w) /\ ~Counters(c, w) => Holds(e, w)
    BY <1>0, <1>4, <2>3 DEF Holds, Counters, Opposed, Applies, Removes
  <2> QED
    BY <2>2, <2>3, <2>4, <2>5 DEF e
<1>5. CASE c[1] = "writeBlock"
  <2>1. e = [d EXCEPT !.block = d.block \cup {c[2]}] /\ c[2] \in Tweaks
    BY <1>5 DEF L!Performed, PolicyCalls
  <2>2. e \in Disks /\ e.decided = d.decided
    BY <2>1 DEF Disks
  <2>3. /\ e.block = d.block \cup {c[2]} /\ e.shims = d.shims /\ e.alias = d.alias /\ e.helper = d.helper /\ e.sourced = d.sourced /\ e.bad = d.bad
    BY <2>1 DEF Disks
  <2> HIDE DEF e
  <2>4. c = w => Holds(e, w)
    BY <1>5, <2>3 DEF Holds
  <2>5. ASSUME Holds(d, w), ~Counters(c, w) PROVE Holds(e, w)
    <3>1. CASE w[1] = "stripBlock"
      <4>1. c[2] # w[2]
        BY <1>5, <2>5, <3>1 DEF Counters, Opposed
      <4> QED
        BY <2>3, <2>5, <3>1, <4>1 DEF Holds
    <3>2. CASE w[1] # "stripBlock"
      BY <1>0, <2>3, <2>5, <3>2 DEF Holds, Applies, Removes
    <3> QED
      BY <3>1, <3>2
  <2> QED
    BY <2>2, <2>3, <2>4, <2>5 DEF e
<1>6. CASE c[1] = "stripBlock"
  <2>1. e = [d EXCEPT !.block = d.block \ {c[2]}] /\ c[2] \in Tweaks
    BY <1>6 DEF L!Performed, PolicyCalls
  <2>2. e \in Disks /\ e.decided = d.decided
    BY <2>1 DEF Disks
  <2>3. /\ e.block = d.block \ {c[2]} /\ e.shims = d.shims /\ e.alias = d.alias /\ e.helper = d.helper /\ e.sourced = d.sourced /\ e.bad = d.bad
    BY <2>1 DEF Disks
  <2> HIDE DEF e
  <2>4. c = w => Holds(e, w)
    BY <1>6, <2>3 DEF Holds
  <2>5. Holds(d, w) /\ ~Counters(c, w) => Holds(e, w)
    BY <1>0, <1>6, <2>3 DEF Holds, Counters, Opposed, Applies, Removes
  <2> QED
    BY <2>2, <2>3, <2>4, <2>5 DEF e
<1>7. CASE c[1] = "writeHelper"
  <2>1. e = [d EXCEPT !.helper = d.helper \cup {c[2]}] /\ c[2] \in Tweaks
    BY <1>7 DEF L!Performed, PolicyCalls
  <2>2. e \in Disks /\ e.decided = d.decided
    BY <2>1 DEF Disks
  <2>3. /\ e.helper = d.helper \cup {c[2]} /\ e.shims = d.shims /\ e.alias = d.alias /\ e.block = d.block /\ e.sourced = d.sourced /\ e.bad = d.bad
    BY <2>1 DEF Disks
  <2> HIDE DEF e
  <2>4. c = w => Holds(e, w)
    BY <1>7, <2>3 DEF Holds
  <2>5. ASSUME Holds(d, w), ~Counters(c, w) PROVE Holds(e, w)
    <3>1. CASE w[1] = "dropHelper"
      <4>1. c[2] # w[2]
        BY <1>7, <2>5, <3>1 DEF Counters, Opposed
      <4> QED
        BY <2>3, <2>5, <3>1, <4>1 DEF Holds
    <3>2. CASE w[1] # "dropHelper"
      BY <1>0, <2>3, <2>5, <3>2 DEF Holds, Applies, Removes
    <3> QED
      BY <3>1, <3>2
  <2> QED
    BY <2>2, <2>3, <2>4, <2>5 DEF e
<1>8. CASE c[1] = "dropHelper"
  <2>1. e = [d EXCEPT !.helper = d.helper \ {c[2]}] /\ c[2] \in Tweaks
    BY <1>8 DEF L!Performed, PolicyCalls
  <2>2. e \in Disks /\ e.decided = d.decided
    BY <2>1 DEF Disks
  <2>3. /\ e.helper = d.helper \ {c[2]} /\ e.shims = d.shims /\ e.alias = d.alias /\ e.block = d.block /\ e.sourced = d.sourced /\ e.bad = d.bad
    BY <2>1 DEF Disks
  <2> HIDE DEF e
  <2>4. c = w => Holds(e, w)
    BY <1>8, <2>3 DEF Holds
  <2>5. Holds(d, w) /\ ~Counters(c, w) => Holds(e, w)
    BY <1>0, <1>8, <2>3 DEF Holds, Counters, Opposed, Applies, Removes
  <2> QED
    BY <2>2, <2>3, <2>4, <2>5 DEF e
<1>9. CASE c[1] = "ensureSource"
  <2>1. e = [d EXCEPT !.sourced = d.sourced \cup {c[2]}] /\ c[2] \in L!RcFiles
    BY <1>9 DEF L!Performed, PolicyCalls
  <2>2. e \in Disks /\ e.decided = d.decided
    BY <2>1 DEF Disks
  <2>3. /\ e.sourced = d.sourced \cup {c[2]} /\ e.shims = d.shims /\ e.alias = d.alias /\ e.block = d.block /\ e.helper = d.helper /\ e.bad = d.bad
    BY <2>1 DEF Disks
  <2> HIDE DEF e
  <2>4. c = w => Holds(e, w)
    BY <1>9, <2>3 DEF Holds
  <2>5. Holds(d, w) /\ ~Counters(c, w) => Holds(e, w)
    BY <1>0, <1>9, <2>3 DEF Holds, Counters, Opposed, Applies, Removes
  <2> QED
    BY <2>2, <2>3, <2>4, <2>5 DEF e
<1> QED
  BY <1>0, <1>1, <1>2, <1>3, <1>4, <1>5, <1>6, <1>7, <1>8, <1>9 DEF Applies, Removes

LEMMA SureEnds == ASSUME NEW d, NEW w, Sure(d, <<>>, w) PROVE Holds(d, w)
  BY DEF Sure

LEMMA SureGoesOn ==
  ASSUME NEW d \in Disks, NEW t \in Seq(PolicyCalls), t # <<>>, NEW w \in PolicyCalls, Sure(d, t, w)
  PROVE  Sure(L!Performed(d, Head(t)), Tail(t), w)
<1> DEFINE c == Head(t)  u == Tail(t)  e == L!Performed(d, c)
<1>1. /\ c \in PolicyCalls /\ u \in Seq(PolicyCalls) /\ c = t[1] /\ Len(t) \in Nat /\ Len(t) > 0
      /\ Len(u) = Len(t) - 1 /\ \A i \in 1..Len(t) - 1 : u[i] = t[i + 1]
  BY Suffix
<1>2. \A i \in DOMAIN u : i + 1 \in DOMAIN t /\ u[i] = t[i + 1]
  BY <1>1
<1>3. c = w => Holds(e, w)
  BY <1>1, Performs
<1>4. Holds(d, w) /\ ~Counters(c, w) => Holds(e, w)
  BY <1>1, Performs
<1> SUFFICES Sure(e, u, w)
  OBVIOUS
<1> HIDE DEF e, c, u
<1>5. CASE Holds(d, w) /\ \A j \in DOMAIN t : ~Counters(t[j], w)
  BY <1>1, <1>2, <1>4, <1>5 DEF Sure
<1>6. CASE \E i \in DOMAIN t : t[i] = w /\ \A j \in DOMAIN t : j > i => ~Counters(t[j], w)
  <2>1. PICK i \in DOMAIN t : t[i] = w /\ \A j \in DOMAIN t : j > i => ~Counters(t[j], w)
    BY <1>6
  <2>2. CASE i = 1
    <3>1. \A j \in DOMAIN u : ~Counters(u[j], w)
      BY <1>1, <1>2, <2>1, <2>2
    <3> QED
      BY <1>1, <1>3, <2>1, <2>2, <3>1 DEF Sure
  <2>3. CASE i # 1
    <3>1. i - 1 \in DOMAIN u /\ u[i - 1] = w
      BY <1>1, <2>1, <2>3
    <3>2. \A j \in DOMAIN u : j > i - 1 => ~Counters(u[j], w)
      BY <1>1, <1>2, <2>1, <2>3
    <3> QED
      BY <3>1, <3>2 DEF Sure
  <2> QED
    BY <2>2, <2>3
<1> QED
  BY <1>5, <1>6 DEF Sure

\* A list of calls, and two of them.
LEMMA InARow ==
  ASSUME NEW Y, NEW k, NEW args \in Seq(Y), \A y \in Y : <<k, y>> \in PolicyCalls
  PROVE  /\ L!Calls(k, args) \in Seq(PolicyCalls)
         /\ \A c : c \in L!ToSet(L!Calls(k, args)) <=> \E y \in L!ToSet(args) : c = <<k, y>>
<1> DEFINE s == L!Calls(k, args)
<1>1. s = [i \in 1..Len(args) |-> <<k, args[i]>>] /\ Len(args) \in Nat
  BY DEF L!Calls
<1>2. s \in Seq(PolicyCalls) /\ DOMAIN s = 1..Len(args) /\ \A i \in 1..Len(args) : s[i] = <<k, args[i]>>
  BY <1>1
<1> HIDE DEF s
<1>3. DOMAIN s = DOMAIN args
  BY <1>2
<1> QED
  BY <1>2, <1>3 DEF L!ToSet, s

LEMMA OfTwo ==
  ASSUME NEW X, NEW s \in Seq(X), NEW t \in Seq(X)
  PROVE  /\ s \o t \in Seq(X) /\ L!ToSet(s \o t) = L!ToSet(s) \cup L!ToSet(t)
         /\ \A i \in DOMAIN s : i \in DOMAIN (s \o t) /\ (s \o t)[i] = s[i]
         /\ \A i \in DOMAIN t : Len(s) + i \in DOMAIN (s \o t) /\ (s \o t)[Len(s) + i] = t[i]
         /\ \A i \in DOMAIN (s \o t) : i \in DOMAIN s \/ (i - Len(s) \in DOMAIN t /\ (s \o t)[i] = t[i - Len(s)])
         /\ Len(s) \in Nat /\ DOMAIN s = 1..Len(s)
<1> DEFINE u == s \o t
<1>1. u \in Seq(X) /\ Len(u) = Len(s) + Len(t) /\ Len(s) \in Nat /\ Len(t) \in Nat
  OBVIOUS
<1>2. \A i \in DOMAIN s : i \in DOMAIN u /\ u[i] = s[i]
  BY <1>1
<1>3. \A i \in DOMAIN t : Len(s) + i \in DOMAIN u /\ u[Len(s) + i] = t[i]
  BY <1>1
<1>4. \A i \in DOMAIN u : i \in DOMAIN s \/ (i - Len(s) \in DOMAIN t /\ u[i] = t[i - Len(s)])
  BY <1>1
<1> HIDE DEF u
<1>5. L!ToSet(u) = L!ToSet(s) \cup L!ToSet(t)
  BY <1>2, <1>3, <1>4 DEF L!ToSet
<1> QED
  BY <1>1, <1>2, <1>3, <1>4, <1>5 DEF u

LEMMA RcSets ==
  /\ L!RcOrder \in Seq(L!RcFiles) /\ L!RcFiles = {"zshrc", "bashrc"}
  /\ L!AllRc \in Seq(L!ToSet(L!AllRc)) /\ L!ToSet(L!AllRc) = {"myshellrc", "zshrc", "bashrc"}
  /\ \A mode \in L!Modes :
       /\ L!AliasFiles(mode) \in Seq(L!ToSet(L!AllRc)) /\ L!ToSet(L!AliasFiles(mode)) \subseteq L!ToSet(L!AllRc)
       /\ L!SourcedFrom(mode) \in Seq(L!RcFiles) /\ L!ToSet(L!SourcedFrom(mode)) \subseteq L!RcFiles
<1> DEFINE all == {"myshellrc", "zshrc", "bashrc"}
<1>1. L!RcOrder = <<"zshrc", "bashrc">> /\ L!RcOrder \in Seq(all) /\ L!RcOrder \in Seq({"zshrc", "bashrc"})
  BY DEF L!RcOrder
<1>2. L!RcFiles = {"zshrc", "bashrc"}
  BY <1>1 DEF L!RcFiles, L!ToSet
<1>3. <<"myshellrc">> \in Seq(all) /\ L!ToSet(<<"myshellrc">>) = {"myshellrc"}
  BY DEF L!ToSet
<1>4. L!ToSet(L!AllRc) = all /\ L!AllRc \in Seq(all)
  <2> DEFINE one == <<"myshellrc">>
  <2>1. one \in Seq(all) /\ L!RcOrder \in Seq(all)
    BY <1>1, <1>3
  <2>2. L!ToSet(one) = {"myshellrc"} /\ L!AllRc = one \o L!RcOrder
    BY <1>3 DEF L!AllRc
  <2> HIDE DEF one
  <2>3. one \o L!RcOrder \in Seq(all) /\ L!ToSet(one \o L!RcOrder) = L!ToSet(one) \cup L!ToSet(L!RcOrder)
    BY <2>1, OfTwo
  <2> QED
    BY <1>2, <2>2, <2>3 DEF L!RcFiles
<1>5. <<>> \in Seq({"zshrc", "bashrc"}) /\ L!ToSet(<<>>) = {}
  BY DEF L!ToSet
<1> QED
  BY <1>1, <1>2, <1>3, <1>4, <1>5 DEF L!AliasFiles, L!SourcedFrom, L!Modes, L!RcFiles

\* The calls of each policy.
LEMMA BanRemoves ==
  /\ L!RemoveCalls(Ban) \in Seq(PolicyCalls)
  /\ \A c : c \in L!ToSet(L!RemoveCalls(Ban)) <=>
             \/ \E g \in Guards : c = <<"dropShim", g>>
             \/ \E f \in L!ToSet(L!AllRc) : c = <<"stripAliases", f>>
<1> DEFINE s == L!Calls("dropShim", L!SetToSeq(Guards))  t == L!Calls("stripAliases", L!AllRc)
<1>1. s \in Seq(PolicyCalls) /\ \A c : c \in L!ToSet(s) <=> \E y \in Guards : c = <<"dropShim", y>>
  <2>1. \A g \in Guards : <<"dropShim", g>> \in PolicyCalls
    BY DEF PolicyCalls
  <2> DEFINE names == L!SetToSeq(Guards)
  <2>2. names \in Seq(Guards) /\ L!ToSet(names) = Guards
    BY GuardsInARow
  <2> HIDE DEF names
  <2>3. /\ L!Calls("dropShim", names) \in Seq(PolicyCalls)
        /\ \A c : c \in L!ToSet(L!Calls("dropShim", names)) <=>
                   \E y \in L!ToSet(names) : c = <<"dropShim", y>>
    BY <2>1, <2>2, InARow
  <2> QED
    BY <2>2, <2>3 DEF names
<1>2. t \in Seq(PolicyCalls) /\ \A c : c \in L!ToSet(t) <=> \E y \in L!ToSet(L!AllRc) : c = <<"stripAliases", y>>
  <2>1. \A f \in L!ToSet(L!AllRc) : <<"stripAliases", f>> \in PolicyCalls
    BY DEF PolicyCalls
  <2>2. L!AllRc \in Seq(L!ToSet(L!AllRc))
    BY RcSets
  <2>3. /\ L!Calls("stripAliases", L!AllRc) \in Seq(PolicyCalls)
        /\ \A c : c \in L!ToSet(L!Calls("stripAliases", L!AllRc)) <=>
                   \E y \in L!ToSet(L!AllRc) : c = <<"stripAliases", y>>
    BY <2>1, <2>2, InARow
  <2> QED
    BY <2>3
<1>3. L!RemoveCalls(Ban) = s \o t
  BY DEF L!RemoveCalls
<1> HIDE DEF s, t
<1>4. s \o t \in Seq(PolicyCalls) /\ L!ToSet(s \o t) = L!ToSet(s) \cup L!ToSet(t)
  BY <1>1, <1>2, OfTwo
<1> QED
  BY <1>1, <1>2, <1>3, <1>4

LEMMA BanApplies ==
  ASSUME NEW mode \in L!Modes
  PROVE  /\ L!ApplyCalls(Ban, mode) \in Seq(PolicyCalls)
         /\ \A c : c \in L!ToSet(L!ApplyCalls(Ban, mode)) <=>
                    \/ \E g \in Guards : c = <<"writeShim", g>>
                    \/ \E f \in L!ToSet(L!AliasFiles(mode)) : c = <<"writeAliases", f>>
<1> DEFINE s == L!Calls("writeShim", L!SetToSeq(Guards))  t == L!Calls("writeAliases", L!AliasFiles(mode))
<1>1. s \in Seq(PolicyCalls) /\ \A c : c \in L!ToSet(s) <=> \E y \in Guards : c = <<"writeShim", y>>
  <2>1. \A g \in Guards : <<"writeShim", g>> \in PolicyCalls
    BY DEF PolicyCalls
  <2> DEFINE names == L!SetToSeq(Guards)
  <2>2. names \in Seq(Guards) /\ L!ToSet(names) = Guards
    BY GuardsInARow
  <2> HIDE DEF names
  <2>3. /\ L!Calls("writeShim", names) \in Seq(PolicyCalls)
        /\ \A c : c \in L!ToSet(L!Calls("writeShim", names)) <=>
                   \E y \in L!ToSet(names) : c = <<"writeShim", y>>
    BY <2>1, <2>2, InARow
  <2> QED
    BY <2>2, <2>3 DEF names
<1>2. t \in Seq(PolicyCalls) /\ \A c : c \in L!ToSet(t) <=> \E y \in L!ToSet(L!AliasFiles(mode)) : c = <<"writeAliases", y>>
  <2>1. \A f \in L!ToSet(L!AllRc) : <<"writeAliases", f>> \in PolicyCalls
    BY DEF PolicyCalls
  <2>2. L!AliasFiles(mode) \in Seq(L!ToSet(L!AllRc))
    BY RcSets
  <2>3. /\ L!Calls("writeAliases", L!AliasFiles(mode)) \in Seq(PolicyCalls)
        /\ \A c : c \in L!ToSet(L!Calls("writeAliases", L!AliasFiles(mode))) <=>
                   \E y \in L!ToSet(L!AliasFiles(mode)) : c = <<"writeAliases", y>>
    BY <2>1, <2>2, InARow
  <2> QED
    BY <2>3
<1>3. L!ApplyCalls(Ban, mode) = s \o t
  BY DEF L!ApplyCalls
<1> HIDE DEF s, t
<1>4. s \o t \in Seq(PolicyCalls) /\ L!ToSet(s \o t) = L!ToSet(s) \cup L!ToSet(t)
  BY <1>1, <1>2, OfTwo
<1> QED
  BY <1>1, <1>2, <1>3, <1>4

LEMMA Nothing == ASSUME NEW X PROVE <<>> \in Seq(X) /\ L!ToSet(<<>>) = {} /\ DOMAIN <<>> = {}
<1>1. <<>> \in Seq(X)
  OBVIOUS
<1>2. DOMAIN <<>> = {}
  OBVIOUS
<1> QED
  BY <1>1, <1>2 DEF L!ToSet

LEMMA OneCall ==
  ASSUME NEW X, NEW c \in X PROVE <<c>> \in Seq(X) /\ L!ToSet(<<c>>) = {c}
  BY DEF L!ToSet

LEMMA HelperCalls ==
  ASSUME NEW p \in Tweaks, NEW k \in {"writeHelper", "dropHelper"}
  PROVE  /\ L!Helper(p, k) \in Seq(PolicyCalls)
         /\ L!ToSet(L!Helper(p, k)) = IF p \in Helped THEN {<<k, p>>} ELSE {}
<1>1. <<k, p>> \in PolicyCalls
  BY DEF PolicyCalls
<1>2. <<>> \in Seq(PolicyCalls) /\ L!ToSet(<<>>) = {}
  BY Nothing
<1> QED
  BY <1>1, <1>2, OneCall DEF L!Helper

LEMMA TweakRemoves ==
  ASSUME NEW p \in Tweaks
  PROVE  /\ L!RemoveCalls(p) \in Seq(PolicyCalls)
         /\ \A c : c \in L!ToSet(L!RemoveCalls(p)) <=>
                    \/ c = <<"stripBlock", p>>
                    \/ p \in Helped /\ c = <<"dropHelper", p>>
<1> DEFINE c == <<"stripBlock", p>>  s == <<c>>  t == L!Helper(p, "dropHelper")
<1>1. c \in PolicyCalls
  BY DEF PolicyCalls
<1>2. L!RemoveCalls(p) = s \o t
  BY TheTable DEF L!RemoveCalls
<1>3. s \in Seq(PolicyCalls) /\ L!ToSet(s) = {c}
  BY <1>1, OneCall
<1> HIDE DEF s, t
<1>4. /\ t \in Seq(PolicyCalls)
      /\ L!ToSet(t) = IF p \in Helped THEN {<<"dropHelper", p>>} ELSE {}
  BY HelperCalls DEF t
<1>5. s \o t \in Seq(PolicyCalls) /\ L!ToSet(s \o t) = L!ToSet(s) \cup L!ToSet(t)
  <2>1. s \in Seq(PolicyCalls) /\ t \in Seq(PolicyCalls)
    BY <1>3, <1>4
  <2> QED
    BY <2>1, OfTwo
<1> QED
  BY <1>2, <1>3, <1>4, <1>5

LEMMA TweakApplies ==
  ASSUME NEW p \in Tweaks, NEW mode \in L!Modes
  PROVE  /\ L!ApplyCalls(p, mode) \in Seq(PolicyCalls)
         /\ \A c : c \in L!ToSet(L!ApplyCalls(p, mode)) <=>
                    \/ p \in Helped /\ c = <<"writeHelper", p>>
                    \/ c = <<"writeBlock", p>>
                    \/ \E f \in L!ToSet(L!SourcedFrom(mode)) : c = <<"ensureSource", f>>
<1> DEFINE block == <<"writeBlock", p>>  s == L!Helper(p, "writeHelper")  t == <<block>>
           u == L!Calls("ensureSource", L!SourcedFrom(mode))
<1>1. block \in PolicyCalls
  BY DEF PolicyCalls
<1>2. L!ApplyCalls(p, mode) = s \o t \o u
  BY TheTable DEF L!ApplyCalls
<1>3. t \in Seq(PolicyCalls) /\ L!ToSet(t) = {block}
  BY <1>1, OneCall
<1>4. u \in Seq(PolicyCalls) /\ \A c : c \in L!ToSet(u) <=> \E y \in L!ToSet(L!SourcedFrom(mode)) : c = <<"ensureSource", y>>
  <2>1. \A f \in L!RcFiles : <<"ensureSource", f>> \in PolicyCalls
    BY DEF PolicyCalls
  <2>2. L!SourcedFrom(mode) \in Seq(L!RcFiles)
    BY RcSets
  <2>3. /\ L!Calls("ensureSource", L!SourcedFrom(mode)) \in Seq(PolicyCalls)
        /\ \A c : c \in L!ToSet(L!Calls("ensureSource", L!SourcedFrom(mode))) <=>
                   \E y \in L!ToSet(L!SourcedFrom(mode)) : c = <<"ensureSource", y>>
    BY <2>1, <2>2, InARow
  <2> QED
    BY <2>3
<1> HIDE DEF s, t, u
<1>5. /\ s \in Seq(PolicyCalls)
      /\ L!ToSet(s) = IF p \in Helped THEN {<<"writeHelper", p>>} ELSE {}
  BY HelperCalls DEF s
<1>6. s \o t \in Seq(PolicyCalls) /\ L!ToSet(s \o t) = L!ToSet(s) \cup L!ToSet(t)
  BY <1>3, <1>5, OfTwo
<1> DEFINE st == s \o t
<1> HIDE DEF st
<1>8. st \in Seq(PolicyCalls)
  BY <1>6 DEF st
<1>7. st \o u \in Seq(PolicyCalls) /\ L!ToSet(st \o u) = L!ToSet(st) \cup L!ToSet(u)
  <2>1. st \in Seq(PolicyCalls) /\ u \in Seq(PolicyCalls)
    BY <1>4, <1>8
  <2> QED
    BY <2>1, OfTwo
<1> QED
  BY <1>2, <1>3, <1>4, <1>5, <1>6, <1>7 DEF st

LEMMA CallsOfPolicy ==
  ASSUME NEW p \in L!Policies, NEW mode \in L!Modes
  PROVE  /\ L!RemoveCalls(p) \in Seq(PolicyCalls) /\ L!ApplyCalls(p, mode) \in Seq(PolicyCalls)
         /\ \A c \in L!ToSet(L!RemoveCalls(p)) : c \in PolicyCalls /\ c[1] \in Removes /\ Belongs(p, c)
         /\ \A c \in L!ToSet(L!ApplyCalls(p, mode)) : c \in PolicyCalls /\ c[1] \in Applies /\ Belongs(p, c)
<1>1. L!RemoveCalls(p) \in Seq(PolicyCalls) /\ L!ApplyCalls(p, mode) \in Seq(PolicyCalls)
  BY BanRemoves, BanApplies, TweakRemoves, TweakApplies DEF L!Policies
<1>2. /\ \A c \in L!ToSet(L!RemoveCalls(p)) : c \in PolicyCalls
      /\ \A c \in L!ToSet(L!ApplyCalls(p, mode)) : c \in PolicyCalls
  BY <1>1 DEF L!ToSet
<1>3. /\ \A c \in L!ToSet(L!RemoveCalls(p)) : c[1] \in Removes /\ Belongs(p, c)
      /\ \A c \in L!ToSet(L!ApplyCalls(p, mode)) : c[1] \in Applies /\ Belongs(p, c)
  <2>1. CASE p = Ban
    <3>1. \A c \in L!ToSet(L!RemoveCalls(Ban)) : c[1] \in {"dropShim", "stripAliases"}
      BY BanRemoves
    <3>2. \A c \in L!ToSet(L!ApplyCalls(Ban, mode)) : c[1] \in {"writeShim", "writeAliases"}
      BY BanApplies
    <3> QED
      BY <2>1, <3>1, <3>2 DEF Removes, Applies, Belongs
  <2>2. CASE p \in Tweaks
    <3>1. \A c \in L!ToSet(L!RemoveCalls(p)) : c[1] \in {"stripBlock", "dropHelper"} /\ c[2] = p
      BY <2>2, TweakRemoves
    <3>2. \A c \in L!ToSet(L!ApplyCalls(p, mode)) : \/ c[1] \in {"writeBlock", "writeHelper"} /\ c[2] = p
                                                   \/ c[1] = "ensureSource"
      BY <2>2, TweakApplies
    <3> QED
      BY <2>2, <3>1, <3>2 DEF Removes, Applies, Belongs
  <2> QED
    BY <2>1, <2>2 DEF L!Policies
<1> QED
  BY <1>1, <1>2, <1>3

\* The calls of one kind undo none of each other, and those of a policy none of another's.
LEMMA OneKind ==
  ASSUME NEW c, NEW w
  PROVE  /\ c[1] \in Removes /\ w[1] \in Removes => ~Counters(c, w)
         /\ c[1] \in Applies /\ w[1] \in Applies => ~Counters(c, w)
  BY DEF Counters, Opposed, Removes, Applies

LEMMA Apart ==
  ASSUME NEW p, NEW q, p # q, NEW c, NEW w, Belongs(p, w), Belongs(q, c)
  PROVE  ~Counters(c, w)
<1> DEFINE ban == {"writeShim", "dropShim", "writeAliases", "stripAliases"}
           tweak == {"writeBlock", "stripBlock", "writeHelper", "dropHelper"}
<1>1. Opposed(c[1], w[1]) => (c[1] \in ban /\ w[1] \in ban) \/ (c[1] \in tweak /\ w[1] \in tweak)
  BY DEF Opposed
<1>2. ban \cap tweak = {} /\ "ensureSource" \notin ban \cup tweak
  OBVIOUS
<1>3. /\ (p = Ban /\ w[1] \in ban) \/ (p \in Tweaks /\ w[1] \in tweak /\ w[2] = p) \/ (p \in Tweaks /\ w[1] = "ensureSource")
      /\ (q = Ban /\ c[1] \in ban) \/ (q \in Tweaks /\ c[1] \in tweak /\ c[2] = q) \/ (q \in Tweaks /\ c[1] = "ensureSource")
  BY DEF Belongs
<1> HIDE DEF ban, tweak
<1> QED
  BY <1>1, <1>2, <1>3, TheTable DEF Counters

-----------------------------------------------------------------------------
\* What a policy asks of the disk: what its apply writes, and what its remove takes out and its
\* apply does not write again.
IsGoal(p, mode, w) ==
  \/ w \in L!ToSet(L!ApplyCalls(p, mode))
  \/ w \in L!ToSet(L!RemoveCalls(p)) /\ \A c \in L!ToSet(L!ApplyCalls(p, mode)) : ~Counters(c, w)

Held(d, p, mode) == \A w \in PolicyCalls : IsGoal(p, mode, w) => Holds(d, w)
Stripped(d, p)   == \A w \in PolicyCalls : w \in L!ToSet(L!RemoveCalls(p)) => Holds(d, w)

\* The calls t lead there.
WillHold(d, t, p, mode) == \A w \in PolicyCalls : IsGoal(p, mode, w) => Sure(d, t, w)
WillStrip(d, t, p)      == \A w \in PolicyCalls : w \in L!ToSet(L!RemoveCalls(p)) => Sure(d, t, w)

LEMMA HeldIsComplete ==
  ASSUME NEW d \in Disks, NEW p \in L!Policies, NEW mode \in L!Modes, Held(d, p, mode)
  PROVE  L!Complete(d, p, mode)
<1>1. CASE p = Ban
  <2>1. \A g \in Guards : g \in d.shims
    <3> TAKE g \in Guards
    <3>1. <<"writeShim", g>> \in PolicyCalls /\ IsGoal(p, mode, <<"writeShim", g>>)
      BY <1>1, BanApplies DEF PolicyCalls, IsGoal
    <3>2. Holds(d, <<"writeShim", g>>)
      BY <3>1 DEF Held
    <3> QED
      BY <3>2 DEF Holds
  <2>2. \A f \in L!ToSet(L!AliasFiles(mode)) : f \in d.alias
    <3> TAKE f \in L!ToSet(L!AliasFiles(mode))
    <3>1. <<"writeAliases", f>> \in PolicyCalls /\ IsGoal(p, mode, <<"writeAliases", f>>)
      BY <1>1, BanApplies, RcSets DEF PolicyCalls, IsGoal
    <3>2. Holds(d, <<"writeAliases", f>>)
      BY <3>1 DEF Held
    <3> QED
      BY <3>2 DEF Holds
  <2>3. \A f \in L!ToSet(L!AllRc) : f \notin L!ToSet(L!AliasFiles(mode)) => f \notin d.alias
    <3> SUFFICES ASSUME NEW f \in L!ToSet(L!AllRc), f \notin L!ToSet(L!AliasFiles(mode)) PROVE f \notin d.alias
      OBVIOUS
    <3> DEFINE w == <<"stripAliases", f>>
    <3>1. w \in PolicyCalls /\ w \in L!ToSet(L!RemoveCalls(p))
      BY <1>1, BanRemoves DEF PolicyCalls
    <3>2. \A c \in L!ToSet(L!ApplyCalls(p, mode)) : ~Counters(c, w)
      <4> TAKE c \in L!ToSet(L!ApplyCalls(p, mode))
      <4>1. CASE \E g \in Guards : c = <<"writeShim", g>>
        <5>1. c[1] = "writeShim" /\ w[1] = "stripAliases"
          BY <4>1
        <5> QED
          BY <5>1 DEF Counters, Opposed
      <4>2. CASE \E g \in L!ToSet(L!AliasFiles(mode)) : c = <<"writeAliases", g>>
        <5>1. c[2] \in L!ToSet(L!AliasFiles(mode)) /\ w[2] = f
          BY <4>2
        <5> QED
          BY <5>1 DEF Counters
      <4> QED
        BY <4>1, <4>2, <1>1, BanApplies
    <3>3. Holds(d, w)
      BY <3>1, <3>2 DEF Held, IsGoal
    <3> QED
      BY <3>3 DEF Holds
  <2> QED
    <3>1. d.shims \subseteq Guards /\ d.alias \subseteq L!ToSet(L!AllRc)
      BY DEF Disks
    <3>2. d.shims = Guards
      BY <2>1, <3>1
    <3>3. d.alias = L!ToSet(L!AliasFiles(mode))
      BY <2>2, <2>3, <3>1, RcSets
    <3> QED
      BY <1>1, <3>2, <3>3 DEF L!Complete
<1>2. CASE p \in Tweaks
  <2>1. p \in d.block
    <3>1. <<"writeBlock", p>> \in PolicyCalls /\ IsGoal(p, mode, <<"writeBlock", p>>)
      BY <1>2, TweakApplies DEF PolicyCalls, IsGoal
    <3>2. Holds(d, <<"writeBlock", p>>)
      BY <3>1 DEF Held
    <3> QED
      BY <3>2 DEF Holds
  <2>2. ASSUME p \in Helped PROVE p \in d.helper
    <3>1. <<"writeHelper", p>> \in PolicyCalls /\ IsGoal(p, mode, <<"writeHelper", p>>)
      BY <1>2, <2>2, TweakApplies DEF PolicyCalls, IsGoal
    <3>2. Holds(d, <<"writeHelper", p>>)
      BY <3>1 DEF Held
    <3> QED
      BY <3>2 DEF Holds
  <2>3. \A f \in L!ToSet(L!SourcedFrom(mode)) : f \in d.sourced
    <3> TAKE f \in L!ToSet(L!SourcedFrom(mode))
    <3>1. <<"ensureSource", f>> \in PolicyCalls /\ IsGoal(p, mode, <<"ensureSource", f>>)
      BY <1>2, TweakApplies, RcSets DEF PolicyCalls, IsGoal
    <3>2. Holds(d, <<"ensureSource", f>>)
      BY <3>1 DEF Held
    <3> QED
      BY <3>2 DEF Holds
  <2> QED
    BY <1>2, <2>1, <2>2, <2>3, TheTable DEF L!Complete
<1> QED
  BY <1>1, <1>2 DEF L!Policies

\* How the calls of a policy lead there.
LEMMA SureStarts ==
  ASSUME NEW d, NEW t, NEW w \in L!ToSet(t), \A c \in L!ToSet(t) : ~Counters(c, w)
  PROVE  Sure(d, t, w)
  BY DEF Sure, L!ToSet

LEMMA StripStarts ==
  ASSUME NEW d, NEW p \in L!Policies
  PROVE  WillStrip(d, L!RemoveCalls(p), p)
<1> SUFFICES ASSUME NEW w \in PolicyCalls, w \in L!ToSet(L!RemoveCalls(p)) PROVE Sure(d, L!RemoveCalls(p), w)
  BY DEF WillStrip
<1>1. "split" \in L!Modes
  BY DEF L!Modes
<1>2. \A c \in L!ToSet(L!RemoveCalls(p)) : ~Counters(c, w)
  BY <1>1, CallsOfPolicy, OneKind
<1> QED
  BY <1>2, SureStarts

LEMMA HoldStarts ==
  ASSUME NEW d, NEW p \in L!Policies, NEW mode \in L!Modes, Stripped(d, p)
  PROVE  WillHold(d, L!ApplyCalls(p, mode), p, mode)
<1> DEFINE t == L!ApplyCalls(p, mode)
<1> SUFFICES ASSUME NEW w \in PolicyCalls, IsGoal(p, mode, w) PROVE Sure(d, t, w)
  BY DEF WillHold
<1>1. CASE w \in L!ToSet(t)
  <2>1. \A c \in L!ToSet(t) : ~Counters(c, w)
    BY <1>1, CallsOfPolicy, OneKind
  <2> QED
    BY <1>1, <2>1, SureStarts
<1>2. CASE w \in L!ToSet(L!RemoveCalls(p)) /\ \A c \in L!ToSet(t) : ~Counters(c, w)
  <2>1. Holds(d, w)
    BY <1>2 DEF Stripped
  <2> QED
    BY <1>2, <2>1 DEF Sure, L!ToSet
<1> QED
  BY <1>1, <1>2 DEF IsGoal

LEMMA RestoreStarts ==
  ASSUME NEW d, NEW p \in L!Policies, NEW mode \in L!Modes
  PROVE  WillHold(d, L!RemoveCalls(p) \o L!ApplyCalls(p, mode), p, mode)
<1> DEFINE s == L!RemoveCalls(p)  t == L!ApplyCalls(p, mode)  u == s \o t
<1> SUFFICES ASSUME NEW w \in PolicyCalls, IsGoal(p, mode, w) PROVE Sure(d, u, w)
  BY DEF WillHold
<1>1. s \in Seq(PolicyCalls) /\ t \in Seq(PolicyCalls)
  BY CallsOfPolicy
<1>2. /\ \A i \in DOMAIN s : i \in DOMAIN u /\ u[i] = s[i]
      /\ \A i \in DOMAIN t : Len(s) + i \in DOMAIN u /\ u[Len(s) + i] = t[i]
      /\ \A i \in DOMAIN u : i \in DOMAIN s \/ (i - Len(s) \in DOMAIN t /\ u[i] = t[i - Len(s)])
      /\ Len(s) \in Nat /\ DOMAIN s = 1..Len(s) /\ DOMAIN t \subseteq Nat /\ DOMAIN u \subseteq Nat
  BY <1>1, OfTwo
<1>3. /\ \A c \in L!ToSet(t) : c[1] \in Applies
      /\ \A c \in L!ToSet(s) : c[1] \in Removes
  BY CallsOfPolicy
<1>4. \A i \in DOMAIN s : s[i] \in L!ToSet(s)
  BY DEF L!ToSet
<1>5. \A i \in DOMAIN t : t[i] \in L!ToSet(t)
  BY DEF L!ToSet
<1> HIDE DEF s, t, u
<1>6. CASE w \in L!ToSet(t)
  <2>1. PICK i \in DOMAIN t : t[i] = w
    BY <1>6 DEF L!ToSet
  <2>2. Len(s) + i \in DOMAIN u /\ u[Len(s) + i] = w
    BY <1>2, <2>1
  <2>3. \A j \in DOMAIN u : j > Len(s) + i => ~Counters(u[j], w)
    <3> SUFFICES ASSUME NEW j \in DOMAIN u, j > Len(s) + i PROVE ~Counters(u[j], w)
      OBVIOUS
    <3>1. j - Len(s) \in DOMAIN t /\ u[j] = t[j - Len(s)]
      BY <1>2, <2>1
    <3> QED
      BY <3>1, <1>3, <1>5, <1>6, OneKind
  <2> QED
    BY <2>2, <2>3 DEF Sure
<1>7. CASE w \in L!ToSet(s) /\ \A c \in L!ToSet(t) : ~Counters(c, w)
  <2>1. PICK i \in DOMAIN s : s[i] = w
    BY <1>7 DEF L!ToSet
  <2>2. i \in DOMAIN u /\ u[i] = w
    BY <1>2, <2>1
  <2>3. \A j \in DOMAIN u : ~Counters(u[j], w)
    <3> TAKE j \in DOMAIN u
    <3>1. CASE j \in DOMAIN s
      BY <3>1, <1>2, <1>3, <1>4, <1>7, OneKind
    <3>2. CASE j - Len(s) \in DOMAIN t /\ u[j] = t[j - Len(s)]
      BY <3>2, <1>5, <1>7
    <3> QED
      BY <3>1, <3>2, <1>2
  <2> QED
    BY <2>2, <2>3 DEF Sure
<1> QED
  BY <1>6, <1>7 DEF IsGoal, s, t

\* A call of the list, and the end of it.
LEMMA LeadsOn ==
  ASSUME NEW d \in Disks, NEW t \in Seq(PolicyCalls), t # <<>>, NEW p, NEW mode
  PROVE  /\ WillStrip(d, t, p) => WillStrip(L!Performed(d, Head(t)), Tail(t), p)
         /\ WillHold(d, t, p, mode) => WillHold(L!Performed(d, Head(t)), Tail(t), p, mode)
<1>1. \A w \in PolicyCalls : Sure(d, t, w) => Sure(L!Performed(d, Head(t)), Tail(t), w)
  BY SureGoesOn
<1> QED
  BY <1>1 DEF WillStrip, WillHold

LEMMA LeadsThere ==
  ASSUME NEW d, NEW p, NEW mode
  PROVE  /\ WillStrip(d, <<>>, p) => Stripped(d, p)
         /\ WillHold(d, <<>>, p, mode) => Held(d, p, mode)
  BY SureEnds DEF WillStrip, WillHold, Stripped, Held

\* A call of another policy.
LEMMA OthersStay ==
  ASSUME NEW d \in Disks, NEW c \in PolicyCalls, NEW p \in L!Policies, NEW q, q # p, Belongs(q, c),
         NEW mode \in L!Modes
  PROVE  /\ Stripped(d, p) => Stripped(L!Performed(d, c), p)
         /\ Held(d, p, mode) => Held(L!Performed(d, c), p, mode)
<1>1. \A w \in PolicyCalls : w \in L!ToSet(L!RemoveCalls(p)) => Belongs(p, w)
  BY CallsOfPolicy
<1>2. \A w \in PolicyCalls : IsGoal(p, mode, w) => Belongs(p, w)
  BY CallsOfPolicy DEF IsGoal
<1>3. \A w \in PolicyCalls : Belongs(p, w) /\ Holds(d, w) => Holds(L!Performed(d, c), w)
  BY Apart, Performs
<1> QED
  BY <1>1, <1>2, <1>3 DEF Stripped, Held

-----------------------------------------------------------------------------
Table  == L!ToSet(Order)
Moves  == [new : L!Modes, old : L!Modes, queue : SUBSET Table, removed : SUBSET Table,
           report : SUBSET (Table \X {"moved", "restored", "left"}), lost : SUBSET Table,
           error : BOOLEAN]
InHand == {"remove", "apply", "save old", "restore", "undo", "redo"}
InMove == InHand \cup {"save", "ended"}

Hand(m) == L!First(m.queue)
CallsOf(p, t) == t \in Seq(PolicyCalls) /\ \A i \in DOMAIN t : Belongs(p, t[i])

\* In a move there is a policy in hand wherever there are calls, and the calls are its own.
Turn(sc, t, m) ==
  /\ sc \in {"idle", "toggle"} \cup InMove /\ t \in Seq(PolicyCalls)
  /\ sc \in InMove => m \in Moves
  /\ sc \in InHand => m.queue # {} /\ CallsOf(Hand(m), t)
  /\ sc \in {"idle", "save", "save old", "ended"} => t = <<>>

\* The worker is the only one to work while it does, so what it read is what there is.
PolicyShape ==
  /\ disk \in Disks /\ saved \in L!Modes /\ live \in L!Modes /\ deferred \in L!Modes \cup {None}
  /\ Turn(screen, calls, move)
  /\ worker.pc # "idle" => screen = "idle"
  /\ worker.pc = "record" => worker.copy = L!MyShellrc(disk)

LEMMA TableOfPolicies == Table \subseteq L!Policies
  BY TheTable DEF Table, L!ToSet, L!Policies

LEMMA InHandIs ==
  ASSUME NEW m \in Moves, m.queue # {}
  PROVE  Hand(m) \in m.queue /\ Hand(m) \in Table /\ Hand(m) \in L!Policies
<1>1. m.queue \subseteq L!ToSet(Order)
  BY DEF Moves, Table
<1> QED
  BY <1>1, FirstIsOne, TableOfPolicies DEF Hand, Table

LEMMA CallsAreIts ==
  ASSUME NEW p \in L!Policies, NEW mode \in L!Modes
  PROVE  /\ CallsOf(p, L!RemoveCalls(p)) /\ CallsOf(p, L!ApplyCalls(p, mode))
         /\ CallsOf(p, L!RemoveCalls(p) \o L!ApplyCalls(p, mode))
<1> DEFINE s == L!RemoveCalls(p)  t == L!ApplyCalls(p, mode)
<1>1. s \in Seq(PolicyCalls) /\ t \in Seq(PolicyCalls)
  BY CallsOfPolicy
<1>2. \A i \in DOMAIN s : Belongs(p, s[i])
  BY CallsOfPolicy DEF L!ToSet
<1>3. \A i \in DOMAIN t : Belongs(p, t[i])
  BY CallsOfPolicy DEF L!ToSet
<1> HIDE DEF s, t
<1>4. /\ s \o t \in Seq(PolicyCalls)
      /\ \A i \in DOMAIN s : (s \o t)[i] = s[i]
      /\ \A i \in DOMAIN (s \o t) : i \in DOMAIN s \/ (i - Len(s) \in DOMAIN t /\ (s \o t)[i] = t[i - Len(s)])
  BY <1>1, OfTwo
<1>5. \A i \in DOMAIN (s \o t) : Belongs(p, (s \o t)[i])
  BY <1>2, <1>3, <1>4
<1> QED
  BY <1>1, <1>2, <1>3, <1>4, <1>5 DEF CallsOf, s, t

LEMMA TurnGoesOn ==
  ASSUME NEW sc, NEW t, NEW m, Turn(sc, t, m), t # <<>>
  PROVE  Turn(sc, Tail(t), m) /\ Head(t) \in PolicyCalls /\ (sc \in InHand => Belongs(Hand(m), Head(t)))
<1>1. t \in Seq(PolicyCalls)
  BY DEF Turn
<1>2. /\ Head(t) \in PolicyCalls /\ Tail(t) \in Seq(PolicyCalls) /\ Head(t) = t[1]
      /\ Len(t) \in Nat /\ Len(t) > 0 /\ Len(Tail(t)) = Len(t) - 1
      /\ \A i \in 1..Len(t) - 1 : Tail(t)[i] = t[i + 1]
  BY <1>1, Suffix
<1>3. \A p : CallsOf(p, t) => CallsOf(p, Tail(t)) /\ Belongs(p, Head(t))
  BY <1>1, <1>2 DEF CallsOf
<1> QED
  BY <1>2, <1>3 DEF Turn, InHand

-----------------------------------------------------------------------------
\* The turns of a move.
LEMMA Begun ==
  ASSUME NEW new \in L!Modes, live \in L!Modes, L!Begin(new)
  PROVE  /\ Turn(screen', calls', move') /\ move' \in Moves
         /\ move'.removed = {} /\ move'.report = {} /\ ~move'.error
         /\ \/ screen' = "save" /\ move'.queue = {}
            \/ screen' = "remove" /\ move'.queue # {} /\ calls' = L!RemoveCalls(Hand(move'))
<1> DEFINE aware == IF new = live THEN {} ELSE L!AwareActive(disk)
<1>1. aware \subseteq Table
  BY DEF L!AwareActive, Table
<1>2. /\ move' = [L!Still EXCEPT !.new = new, !.old = live, !.queue = aware]
      /\ IF aware = {} THEN screen' = "save" /\ calls' = <<>>
         ELSE screen' = "remove" /\ calls' = L!RemoveCalls(L!First(aware))
  BY DEF L!Begin
<1> HIDE DEF aware
<1>3. /\ move' \in Moves /\ move'.queue = aware /\ move'.removed = {} /\ move'.report = {} /\ ~move'.error
  BY <1>1, <1>2 DEF L!Still, Moves
<1>4. CASE aware = {}
  BY <1>2, <1>3, <1>4, Nothing DEF Turn, InHand, InMove
<1>5. CASE aware # {}
  <2>1. Hand(move') \in L!Policies /\ calls' = L!RemoveCalls(Hand(move')) /\ screen' = "remove"
    BY <1>2, <1>3, <1>5, InHandIs DEF Hand
  <2>2. CallsOf(Hand(move'), calls')
    BY <2>1, CallsAreIts DEF L!Modes
  <2> QED
    BY <1>3, <1>5, <2>1, <2>2 DEF Turn, InHand, InMove, CallsOf
<1> QED
  BY <1>4, <1>5

LEMMA NextRemovals ==
  ASSUME NEW m \in Moves, move \in Moves, move.queue # {}, m.queue = move.queue, L!NextRemoval(m)
  PROVE  LET rest == move.queue \ {Hand(move)} IN
         /\ Turn(screen', calls', move') /\ move' = [m EXCEPT !.queue = rest] /\ move' \in Moves
         /\ \/ rest = {} /\ screen' = "save" /\ calls' = <<>>
            \/ rest # {} /\ screen' = "remove" /\ calls' = L!RemoveCalls(Hand(move'))
<1> DEFINE rest == move.queue \ {Hand(move)}
<1>1. /\ move' = [m EXCEPT !.queue = rest]
      /\ IF rest # {} THEN screen' = "remove" /\ calls' = L!RemoveCalls(L!First(rest))
         ELSE screen' = "save" /\ calls' = <<>>
  BY DEF L!NextRemoval, L!Rest, L!Now, Hand
<1>2. rest \subseteq Table
  BY DEF Moves
<1> SUFFICES /\ Turn(screen', calls', move') /\ move' = [m EXCEPT !.queue = rest] /\ move' \in Moves
             /\ \/ rest = {} /\ screen' = "save" /\ calls' = <<>>
                \/ rest # {} /\ screen' = "remove" /\ calls' = L!RemoveCalls(Hand(move'))
  OBVIOUS
<1> HIDE DEF rest
<1>3. move' \in Moves /\ move'.queue = rest
  BY <1>1, <1>2 DEF Moves
<1>4. CASE rest = {}
  BY <1>1, <1>3, <1>4, Nothing DEF Turn, InHand, InMove
<1>5. CASE rest # {}
  <2>1. Hand(move') \in L!Policies /\ calls' = L!RemoveCalls(Hand(move')) /\ screen' = "remove"
    BY <1>1, <1>3, <1>5, InHandIs DEF Hand
  <2>2. CallsOf(Hand(move'), calls')
    BY <2>1, CallsAreIts DEF L!Modes
  <2> QED
    BY <1>1, <1>3, <1>5, <2>1, <2>2 DEF Turn, InHand, InMove, CallsOf
<1> QED
  BY <1>4, <1>5

LEMMA NextApplies ==
  ASSUME NEW m \in Moves, live' \in L!Modes, L!NextApply(m)
  PROVE  /\ Turn(screen', calls', move') /\ move' = m
         /\ \/ m.queue = {} /\ screen' = "ended" /\ calls' = <<>>
            \/ m.queue # {} /\ screen' = "apply" /\ calls' = L!ApplyCalls(Hand(m), live')
<1>1. /\ move' = m
      /\ IF m.queue = {} THEN screen' = "ended" /\ calls' = <<>>
         ELSE screen' = "apply" /\ calls' = L!ApplyCalls(Hand(m), live')
  BY DEF L!NextApply, L!Start, Hand
<1>2. CASE m.queue = {}
  BY <1>1, <1>2, Nothing DEF Turn, InHand, InMove
<1>3. CASE m.queue # {}
  <2>1. Hand(m) \in L!Policies
    BY <1>3, InHandIs
  <2>2. CallsOf(Hand(m), calls')
    BY <1>1, <1>3, <2>1, CallsAreIts
  <2> QED
    BY <1>1, <1>3, <2>2 DEF Turn, InHand, InMove, CallsOf
<1> QED
  BY <1>2, <1>3

LEMMA RollsBack ==
  ASSUME move \in Moves, L!Rollback
  PROVE  /\ Turn(screen', calls', move') /\ move' \in Moves
         /\ move' = [move EXCEPT !.queue = move.removed, !.error = TRUE]
         /\ \/ move.removed = {} /\ screen' = "ended" /\ calls' = <<>>
            \/ move.removed # {} /\ screen' = "undo" /\ calls' = L!RemoveCalls(Hand(move'))
<1>1. /\ move' = [move EXCEPT !.queue = move.removed, !.error = TRUE]
      /\ IF move.removed = {} THEN screen' = "ended" /\ calls' = <<>>
         ELSE screen' = "undo" /\ calls' = L!RemoveCalls(L!First(move.removed))
  BY DEF L!Rollback
<1>2. move' \in Moves /\ move'.queue = move.removed
  BY <1>1 DEF Moves
<1>3. CASE move.removed = {}
  BY <1>1, <1>2, <1>3, Nothing DEF Turn, InHand, InMove
<1>4. CASE move.removed # {}
  <2>1. Hand(move') \in L!Policies /\ calls' = L!RemoveCalls(Hand(move')) /\ screen' = "undo"
    BY <1>1, <1>2, <1>4, InHandIs DEF Hand
  <2>2. CallsOf(Hand(move'), calls')
    BY <2>1, CallsAreIts DEF L!Modes
  <2> QED
    BY <1>1, <1>2, <1>4, <2>1, <2>2 DEF Turn, InHand, InMove, CallsOf
<1> QED
  BY <1>3, <1>4

LEMMA NextUndos ==
  ASSUME NEW m \in Moves, move \in Moves, move.queue # {}, m.queue = move.queue, L!NextUndo(m)
  PROVE  LET rest == move.queue \ {Hand(move)} IN
         /\ Turn(screen', calls', move') /\ move' = [m EXCEPT !.queue = rest] /\ move' \in Moves
         /\ \/ rest = {} /\ screen' = "ended" /\ calls' = <<>>
            \/ rest # {} /\ screen' = "undo" /\ calls' = L!RemoveCalls(Hand(move'))
<1> DEFINE rest == move.queue \ {Hand(move)}
<1>1. /\ move' = [m EXCEPT !.queue = rest]
      /\ IF rest = {} THEN screen' = "ended" /\ calls' = <<>>
         ELSE screen' = "undo" /\ calls' = L!RemoveCalls(L!First(rest))
  BY DEF L!NextUndo, L!Rest, L!Now, Hand
<1>2. rest \subseteq Table
  BY DEF Moves
<1> SUFFICES /\ Turn(screen', calls', move') /\ move' = [m EXCEPT !.queue = rest] /\ move' \in Moves
             /\ \/ rest = {} /\ screen' = "ended" /\ calls' = <<>>
                \/ rest # {} /\ screen' = "undo" /\ calls' = L!RemoveCalls(Hand(move'))
  OBVIOUS
<1> HIDE DEF rest
<1>3. move' \in Moves /\ move'.queue = rest
  BY <1>1, <1>2 DEF Moves
<1>4. CASE rest = {}
  BY <1>1, <1>3, <1>4, Nothing DEF Turn, InHand, InMove
<1>5. CASE rest # {}
  <2>1. Hand(move') \in L!Policies /\ calls' = L!RemoveCalls(Hand(move')) /\ screen' = "undo"
    BY <1>1, <1>3, <1>5, InHandIs DEF Hand
  <2>2. CallsOf(Hand(move'), calls')
    BY <2>1, CallsAreIts DEF L!Modes
  <2> QED
    BY <1>1, <1>3, <1>5, <2>1, <2>2 DEF Turn, InHand, InMove, CallsOf
<1> QED
  BY <1>4, <1>5

\* What an apply reports.
LEMMA Reports ==
  ASSUME move \in Moves, move.queue # {}, NEW status \in {"moved", "restored"}
  PROVE  LET m == L!Reported(status) IN
         /\ m \in Moves /\ m.queue = move.queue \ {Hand(move)}
         /\ m.report = move.report \cup {<<Hand(move), status>>}
         /\ m.removed = move.removed /\ m.new = move.new /\ m.old = move.old
         /\ m.lost = move.lost /\ (m.error <=> move.error)
<1>1. Hand(move) \in Table
  BY InHandIs
<1> DEFINE m == L!Reported(status)
<1>2. m = [move EXCEPT !.queue = move.queue \ {Hand(move)}, !.report = move.report \cup {<<Hand(move), status>>}]
  BY DEF L!Reported, L!Rest, L!Now, Hand
<1>3. /\ move.queue \ {Hand(move)} \subseteq Table
      /\ move.report \cup {<<Hand(move), status>>} \subseteq Table \X {"moved", "restored", "left"}
  BY <1>1 DEF Moves
<1> HIDE DEF m
<1>4. /\ m \in Moves /\ m.queue = move.queue \ {Hand(move)}
      /\ m.report = move.report \cup {<<Hand(move), status>>}
      /\ m.removed = move.removed /\ m.new = move.new /\ m.old = move.old
      /\ m.lost = move.lost /\ (m.error <=> move.error)
  BY <1>2, <1>3 DEF Moves
<1> QED
  BY <1>4 DEF m

-----------------------------------------------------------------------------
LEMMA PoliciesStart == L!Init => PolicyShape
<1> SUFFICES ASSUME L!Init PROVE PolicyShape
  OBVIOUS
<1>1. PICK on \in SUBSET L!Policies, bad \in Undecodable : disk = L!AppliedAll(on, saved, bad)
  BY DEF L!Init
<1>2. saved \in L!Modes /\ live = saved /\ deferred = None /\ screen = "idle" /\ calls = <<>> /\ worker.pc = "idle"
  BY DEF L!Init
<1>3. disk \in Disks
  <2>1. L!ToSet(L!AliasFiles(saved)) \subseteq L!ToSet(L!AllRc) /\ L!ToSet(L!SourcedFrom(saved)) \subseteq L!RcFiles
    BY <1>2, RcSets
  <2> QED
    BY <1>1, <2>1, TheTable DEF L!AppliedAll, Disks
<1>4. Turn(screen, calls, move)
  BY <1>2, Nothing DEF Turn, InHand, InMove
<1> QED
  BY <1>2, <1>3, <1>4 DEF PolicyShape

LEMMA PoliciesShaped == PolicyShape /\ [L!Next]_policyVars => PolicyShape'
<1> SUFFICES ASSUME PolicyShape, [L!Next]_policyVars PROVE PolicyShape'
  OBVIOUS
<1>0. /\ disk \in Disks /\ saved \in L!Modes /\ live \in L!Modes /\ deferred \in L!Modes \cup {None}
      /\ Turn(screen, calls, move)
      /\ worker.pc # "idle" => screen = "idle"
      /\ worker.pc = "record" => worker.copy = L!MyShellrc(disk)
  BY DEF PolicyShape
<1>a. screen \in InMove => move \in Moves
  BY <1>0 DEF Turn
<1>b. screen \in InHand => move.queue # {}
  BY <1>0 DEF Turn
<1>c. calls \in Seq(PolicyCalls) /\ (screen \in {"idle", "save", "save old", "ended"} => calls = <<>>)
  BY <1>0 DEF Turn
\* A step of the screen, with the worker at rest.
<1>d. ASSUME screen # "idle", worker' = worker, Turn(screen', calls', move'), disk' \in Disks,
             saved' \in L!Modes, live' \in L!Modes, deferred' = deferred
      PROVE  PolicyShape'
  BY <1>0, <1>d DEF PolicyShape
<1>1. CASE L!Call
  <2>1. /\ calls # <<>> /\ disk' = L!Performed(disk, Head(calls)) /\ calls' = Tail(calls)
        /\ UNCHANGED <<saved, live, screen, move, worker, deferred>>
    BY <1>1 DEF L!Call
  <2>2. Turn(screen, Tail(calls), move) /\ Head(calls) \in PolicyCalls
    BY <1>0, <2>1, TurnGoesOn
  <2>3. disk' \in Disks
    BY <1>0, <2>1, <2>2, Performs
  <2>4. screen # "idle"
    BY <1>c, <2>1
  <2>5. Turn(screen', calls', move')
    BY <2>1, <2>2
  <2> QED
    BY <1>0, <1>d, <2>1, <2>3, <2>4, <2>5
<1>2. CASE L!CallEscapes
  <2>1. /\ calls # <<>> /\ calls' = <<>>
        /\ IF screen = "toggle" THEN screen' = "idle" ELSE screen' = "ended" /\ move' = [move EXCEPT !.error = TRUE]
        /\ UNCHANGED <<disk, saved, live, worker, deferred>>
    BY <1>2 DEF L!CallEscapes
  <2>2. screen # "idle" /\ screen \in {"toggle"} \cup InMove
    BY <1>0, <1>c, <2>1 DEF Turn
  <2>3. CASE screen = "toggle"
    <3>1. Turn(screen', calls', move')
      BY <2>1, <2>3, Nothing DEF Turn, InHand, InMove
    <3> QED
      BY <1>0, <1>d, <2>1, <2>2, <3>1
  <2>4. CASE screen # "toggle"
    <3>1. move' \in Moves
      BY <1>a, <2>1, <2>2, <2>4 DEF Moves
    <3>2. Turn(screen', calls', move')
      BY <2>1, <2>4, <3>1, Nothing DEF Turn, InHand, InMove
    <3> QED
      BY <1>0, <1>d, <2>1, <2>2, <3>2
  <2> QED
    BY <2>3, <2>4
<1>3. CASE L!Toggled \/ L!ToggleFails
  <2>1. screen = "toggle" /\ screen' = "idle" /\ calls' = <<>> /\ UNCHANGED <<disk, saved, live, worker, deferred>>
    BY <1>3 DEF L!Toggled, L!ToggleFails
  <2>2. Turn(screen', calls', move')
    BY <2>1, Nothing DEF Turn, InHand, InMove
  <2> QED
    BY <1>0, <1>d, <2>1, <2>2
<1>4. CASE \E p \in L!Policies : L!Toggle(p)
  <2>1. PICK p \in L!Policies : L!Toggle(p)
    BY <1>4
  <2>2. /\ screen = "idle" /\ worker.pc = "idle" /\ screen' = "toggle" /\ live' = live
        /\ calls' = IF row[p] THEN L!RemoveCalls(p) ELSE L!ApplyCalls(p, live')
        /\ UNCHANGED <<disk, saved, worker, deferred>>
    BY <2>1 DEF L!Toggle, L!Start, L!mutating
  <2>3. calls' \in Seq(PolicyCalls)
    BY <1>0, <2>2, CallsOfPolicy
  <2>4. Turn(screen', calls', move')
    BY <2>2, <2>3 DEF Turn, InHand, InMove
  <2> QED
    BY <1>0, <2>2, <2>4 DEF PolicyShape
<1>5. CASE \E new \in L!Modes : L!Pick(new)
  <2>1. PICK new \in L!Modes : L!Pick(new)
    BY <1>5
  <2>2. worker.pc = "idle" /\ L!Begin(new) /\ UNCHANGED <<disk, saved, live, worker, deferred>>
    BY <2>1 DEF L!Pick, L!mutating
  <2>3. Turn(screen', calls', move')
    BY <1>0, <2>2, Begun
  <2> QED
    BY <1>0, <2>2, <2>3 DEF PolicyShape
<1>6. CASE \E new \in L!Modes : L!PickDeferred(new)
  <2>1. deferred' \in L!Modes /\ UNCHANGED <<disk, saved, live, screen, calls, move, worker>>
    BY <1>6 DEF L!PickDeferred
  <2> QED
    BY <1>0, <2>1 DEF PolicyShape
<1>7. CASE L!Removed
  <2>1. screen = "remove" /\ UNCHANGED <<disk, saved, live, worker, deferred>>
    BY <1>7 DEF L!Removed
  <2> DEFINE m == [move EXCEPT !.removed = move.removed \cup {Hand(move)}]
  <2>2. L!NextRemoval(m)
    BY <1>7 DEF L!Removed, L!Now, Hand
  <2>3. move \in Moves /\ move.queue # {}
    BY <1>a, <1>b, <2>1 DEF InHand, InMove
  <2>4. Hand(move) \in Table
    BY <2>3, InHandIs
  <2>5. m \in Moves /\ m.queue = move.queue
    BY <2>3, <2>4 DEF Moves
  <2> HIDE DEF m
  <2>6. Turn(screen', calls', move')
    BY <2>2, <2>3, <2>5, NextRemovals
  <2> QED
    BY <1>0, <1>d, <2>1, <2>6
<1>8. CASE L!RemoveFails
  <2>1. screen = "remove" /\ UNCHANGED <<disk, saved, live, worker, deferred>>
    BY <1>8 DEF L!RemoveFails
  <2> DEFINE m == [move EXCEPT !.report = move.report \cup {<<Hand(move), "left">>}]
  <2>2. L!NextRemoval(m)
    BY <1>8 DEF L!RemoveFails, L!Now, Hand
  <2>3. move \in Moves /\ move.queue # {}
    BY <1>a, <1>b, <2>1 DEF InHand, InMove
  <2>4. Hand(move) \in Table
    BY <2>3, InHandIs
  <2>5. m \in Moves /\ m.queue = move.queue
    BY <2>3, <2>4 DEF Moves
  <2> HIDE DEF m
  <2>6. Turn(screen', calls', move')
    BY <2>2, <2>3, <2>5, NextRemovals
  <2> QED
    BY <1>0, <1>d, <2>1, <2>6
<1>9. CASE L!Save
  <2> DEFINE m == [move EXCEPT !.queue = move.removed]
  <2>1. screen = "save" /\ saved' = move.new /\ live' = move.new /\ L!NextApply(m) /\ UNCHANGED <<disk, worker, deferred>>
    BY <1>9 DEF L!Save
  <2>2. move \in Moves
    BY <1>a, <2>1 DEF InMove
  <2>3. m \in Moves /\ m.queue \subseteq m.removed /\ move.new \in L!Modes
    BY <2>2 DEF Moves
  <2> HIDE DEF m
  <2>4. Turn(screen', calls', move')
    BY <2>1, <2>3, NextApplies
  <2> QED
    BY <1>0, <1>d, <2>1, <2>3, <2>4
<1>10. CASE L!SaveFails \/ L!RestoreFails
  <2>1. screen \in {"save", "save old", "restore"} /\ L!Rollback /\ UNCHANGED <<disk, saved, live, worker, deferred>>
    BY <1>10 DEF L!SaveFails, L!RestoreFails
  <2>2. move \in Moves
    BY <1>a, <2>1 DEF InMove, InHand
  <2>3. Turn(screen', calls', move')
    BY <2>1, <2>2, RollsBack
  <2> QED
    BY <1>0, <1>d, <2>1, <2>3
<1>11. CASE L!Applied \/ L!Restored
  <2>1. PICK status \in {"moved", "restored"} : L!NextApply(L!Reported(status))
    BY <1>11 DEF L!Applied, L!Restored
  <2>2. screen \in {"apply", "restore"} /\ live' \in {live, move.new} /\ saved' \in {saved, move.new} /\ UNCHANGED <<disk, worker, deferred>>
    BY <1>11 DEF L!Applied, L!Restored
  <2>3. move \in Moves /\ move.queue # {}
    BY <1>a, <1>b, <2>2 DEF InMove, InHand
  <2>4. live' \in L!Modes /\ saved' \in L!Modes
    BY <1>0, <2>2, <2>3 DEF Moves
  <2> DEFINE m == L!Reported(status)
  <2>5. m \in Moves
    BY <2>3, Reports
  <2>6. L!NextApply(m)
    BY <2>1
  <2> HIDE DEF m
  <2>7. Turn(screen', calls', move')
    BY <2>4, <2>5, <2>6, NextApplies
  <2> QED
    BY <1>0, <1>d, <2>2, <2>4, <2>7
<1>12. CASE L!ApplyFails
  <2>1. screen = "apply" /\ screen' = "save old" /\ calls' = <<>> /\ UNCHANGED <<disk, saved, live, move, worker, deferred>>
    BY <1>12 DEF L!ApplyFails
  <2>2. move' \in Moves /\ move'.queue # {}
    BY <1>a, <1>b, <2>1 DEF InMove, InHand
  <2>3. Turn(screen', calls', move')
    <3>1. calls' \in Seq(PolicyCalls) /\ \A i \in DOMAIN calls' : FALSE
      BY <2>1, Nothing
    <3> QED
      BY <2>1, <2>2, <3>1 DEF Turn, InHand, InMove, CallsOf
  <2> QED
    BY <1>0, <1>d, <2>1, <2>3
<1>13. CASE L!SaveOld
  <2>1. /\ screen = "save old" /\ saved' = move.old /\ live' = move.old /\ screen' = "restore" /\ move' = move
        /\ calls' = L!RemoveCalls(Hand(move)) \o L!ApplyCalls(Hand(move), move.old)
        /\ UNCHANGED <<disk, worker, deferred>>
    BY <1>13 DEF L!SaveOld, L!Now, Hand
  <2>2. move \in Moves /\ move.queue # {}
    BY <1>a, <1>b, <2>1 DEF InMove, InHand
  <2>3. Hand(move) \in L!Policies /\ move.old \in L!Modes
    BY <2>2, InHandIs DEF Moves
  <2>4. CallsOf(Hand(move), calls')
    BY <2>1, <2>3, CallsAreIts
  <2>5. Turn(screen', calls', move')
    BY <2>1, <2>2, <2>4 DEF Turn, InHand, InMove, CallsOf
  <2> QED
    BY <1>0, <1>d, <2>1, <2>3, <2>5
<1>14. CASE L!UndoApply
  <2>1. /\ screen = "undo" /\ screen' = "redo" /\ move' = move /\ calls' = L!ApplyCalls(Hand(move), live)
        /\ UNCHANGED <<disk, saved, live, worker, deferred>>
    BY <1>14 DEF L!UndoApply, L!Now, Hand
  <2>2. move \in Moves /\ move.queue # {}
    BY <1>a, <1>b, <2>1 DEF InMove, InHand
  <2>3. CallsOf(Hand(move), calls')
    BY <1>0, <2>1, <2>2, InHandIs, CallsAreIts
  <2>4. Turn(screen', calls', move')
    BY <2>1, <2>2, <2>3 DEF Turn, InHand, InMove, CallsOf
  <2> QED
    BY <1>0, <1>d, <2>1, <2>4
<1>15. CASE L!RolledBack \/ L!RollbackFails
  <2>1. screen \in {"undo", "redo"} /\ UNCHANGED <<disk, saved, live, worker, deferred>>
    BY <1>15 DEF L!RolledBack, L!RollbackFails
  <2>2. move \in Moves /\ move.queue # {}
    BY <1>a, <1>b, <2>1 DEF InMove, InHand
  <2>3. Hand(move) \in Table
    BY <2>2, InHandIs
  <2>4. PICK m \in {move, [move EXCEPT !.lost = move.lost \cup {Hand(move)}]} : L!NextUndo(m)
    BY <1>15 DEF L!RolledBack, L!RollbackFails, L!Now, Hand
  <2>5. m \in Moves /\ m.queue = move.queue
    BY <2>2, <2>3 DEF Moves
  <2>6. Turn(screen', calls', move')
    BY <2>2, <2>4, <2>5, NextUndos
  <2> QED
    BY <1>0, <1>d, <2>1, <2>6
<1>16. CASE L!Shown
  <2>1. screen = "ended" /\ screen' = "idle" /\ UNCHANGED <<disk, saved, live, calls, worker, deferred>>
    BY <1>16 DEF L!Shown
  <2>2. Turn(screen', calls', move')
    BY <1>c, <2>1 DEF Turn, InHand, InMove
  <2> QED
    BY <1>0, <1>d, <2>1, <2>2
<1>17. CASE L!WorkerStart \/ L!WorkerRead \/ L!WorkerFails
  <2>1. screen = "idle" /\ UNCHANGED <<disk, saved, live, screen, calls, move, deferred>>
    BY <1>0, <1>17 DEF L!WorkerStart, L!WorkerRead, L!WorkerFails
  <2>2. worker'.pc = "record" => worker'.copy = L!MyShellrc(disk)
    BY <1>17 DEF L!WorkerStart, L!WorkerRead, L!WorkerFails
  <2>3. L!MyShellrc(disk)' = L!MyShellrc(disk)
    BY <2>1 DEF L!MyShellrc
  <2>4. Turn(screen', calls', move')
    BY <1>0, <2>1
  <2> QED
    BY <1>0, <2>1, <2>2, <2>3, <2>4 DEF PolicyShape
<1>18. CASE L!WorkerWrite
  <2>1. /\ worker.pc = "record" /\ worker' = [pc |-> "posted", copy |-> None]
        /\ disk' = [disk EXCEPT !.decided = TRUE, !.block = worker.copy.block,
                                !.alias = (disk.alias \ {"myshellrc"}) \cup worker.copy.alias]
        /\ UNCHANGED <<saved, live, screen, calls, move, deferred>>
    BY <1>18 DEF L!WorkerWrite
  <2>2. worker.copy.block = disk.block /\ worker.copy.alias = disk.alias \cap {"myshellrc"}
    BY <1>0, <2>1 DEF L!MyShellrc
  <2>3. disk' \in Disks
    BY <1>0, <2>1, <2>2, RcSets DEF Disks
  <2>4. Turn(screen', calls', move') /\ screen' = "idle" /\ worker'.pc = "posted"
    BY <1>0, <2>1
  <2> QED
    BY <1>0, <2>1, <2>3, <2>4 DEF PolicyShape
<1>19. CASE L!WorkerDone
  <2>1. /\ worker.pc = "posted" /\ worker'.pc = "idle" /\ deferred' = None /\ UNCHANGED <<disk, saved, live>>
        /\ IF deferred = None THEN UNCHANGED <<screen, calls, move>> ELSE L!Begin(deferred)
    BY <1>19 DEF L!WorkerDone
  <2>2. Turn(screen', calls', move')
    <3>1. CASE deferred = None
      BY <1>0, <2>1, <3>1
    <3>2. CASE deferred # None
      BY <1>0, <2>1, <3>2, Begun
    <3> QED
      BY <3>1, <3>2
  <2> QED
    BY <1>0, <2>1, <2>2 DEF PolicyShape
<1>20. CASE L!Kill
  <2>1. /\ screen' = "idle" /\ calls' = <<>> /\ deferred' = None /\ worker'.pc = "idle" /\ live' = saved
        /\ UNCHANGED <<disk, saved>>
    BY <1>20 DEF L!Kill
  <2>2. Turn(screen', calls', move')
    BY <2>1, Nothing DEF Turn, InHand, InMove
  <2> QED
    BY <1>0, <2>1, <2>2 DEF PolicyShape
<1>21. CASE UNCHANGED policyVars
  <2>1. UNCHANGED <<disk, saved, live, screen, calls, move, worker, deferred>>
    BY <1>21 DEF policyVars
  <2>2. L!MyShellrc(disk)' = L!MyShellrc(disk)
    BY <2>1 DEF L!MyShellrc
  <2> QED
    BY <1>0, <2>1, <2>2 DEF PolicyShape
<1> QED
  BY <1>1, <1>2, <1>3, <1>4, <1>5, <1>6, <1>7, <1>8, <1>9, <1>10, <1>11, <1>12, <1>13, <1>14,
     <1>15, <1>16, <1>17, <1>18, <1>19, <1>20, <1>21 DEF L!Next

LEMMA PoliciesLive == PartsSpec => [](life = "policies" => PolicyShape)
<1> DEFINE Alive == life = "policies" => PolicyShape
<1>1. PartsInit => Alive
  BY PoliciesStart DEF PartsInit
<1>2. Alive /\ [PartsNext]_partsVars => Alive'
  BY OneLife, PoliciesShaped
<1> QED
  BY <1>1, <1>2, PTL DEF PartsSpec

\* Neither the decision on the daemon nor a policy's block in ~/.myshellrc is written over, by
\* the worker or by the screen: for any policies and shims, and failures of any call.
THEOREM NoWriteIsEverLost == PartsSpec => NoWriteIsLost
<1>1. (life = "policies" => PolicyShape) /\ [PartsNext]_partsVars
        => [life = "policies" => L!WritesAreKept]_policyVars
  <2> SUFFICES ASSUME life = "policies" => PolicyShape, [PartsNext]_partsVars, life = "policies"
               PROVE  L!WritesAreKept
    OBVIOUS
  <2>1. PolicyShape /\ [L!Next]_policyVars
    BY OneLife
  <2>2. ASSUME disk.decided PROVE disk'.decided
    <3>1. CASE L!Call
      <4>1. calls # <<>> /\ disk' = L!Performed(disk, Head(calls))
        BY <3>1 DEF L!Call
      <4>2. Head(calls) \in PolicyCalls /\ disk \in Disks
        BY <2>1, <4>1, TurnGoesOn DEF PolicyShape
      <4>3. disk'.decided = disk.decided
        BY <4>1, <4>2, Performs
      <4> QED
        BY <2>2, <4>3
    <3>2. CASE L!WorkerWrite
      BY <2>1, <3>2 DEF L!WorkerWrite, PolicyShape, Disks
    <3>3. CASE disk' = disk
      BY <2>2, <3>3
    <3> QED
      BY <2>1, <3>1, <3>2, <3>3 DEF L!Next, policyVars, L!CallEscapes, L!Toggled, L!ToggleFails, L!Removed,
         L!RemoveFails, L!Save, L!SaveFails, L!Applied, L!ApplyFails, L!SaveOld, L!Restored, L!RestoreFails,
         L!UndoApply, L!RolledBack, L!RollbackFails, L!Shown, L!WorkerStart, L!WorkerRead, L!WorkerFails,
         L!WorkerDone, L!Kill, L!Toggle, L!Pick, L!PickDeferred
  <2>3. ASSUME L!WorkerWrite PROVE L!MyShellrc(disk') = L!MyShellrc(disk)
    <3>1. /\ disk \in Disks /\ worker.copy = L!MyShellrc(disk)
          /\ disk' = [disk EXCEPT !.decided = TRUE, !.block = worker.copy.block,
                                  !.alias = (disk.alias \ {"myshellrc"}) \cup worker.copy.alias]
      BY <2>1, <2>3 DEF L!WorkerWrite, PolicyShape
    <3>2. worker.copy.block = disk.block /\ worker.copy.alias = disk.alias \cap {"myshellrc"}
      BY <3>1 DEF L!MyShellrc
    <3>3. disk'.block = disk.block /\ disk'.alias = disk.alias
      BY <3>1, <3>2 DEF Disks
    <3> QED
      BY <3>3 DEF L!MyShellrc
  <2> QED
    BY <2>2, <2>3 DEF L!WritesAreKept
<1> QED
  BY <1>1, PoliciesLive, PTL DEF PartsSpec, NoWriteIsLost
-----------------------------------------------------------------------------
(***************************************************************************)
(* How far a move is.  A policy that was taken out is stripped until it is *)
(* applied again; one that was told of is as it was told; and the calls    *)
(* left lead the policy in hand where it is to go.                         *)
(***************************************************************************)
NotYetTold(m, p)    == \A r \in m.report : r[1] # p
ToldAs(m, p, s) == <<p, s>> \in m.report /\ \A r \in m.report : r[1] = p => r[2] = s
Told(d, m, p)   == \/ ToldAs(m, p, "moved") /\ Held(d, p, m.new)
                   \/ ToldAs(m, p, "restored") /\ Held(d, p, m.old)

\* Where ~/.myshellrc cannot be decoded, nothing is ever taken out: every removal reads it.
Blocked(d) == "myshellrc" \in d.bad
ReadsIt(t) == \E i \in DOMAIN t : L!FileOf(t[i]) = "myshellrc"

AtRemove(d, t, m) ==
  /\ ~m.error /\ m.queue \cap m.removed = {}
  /\ \A p \in m.removed : Stripped(d, p)
  /\ \A p \in m.removed \cup m.queue : NotYetTold(m, p)
  /\ WillStrip(d, t, Hand(m))
  /\ Blocked(d) => m.removed = {} /\ ReadsIt(t)

AtSave(d, m) ==
  /\ ~m.error /\ \A p \in m.removed : Stripped(d, p) /\ NotYetTold(m, p)
  /\ Blocked(d) => m.removed = {}

AtApply(d, m) ==
  /\ ~m.error /\ ~Blocked(d) /\ m.queue \subseteq m.removed
  /\ \A p \in m.removed \ m.queue : Told(d, m, p)
  /\ \A p \in m.queue : NotYetTold(m, p)
  /\ \A p \in m.queue \ {Hand(m)} : Stripped(d, p)

AtUndo(d, m, lv) ==
  /\ m.error /\ ~Blocked(d) /\ m.queue \subseteq m.removed
  /\ \A p \in m.removed \ m.queue : p \in m.lost \/ Held(d, p, lv)

AtEnd(d, m, lv) ==
  \A p \in m.removed : IF m.error THEN p \in m.lost \/ Held(d, p, lv) ELSE Told(d, m, p)

MoveAt(sc, d, t, m, lv) ==
  /\ sc = "remove" => AtRemove(d, t, m)
  /\ sc = "save" => AtSave(d, m)
  /\ sc \in {"apply", "save old", "restore"} => AtApply(d, m)
  /\ sc = "apply" => lv = m.new /\ WillHold(d, t, Hand(m), lv)
  /\ sc = "restore" => lv = m.old /\ WillHold(d, t, Hand(m), lv)
  /\ sc \in {"undo", "redo"} => AtUndo(d, m, lv)
  /\ sc = "undo" => WillStrip(d, t, Hand(m))
  /\ sc = "redo" => WillHold(d, t, Hand(m), lv)
  /\ sc = "ended" => AtEnd(d, m, lv)

MoveInv == MoveAt(screen, disk, calls, move, live)

LEMMA RemovalsReadIt ==
  ASSUME NEW p \in L!Policies
  PROVE  ReadsIt(L!RemoveCalls(p))
<1>1. CASE p = Ban
  <2>1. <<"stripAliases", "myshellrc">> \in L!ToSet(L!RemoveCalls(p))
    BY <1>1, BanRemoves, RcSets
  <2>2. L!FileOf(<<"stripAliases", "myshellrc">>) = "myshellrc"
    BY DEF L!FileOf
  <2> QED
    BY <2>1, <2>2 DEF ReadsIt, L!ToSet
<1>2. CASE p \in Tweaks
  <2>1. <<"stripBlock", p>> \in L!ToSet(L!RemoveCalls(p))
    BY <1>2, TweakRemoves
  <2>2. L!FileOf(<<"stripBlock", p>>) = "myshellrc"
    BY DEF L!FileOf
  <2> QED
    BY <2>1, <2>2 DEF ReadsIt, L!ToSet
<1> QED
  BY <1>1, <1>2 DEF L!Policies

LEMMA ReadsOn ==
  ASSUME NEW t \in Seq(PolicyCalls), t # <<>>, ReadsIt(t), L!FileOf(Head(t)) # "myshellrc"
  PROVE  ReadsIt(Tail(t))
<1>1. /\ Tail(t) \in Seq(PolicyCalls) /\ Head(t) = t[1] /\ Len(t) \in Nat /\ Len(t) > 0
      /\ Len(Tail(t)) = Len(t) - 1 /\ \A i \in 1..Len(t) - 1 : Tail(t)[i] = t[i + 1]
  BY Suffix
<1>2. PICK i \in DOMAIN t : L!FileOf(t[i]) = "myshellrc"
  BY DEF ReadsIt
<1>3. i # 1
  BY <1>1, <1>2
<1>4. i - 1 \in DOMAIN Tail(t) /\ Tail(t)[i - 1] = t[i]
  BY <1>1, <1>3
<1> QED
  BY <1>2, <1>4 DEF ReadsIt

\* A call of the policy in hand leaves the others as they were told.
LEMMA OthersAsTold ==
  ASSUME NEW d \in Disks, NEW c \in PolicyCalls, NEW m \in Moves, NEW q, Belongs(q, c)
  PROVE  \A p \in L!Policies :
           p # q => /\ Stripped(d, p) => Stripped(L!Performed(d, c), p)
                    /\ \A mode \in L!Modes : Held(d, p, mode) => Held(L!Performed(d, c), p, mode)
                    /\ Told(d, m, p) => Told(L!Performed(d, c), m, p)
<1> SUFFICES ASSUME NEW p \in L!Policies, p # q
             PROVE  /\ Stripped(d, p) => Stripped(L!Performed(d, c), p)
                    /\ \A mode \in L!Modes : Held(d, p, mode) => Held(L!Performed(d, c), p, mode)
                    /\ Told(d, m, p) => Told(L!Performed(d, c), m, p)
  OBVIOUS
<1>1. \A mode \in L!Modes : /\ Stripped(d, p) => Stripped(L!Performed(d, c), p)
                            /\ Held(d, p, mode) => Held(L!Performed(d, c), p, mode)
  BY OthersStay
<1>2. m.new \in L!Modes /\ m.old \in L!Modes
  BY DEF Moves
<1> QED
  BY <1>1, <1>2 DEF Told

LEMMA MoveCalls == ASSUME PolicyShape, MoveInv, L!Call PROVE MoveInv'
<1> DEFINE c == Head(calls)
<1>1. /\ calls # <<>> /\ L!FileOf(c) \notin disk.bad /\ disk' = L!Performed(disk, c) /\ calls' = Tail(calls)
      /\ UNCHANGED <<live, screen, move>>
  BY DEF L!Call, L!Escapes
<1>2. disk \in Disks /\ live \in L!Modes /\ Turn(screen, calls, move)
  BY DEF PolicyShape
<1>3. c \in PolicyCalls /\ calls \in Seq(PolicyCalls) /\ (screen \in InHand => Belongs(Hand(move), c))
  BY <1>1, <1>2, TurnGoesOn DEF Turn
<1>4. /\ screen \in InMove => move \in Moves
      /\ screen \in InHand => move.queue # {} /\ Hand(move) \in move.queue
      /\ screen \notin {"idle", "save", "save old", "ended"}
  BY <1>1, <1>2, InHandIs DEF Turn, InMove
<1>5. disk'.bad = disk.bad
  BY <1>1, <1>2, <1>3, Performs
<1>6. /\ \A p : WillStrip(disk, calls, p) => WillStrip(disk', calls', p)
      /\ \A p, mode : WillHold(disk, calls, p, mode) => WillHold(disk', calls', p, mode)
  BY <1>1, <1>2, <1>3, LeadsOn
<1>7. screen \in InHand => move.removed \subseteq L!Policies /\ move.queue \subseteq L!Policies
  BY <1>4, TableOfPolicies DEF Moves, InMove
<1>8. ASSUME screen \in InHand, NEW p \in L!Policies, p # Hand(move)
      PROVE  /\ Stripped(disk, p) => Stripped(disk', p)
             /\ \A mode \in L!Modes : Held(disk, p, mode) => Held(disk', p, mode)
             /\ Told(disk, move, p) => Told(disk', move, p)
  <2>1. move \in Moves
    BY <1>4, <1>8 DEF InMove
  <2> QED
    BY <1>1, <1>2, <1>3, <1>8, <2>1, OthersAsTold
<1>9. Blocked(disk') <=> Blocked(disk)
  BY <1>5 DEF Blocked
<1>10. ASSUME Blocked(disk), ReadsIt(calls) PROVE ReadsIt(calls')
  BY <1>1, <1>3, <1>10, ReadsOn DEF Blocked
<1> HIDE DEF c
<1>11. CASE screen = "remove"
  <2>1. AtRemove(disk, calls, move)
    BY <1>11 DEF MoveInv, MoveAt
  <2>2. \A p \in move.removed : p \in L!Policies /\ p # Hand(move)
    BY <1>4, <1>7, <1>11, <2>1 DEF AtRemove, InHand
  <2>3. \A p \in move.removed : Stripped(disk', p)
    BY <1>8, <1>11, <2>1, <2>2 DEF AtRemove, InHand
  <2>4. AtRemove(disk', calls', move)
    BY <1>6, <1>9, <1>10, <2>1, <2>3 DEF AtRemove
  <2> QED
    BY <1>1, <1>11, <2>4 DEF MoveInv, MoveAt
<1>12. CASE screen \in {"apply", "restore"}
  <2>1. AtApply(disk, move) /\ WillHold(disk, calls, Hand(move), live)
    BY <1>12 DEF MoveInv, MoveAt
  <2>2. \A p \in move.removed \ move.queue : p \in L!Policies /\ p # Hand(move)
    BY <1>4, <1>7, <1>12 DEF InHand
  <2>3. \A p \in move.removed \ move.queue : Told(disk', move, p)
    BY <1>8, <1>12, <2>1, <2>2 DEF AtApply, InHand
  <2>4. \A p \in move.queue \ {Hand(move)} : Stripped(disk', p)
    BY <1>7, <1>8, <1>12, <2>1 DEF AtApply, InHand
  <2>5. AtApply(disk', move)
    BY <1>9, <2>1, <2>3, <2>4 DEF AtApply
  <2>6. WillHold(disk', calls', Hand(move), live)
    BY <1>6, <2>1
  <2>7. (screen = "apply" => live = move.new) /\ (screen = "restore" => live = move.old)
    BY DEF MoveInv, MoveAt
  <2> QED
    BY <1>1, <1>12, <2>5, <2>6, <2>7 DEF MoveInv, MoveAt
<1>13. CASE screen \in {"undo", "redo"}
  <2>1. AtUndo(disk, move, live)
    BY <1>13 DEF MoveInv, MoveAt
  <2>2. \A p \in move.removed \ move.queue : p \in L!Policies /\ p # Hand(move)
    BY <1>4, <1>7, <1>13 DEF InHand
  <2>3. \A p \in move.removed \ move.queue : p \in move.lost \/ Held(disk', p, live)
    BY <1>2, <1>8, <1>13, <2>1, <2>2 DEF AtUndo, InHand
  <2>4. AtUndo(disk', move, live)
    BY <1>9, <2>1, <2>3 DEF AtUndo
  <2>5. /\ screen = "undo" => WillStrip(disk', calls', Hand(move))
        /\ screen = "redo" => WillHold(disk', calls', Hand(move), live)
    BY <1>6 DEF MoveInv, MoveAt
  <2> QED
    BY <1>1, <1>13, <2>4, <2>5 DEF MoveInv, MoveAt
<1>14. CASE screen \notin InMove
  BY <1>1, <1>14 DEF MoveInv, MoveAt, InMove, InHand
<1> QED
  BY <1>4, <1>11, <1>12, <1>13, <1>14 DEF InMove, InHand

\* A report of the policy in hand says nothing of another.
LEMMA ReportsOfOne ==
  ASSUME NEW m \in Moves, NEW m2, NEW q, NEW status, NotYetTold(m, q),
         m2.report = m.report \cup {<<q, status>>}, m2.new = m.new, m2.old = m.old
  PROVE  /\ ToldAs(m2, q, status)
         /\ \A p : p # q => /\ NotYetTold(m, p) => NotYetTold(m2, p)
                            /\ \A d : Told(d, m, p) => Told(d, m2, p)
<1>1. ToldAs(m2, q, status)
  BY DEF ToldAs, NotYetTold
<1>2. ASSUME NEW p, p # q, NotYetTold(m, p) PROVE NotYetTold(m2, p)
  BY <1>2 DEF NotYetTold
<1>3. ASSUME NEW p, p # q, NEW s, ToldAs(m, p, s) PROVE ToldAs(m2, p, s)
  BY <1>3 DEF ToldAs
<1>4. ASSUME NEW p, p # q, NEW d, Told(d, m, p) PROVE Told(d, m2, p)
  BY <1>3, <1>4 DEF Told
<1> QED
  BY <1>1, <1>2, <1>4

LEMMA MoveBegins == ASSUME PolicyShape, NEW new \in L!Modes, L!Begin(new), disk' = disk PROVE MoveInv'
<1>1. /\ move' \in Moves /\ move'.removed = {} /\ move'.report = {} /\ ~move'.error
      /\ \/ screen' = "save" /\ move'.queue = {}
         \/ screen' = "remove" /\ move'.queue # {} /\ calls' = L!RemoveCalls(Hand(move'))
  BY Begun DEF PolicyShape
<1>2. CASE screen' = "save"
  <2>1. AtSave(disk', move')
    BY <1>1 DEF AtSave
  <2> QED
    BY <1>2, <2>1 DEF MoveInv, MoveAt
<1>3. CASE screen' = "remove"
  <2>1. Hand(move') \in L!Policies
    BY <1>1, <1>3, InHandIs
  <2>2. WillStrip(disk', calls', Hand(move')) /\ ReadsIt(calls')
    BY <1>1, <1>3, <2>1, StripStarts, RemovalsReadIt
  <2>3. AtRemove(disk', calls', move')
    BY <1>1, <2>2 DEF AtRemove, NotYetTold
  <2> QED
    BY <1>3, <2>3 DEF MoveInv, MoveAt
<1> QED
  BY <1>1, <1>2, <1>3

LEMMA MoveRemoves ==
  ASSUME PolicyShape, MoveInv, L!Removed \/ L!RemoveFails
  PROVE  MoveInv'
<1>1. screen = "remove" /\ disk' = disk /\ AtRemove(disk, calls, move)
  BY DEF L!Removed, L!RemoveFails, MoveInv, MoveAt
<1>2. move \in Moves /\ move.queue # {}
  BY <1>1 DEF PolicyShape, Turn, InMove, InHand
<1>3. Hand(move) \in move.queue /\ Hand(move) \in Table /\ Hand(move) \in L!Policies
  BY <1>2, InHandIs
<1> DEFINE rest == move.queue \ {Hand(move)}
<1>4. PICK m \in {[move EXCEPT !.removed = move.removed \cup {Hand(move)}],
                  [move EXCEPT !.report = move.report \cup {<<Hand(move), "left">>}]} : L!NextRemoval(m)
  BY DEF L!Removed, L!RemoveFails, L!Now, Hand
<1>5. m \in Moves /\ m.queue = move.queue
  BY <1>2, <1>3, <1>4 DEF Moves
<1>6. /\ move' = [m EXCEPT !.queue = rest] /\ move' \in Moves
      /\ \/ rest = {} /\ screen' = "save" /\ calls' = <<>>
         \/ rest # {} /\ screen' = "remove" /\ calls' = L!RemoveCalls(Hand(move'))
  BY <1>2, <1>4, <1>5, NextRemovals
<1>7. /\ move'.queue = rest /\ move'.removed = m.removed /\ move'.report = m.report /\ (move'.error <=> m.error)
      /\ move'.new = m.new /\ move'.old = m.old
  BY <1>5, <1>6 DEF Moves
<1> HIDE DEF rest
\* What the move knows of the policies taken out and to take out.
<1>8. /\ ~move'.error /\ rest \cap move'.removed = {}
      /\ \A p \in move'.removed : Stripped(disk, p)
      /\ \A p \in move'.removed \cup rest : NotYetTold(move', p)
      /\ Blocked(disk) => move'.removed = {}
  <2>1. CASE L!Removed
    <3>1. L!NextRemoval([move EXCEPT !.removed = move.removed \cup {Hand(move)}]) /\ calls = <<>>
      BY <2>1 DEF L!Removed, L!Now, Hand
    <3> DEFINE n == [move EXCEPT !.removed = move.removed \cup {Hand(move)}]
    <3>2. n \in Moves /\ n.queue = move.queue /\ n.removed = move.removed \cup {Hand(move)} /\ n.report = move.report /\ ~n.error
      BY <1>1, <1>2, <1>3 DEF Moves, AtRemove
    <3>3. L!NextRemoval(n)
      BY <3>1
    <3> HIDE DEF n
    <3>4. move' = [n EXCEPT !.queue = rest]
      BY <1>2, <3>2, <3>3, NextRemovals DEF rest
    <3>5. move'.removed = move.removed \cup {Hand(move)} /\ move'.report = move.report /\ ~move'.error
      BY <3>2, <3>4 DEF Moves
    <3>6. Stripped(disk, Hand(move))
      BY <1>1, <3>1, LeadsThere DEF AtRemove
    <3>7. ~Blocked(disk)
      BY <1>1, <3>1, Nothing DEF AtRemove, ReadsIt
    <3>8. \A p : NotYetTold(move, p) => NotYetTold(move', p)
      BY <3>5 DEF NotYetTold
    <3> QED
      BY <1>1, <1>3, <3>5, <3>6, <3>7, <3>8 DEF AtRemove, rest
  <2>2. CASE L!RemoveFails
    <3>1. L!NextRemoval([move EXCEPT !.report = move.report \cup {<<Hand(move), "left">>}])
      BY <2>2 DEF L!RemoveFails, L!Now, Hand
    <3> DEFINE n == [move EXCEPT !.report = move.report \cup {<<Hand(move), "left">>}]
    <3>2. n \in Moves /\ n.queue = move.queue /\ n.removed = move.removed /\ n.report = move.report \cup {<<Hand(move), "left">>} /\ ~n.error
      BY <1>1, <1>2, <1>3 DEF Moves, AtRemove
    <3>3. L!NextRemoval(n)
      BY <3>1
    <3> HIDE DEF n
    <3>4. move' = [n EXCEPT !.queue = rest]
      BY <1>2, <3>2, <3>3, NextRemovals DEF rest
    <3>5. move'.removed = move.removed /\ move'.report = move.report \cup {<<Hand(move), "left">>} /\ ~move'.error
      BY <3>2, <3>4 DEF Moves
    <3>6. \A p : p # Hand(move) /\ NotYetTold(move, p) => NotYetTold(move', p)
      BY <3>5 DEF NotYetTold
    <3> QED
      BY <1>1, <1>3, <3>5, <3>6 DEF AtRemove, rest
  <2> QED
    BY <2>1, <2>2
<1>9. CASE screen' = "save"
  <2>1. AtSave(disk', move')
    BY <1>1, <1>8 DEF AtSave
  <2> QED
    BY <1>9, <2>1 DEF MoveInv, MoveAt
<1>10. CASE screen' = "remove"
  <2>1. calls' = L!RemoveCalls(Hand(move')) /\ move'.queue # {}
    BY <1>6, <1>7, <1>10
  <2>2. Hand(move') \in L!Policies
    BY <1>6, <2>1, InHandIs
  <2>3. WillStrip(disk', calls', Hand(move')) /\ ReadsIt(calls')
    BY <2>1, <2>2, StripStarts, RemovalsReadIt
  <2>4. AtRemove(disk', calls', move')
    BY <1>1, <1>7, <1>8, <2>3 DEF AtRemove
  <2> QED
    BY <1>10, <2>4 DEF MoveInv, MoveAt
<1> QED
  BY <1>6, <1>9, <1>10

LEMMA MoveSaves == ASSUME PolicyShape, MoveInv, L!Save PROVE MoveInv'
<1> DEFINE m == [move EXCEPT !.queue = move.removed]
<1>1. screen = "save" /\ live' = move.new /\ disk' = disk /\ L!NextApply(m) /\ AtSave(disk, move)
  BY DEF L!Save, MoveInv, MoveAt
<1>2. move \in Moves
  BY <1>1 DEF PolicyShape, Turn, InMove
<1>3. /\ m \in Moves /\ m.queue = move.removed /\ m.removed = move.removed /\ m.new = move.new /\ m.report = move.report
      /\ (m.error <=> move.error) /\ move.new \in L!Modes
  BY <1>2 DEF Moves
<1> HIDE DEF m
<1>4. /\ move' = m
      /\ \/ m.queue = {} /\ screen' = "ended" /\ calls' = <<>>
         \/ m.queue # {} /\ screen' = "apply" /\ calls' = L!ApplyCalls(Hand(m), live')
  BY <1>1, <1>3, NextApplies
<1>5. CASE screen' = "ended"
  BY <1>3, <1>4, <1>5 DEF MoveInv, MoveAt, AtEnd
<1>6. CASE screen' = "apply"
  <2>1. m.queue # {} /\ calls' = L!ApplyCalls(Hand(m), live')
    BY <1>4, <1>6
  <2>2. Hand(m) \in m.queue /\ Hand(m) \in L!Policies
    BY <1>3, <2>1, InHandIs
  <2>3. Stripped(disk, Hand(m))
    BY <1>1, <1>3, <2>2 DEF AtSave
  <2>4. WillHold(disk, calls', Hand(m), live')
    BY <1>1, <1>3, <2>1, <2>2, <2>3, HoldStarts
  <2>5. \A p : NotYetTold(move, p) => NotYetTold(m, p)
    BY <1>3 DEF NotYetTold
  <2>6. AtApply(disk, m)
    BY <1>1, <1>3, <2>1, <2>5 DEF AtSave, AtApply
  <2> QED
    BY <1>1, <1>3, <1>4, <1>6, <2>4, <2>6 DEF MoveInv, MoveAt
<1> QED
  BY <1>4, <1>5, <1>6

LEMMA MoveRollsBack == ASSUME PolicyShape, MoveInv, L!SaveFails \/ L!RestoreFails PROVE MoveInv'
<1>1. screen \in {"save", "save old", "restore"} /\ L!Rollback /\ disk' = disk /\ live' = live
  BY DEF L!SaveFails, L!RestoreFails
<1>2. move \in Moves
  BY <1>1 DEF PolicyShape, Turn, InMove, InHand
<1>3. Blocked(disk) => move.removed = {}
  BY <1>1 DEF MoveInv, MoveAt, AtSave, AtApply
<1>4. /\ move' \in Moves /\ move' = [move EXCEPT !.queue = move.removed, !.error = TRUE]
      /\ \/ move.removed = {} /\ screen' = "ended" /\ calls' = <<>>
         \/ move.removed # {} /\ screen' = "undo" /\ calls' = L!RemoveCalls(Hand(move'))
  BY <1>1, <1>2, RollsBack
<1>5. move'.queue = move.removed /\ move'.removed = move.removed /\ move'.error
  BY <1>2, <1>4 DEF Moves
<1>6. CASE screen' = "ended"
  BY <1>4, <1>5, <1>6 DEF MoveInv, MoveAt, AtEnd
<1>7. CASE screen' = "undo"
  <2>1. move.removed # {} /\ calls' = L!RemoveCalls(Hand(move'))
    BY <1>4, <1>7
  <2>2. Hand(move') \in L!Policies
    BY <1>4, <1>5, <2>1, InHandIs
  <2>3. WillStrip(disk', calls', Hand(move'))
    BY <2>1, <2>2, StripStarts
  <2>4. AtUndo(disk', move', live')
    BY <1>1, <1>3, <1>5, <2>1 DEF AtUndo
  <2> QED
    BY <1>7, <2>3, <2>4 DEF MoveInv, MoveAt
<1> QED
  BY <1>4, <1>6, <1>7

LEMMA MoveReports == ASSUME PolicyShape, MoveInv, L!Applied \/ L!Restored PROVE MoveInv'
<1>1. /\ screen \in {"apply", "restore"} /\ calls = <<>> /\ disk' = disk /\ live' \in {live, move.new}
      /\ screen = "apply" => live' = live /\ L!NextApply(L!Reported("moved"))
      /\ screen = "restore" => live' = move.new /\ L!NextApply(L!Reported("restored"))
  BY DEF L!Applied, L!Restored
<1>2. move \in Moves /\ move.queue # {}
  BY <1>1 DEF PolicyShape, Turn, InMove, InHand
<1>3. Hand(move) \in move.queue /\ Hand(move) \in L!Policies
  BY <1>2, InHandIs
<1>4. AtApply(disk, move) /\ WillHold(disk, calls, Hand(move), live)
  BY <1>1 DEF MoveInv, MoveAt
<1>5. /\ screen = "apply" => live = move.new
      /\ screen = "restore" => live = move.old
  BY DEF MoveInv, MoveAt
<1>6. Held(disk, Hand(move), live)
  BY <1>1, <1>4, LeadsThere
<1>7. live' = move.new /\ move.new \in L!Modes
  BY <1>1, <1>2, <1>5 DEF Moves
<1>8. PICK status \in {"moved", "restored"} :
        /\ L!NextApply(L!Reported(status))
        /\ status = "moved" => live = move.new
        /\ status = "restored" => live = move.old
  BY <1>1, <1>5
<1> DEFINE m == L!Reported(status)
<1>9. /\ m \in Moves /\ m.queue = move.queue \ {Hand(move)}
      /\ m.report = move.report \cup {<<Hand(move), status>>}
      /\ m.removed = move.removed /\ m.new = move.new /\ m.old = move.old
      /\ m.lost = move.lost /\ (m.error <=> move.error)
  BY <1>2, Reports
<1>10. L!NextApply(m)
  BY <1>8
<1> HIDE DEF m
<1>11. /\ move' = m
       /\ \/ m.queue = {} /\ screen' = "ended" /\ calls' = <<>>
          \/ m.queue # {} /\ screen' = "apply" /\ calls' = L!ApplyCalls(Hand(m), live')
  BY <1>7, <1>9, <1>10, NextApplies
<1>12. NotYetTold(move, Hand(move))
  BY <1>3, <1>4 DEF AtApply
<1>13. /\ ToldAs(m, Hand(move), status)
       /\ \A p : p # Hand(move) => /\ NotYetTold(move, p) => NotYetTold(m, p)
                                   /\ \A d : Told(d, move, p) => Told(d, m, p)
  BY <1>2, <1>9, <1>12, ReportsOfOne
<1>14. Told(disk, m, Hand(move))
  BY <1>6, <1>8, <1>9, <1>13 DEF Told
<1>15. /\ ~m.error /\ ~Blocked(disk) /\ m.queue \subseteq m.removed
       /\ \A p \in m.removed \ m.queue : Told(disk, m, p)
       /\ \A p \in m.queue : NotYetTold(m, p) /\ Stripped(disk, p)
  BY <1>3, <1>4, <1>9, <1>13, <1>14 DEF AtApply
<1>16. CASE screen' = "ended"
  <2>1. AtEnd(disk', move', live')
    BY <1>1, <1>11, <1>15, <1>16 DEF AtEnd
  <2> QED
    BY <1>16, <2>1 DEF MoveInv, MoveAt
<1>17. CASE screen' = "apply"
  <2>1. m.queue # {} /\ calls' = L!ApplyCalls(Hand(m), live')
    BY <1>11, <1>17
  <2>2. Hand(m) \in m.queue /\ Hand(m) \in L!Policies
    BY <1>9, <2>1, InHandIs
  <2>3. WillHold(disk, calls', Hand(m), live')
    BY <1>7, <1>15, <2>1, <2>2, HoldStarts
  <2>4. AtApply(disk, m)
    BY <1>15 DEF AtApply
  <2> QED
    BY <1>1, <1>7, <1>9, <1>11, <1>17, <2>3, <2>4 DEF MoveInv, MoveAt
<1> QED
  BY <1>11, <1>16, <1>17

LEMMA MoveRestores == ASSUME PolicyShape, MoveInv, L!ApplyFails \/ L!SaveOld PROVE MoveInv'
<1>1. disk' = disk /\ move' = move /\ screen \in {"apply", "save old"}
  BY DEF L!ApplyFails, L!SaveOld
<1>2. AtApply(disk, move)
  BY <1>1 DEF MoveInv, MoveAt
<1>3. CASE L!ApplyFails
  <2>1. screen' = "save old"
    BY <1>3 DEF L!ApplyFails
  <2> QED
    BY <1>1, <1>2, <2>1 DEF MoveInv, MoveAt
<1>4. CASE L!SaveOld
  <2>1. /\ screen' = "restore" /\ live' = move.old
        /\ calls' = L!RemoveCalls(Hand(move)) \o L!ApplyCalls(Hand(move), move.old)
    BY <1>4 DEF L!SaveOld, L!Now, Hand
  <2>2. move \in Moves /\ move.queue # {}
    BY <1>1 DEF PolicyShape, Turn, InMove, InHand
  <2>3. Hand(move) \in L!Policies /\ move.old \in L!Modes
    BY <2>2, InHandIs DEF Moves
  <2>4. WillHold(disk, calls', Hand(move), live')
    BY <2>1, <2>3, RestoreStarts
  <2> QED
    BY <1>1, <1>2, <2>1, <2>4 DEF MoveInv, MoveAt
<1> QED
  BY <1>3, <1>4

LEMMA MoveUndoes == ASSUME PolicyShape, MoveInv, L!UndoApply \/ L!RolledBack \/ L!RollbackFails PROVE MoveInv'
<1>1. screen \in {"undo", "redo"} /\ disk' = disk /\ live' = live /\ live \in L!Modes
  BY DEF L!UndoApply, L!RolledBack, L!RollbackFails, PolicyShape
<1>2. move \in Moves /\ move.queue # {}
  BY <1>1 DEF PolicyShape, Turn, InMove, InHand
<1>3. Hand(move) \in move.queue /\ Hand(move) \in L!Policies /\ Hand(move) \in Table
  BY <1>2, InHandIs
<1>4. AtUndo(disk, move, live)
  BY <1>1 DEF MoveInv, MoveAt
<1>5. CASE L!UndoApply
  <2>1. screen = "undo" /\ calls = <<>> /\ screen' = "redo" /\ calls' = L!ApplyCalls(Hand(move), live) /\ move' = move
    BY <1>5 DEF L!UndoApply, L!Now, Hand
  <2>2. Stripped(disk, Hand(move))
    BY <2>1, LeadsThere DEF MoveInv, MoveAt
  <2>3. WillHold(disk, calls', Hand(move), live)
    BY <1>1, <1>3, <2>1, <2>2, HoldStarts
  <2> QED
    BY <1>1, <1>4, <2>1, <2>3 DEF MoveInv, MoveAt
<1>6. CASE L!RolledBack \/ L!RollbackFails
  <2> DEFINE rest == move.queue \ {Hand(move)}
  <2>1. PICK m \in Moves : /\ L!NextUndo(m) /\ m.queue = move.queue /\ m.removed = move.removed /\ m.error
                           /\ move.lost \subseteq m.lost
                           /\ Hand(move) \in m.lost \/ Held(disk, Hand(move), live)
    <3>1. CASE L!RolledBack
      <4>1. screen = "redo" /\ calls = <<>> /\ L!NextUndo(move)
        BY <3>1 DEF L!RolledBack
      <4>2. Held(disk, Hand(move), live)
        BY <4>1, LeadsThere DEF MoveInv, MoveAt
      <4> QED
        BY <1>2, <1>4, <4>1, <4>2 DEF AtUndo
    <3>2. CASE L!RollbackFails
      <4> DEFINE n == [move EXCEPT !.lost = move.lost \cup {Hand(move)}]
      <4>1. L!NextUndo(n)
        BY <3>2 DEF L!RollbackFails, L!Now, Hand
      <4>2. n \in Moves /\ n.queue = move.queue /\ n.removed = move.removed /\ n.error /\ n.lost = move.lost \cup {Hand(move)}
        BY <1>2, <1>3, <1>4 DEF Moves, AtUndo
      <4> HIDE DEF n
      <4> QED
        BY <4>1, <4>2
    <3> QED
      BY <1>6, <3>1, <3>2
  <2>2. /\ move' = [m EXCEPT !.queue = rest] /\ move' \in Moves
        /\ \/ rest = {} /\ screen' = "ended" /\ calls' = <<>>
           \/ rest # {} /\ screen' = "undo" /\ calls' = L!RemoveCalls(Hand(move'))
    BY <1>2, <2>1, NextUndos
  <2>3. move'.queue = rest /\ move'.removed = move.removed /\ move'.error /\ move'.lost = m.lost
    BY <2>1, <2>2 DEF Moves
  <2>4. /\ rest \subseteq move.removed
        /\ \A p \in move.removed \ rest : p \in m.lost \/ Held(disk, p, live)
    BY <1>3, <1>4, <2>1 DEF AtUndo
  <2> HIDE DEF rest
  <2>5. CASE screen' = "ended"
    <3>1. AtEnd(disk', move', live')
      BY <1>1, <2>2, <2>3, <2>4, <2>5 DEF AtEnd
    <3> QED
      BY <2>5, <3>1 DEF MoveInv, MoveAt
  <2>6. CASE screen' = "undo"
    <3>1. calls' = L!RemoveCalls(Hand(move')) /\ move'.queue # {}
      BY <2>2, <2>3, <2>6
    <3>2. Hand(move') \in L!Policies
      BY <2>2, <3>1, InHandIs
    <3>3. WillStrip(disk', calls', Hand(move'))
      BY <3>1, <3>2, StripStarts
    <3>4. AtUndo(disk', move', live')
      BY <1>1, <1>4, <2>3, <2>4 DEF AtUndo
    <3> QED
      BY <2>6, <3>3, <3>4 DEF MoveInv, MoveAt
  <2> QED
    BY <2>2, <2>5, <2>6
<1> QED
  BY <1>5, <1>6

LEMMA MoveStep ==
  ASSUME \A bad \in Undecodable : bad = {} \/ "myshellrc" \in bad
  PROVE  PolicyShape /\ MoveInv /\ [L!Next]_policyVars => MoveInv'
<1> SUFFICES ASSUME PolicyShape, MoveInv, [L!Next]_policyVars PROVE MoveInv'
  OBVIOUS
<1>1. ASSUME screen' \notin InMove PROVE MoveInv'
  BY <1>1 DEF MoveInv, MoveAt, InMove, InHand
<1>2. CASE L!CallEscapes
  <2>1. calls # <<>> /\ L!FileOf(Head(calls)) \in disk.bad /\ disk' = disk
    BY <1>2 DEF L!CallEscapes, L!Escapes
  <2>2. Blocked(disk)
    BY <2>1 DEF PolicyShape, Disks, Blocked
  <2>3. CASE screen = "toggle"
    BY <1>1, <1>2, <2>3 DEF L!CallEscapes, InMove, InHand
  <2>4. CASE screen # "toggle"
    <3>1. screen' = "ended" /\ move' = [move EXCEPT !.error = TRUE]
      BY <1>2, <2>4 DEF L!CallEscapes
    <3>2. screen \in InHand \ {"save old"}
      BY <2>1, <2>4 DEF PolicyShape, Turn, InMove
    <3>3. move \in Moves
      BY <3>2 DEF PolicyShape, Turn, InMove
    <3>4. screen = "remove" /\ move.removed = {}
      BY <2>2, <3>2 DEF MoveInv, MoveAt, AtRemove, AtApply, AtUndo, InHand
    <3>5. move'.removed = {}
      BY <3>1, <3>3, <3>4 DEF Moves
    <3> QED
      BY <3>1, <3>5 DEF MoveInv, MoveAt, AtEnd
  <2> QED
    BY <2>3, <2>4
<1>3. CASE L!WorkerDone
  <2>1. CASE deferred = None
    <3>1. screen' = "idle"
      BY <1>3, <2>1 DEF L!WorkerDone, PolicyShape
    <3> QED
      BY <1>1, <3>1 DEF InMove, InHand
  <2>2. CASE deferred # None
    BY <1>3, <2>2, MoveBegins DEF L!WorkerDone, PolicyShape
  <2> QED
    BY <2>1, <2>2
<1>4. CASE \E new \in L!Modes : L!Pick(new)
  BY <1>4, MoveBegins DEF L!Pick
<1>5. CASE \/ L!Toggled \/ L!ToggleFails \/ L!Shown \/ L!Kill \/ (\E p \in L!Policies : L!Toggle(p))
           \/ L!WorkerStart \/ L!WorkerRead \/ L!WorkerWrite \/ L!WorkerFails
           \/ (\E new \in L!Modes : L!PickDeferred(new))
  <2>1. screen' \in {"idle", "toggle"}
    BY <1>5 DEF L!Toggled, L!ToggleFails, L!Shown, L!Kill, L!Toggle, L!WorkerStart, L!WorkerRead, L!WorkerWrite,
                L!WorkerFails, L!PickDeferred, PolicyShape
  <2> QED
    BY <1>1, <2>1 DEF InMove, InHand
<1>6. CASE UNCHANGED policyVars
  BY <1>6 DEF policyVars, MoveInv
<1> QED
  BY <1>2, <1>3, <1>4, <1>5, <1>6, MoveCalls, MoveRemoves, MoveSaves, MoveRollsBack, MoveReports, MoveRestores,
     MoveUndoes DEF L!Next

LEMMA MoveIsTold == PolicyShape /\ MoveInv => L!MoveIsTruthful
<1> SUFFICES ASSUME PolicyShape, MoveInv, screen = "ended", NEW p \in move.removed
             PROVE  IF move.error THEN p \in move.lost \/ L!Complete(disk, p, live)
                    ELSE \/ L!Status(p) = {"moved"} /\ L!Complete(disk, p, move.new)
                         \/ L!Status(p) = {"restored"} /\ L!Complete(disk, p, move.old)
  BY DEF L!MoveIsTruthful
<1>1. disk \in Disks /\ move \in Moves /\ live \in L!Modes /\ AtEnd(disk, move, live)
  BY DEF PolicyShape, Turn, InMove, MoveInv, MoveAt
<1>2. p \in L!Policies /\ move.new \in L!Modes /\ move.old \in L!Modes
  BY <1>1, TableOfPolicies DEF Moves
<1>3. \A mode \in L!Modes : Held(disk, p, mode) => L!Complete(disk, p, mode)
  BY <1>1, <1>2, HeldIsComplete
<1>4. ASSUME NEW s, ToldAs(move, p, s) PROVE L!Status(p) = {s}
  <2>1. \A x : x \in L!Status(p) <=> \E r \in move.report : r[1] = p /\ r[2] = x
    BY DEF L!Status
  <2>2. <<p, s>> \in move.report /\ \A r \in move.report : r[1] = p => r[2] = s
    BY <1>4 DEF ToldAs
  <2> QED
    BY <2>1, <2>2
<1> QED
  BY <1>1, <1>2, <1>3, <1>4 DEF AtEnd, Told

\* What a move reports is true of the disk, whatever call fails and however often: provided
\* only that where a startup file cannot be decoded it is ~/.myshellrc, which every removal reads
\* before anything is taken out.
THEOREM MoveIsAlwaysTruthful ==
  ASSUME \A bad \in Undecodable : bad = {} \/ "myshellrc" \in bad
  PROVE  PartsSpec => []MoveIsTruthful
<1> DEFINE Moving == life = "policies" => PolicyShape /\ MoveInv
<1>1. PartsInit => Moving
  BY PoliciesStart DEF PartsInit, L!Init, MoveInv, MoveAt
<1>2. Moving /\ [PartsNext]_partsVars => Moving'
  BY OneLife, PoliciesShaped, MoveStep
<1>3. Moving => MoveIsTruthful
  BY MoveIsTold DEF MoveIsTruthful
<1> QED
  BY <1>1, <1>2, <1>3, PTL DEF PartsSpec
=============================================================================
