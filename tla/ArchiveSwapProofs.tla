-------------------------- MODULE ArchiveSwapProofs --------------------------
(***************************************************************************)
(* Machine-checked proofs about ArchiveSwap, for every set of releases and *)
(* every naming of their binaries: the type invariant, the survival of the *)
(* last good tree, the meaning of the two kinds of outcome, and that the   *)
(* whole machine implements AtomicInstall.                                 *)
(***************************************************************************)
EXTENDS ArchiveSwap, TLAPS

-----------------------------------------------------------------------------
(***************************************************************************)
(* The inductive invariant.  What recovery would give (`.old` if there is  *)
(* one, else the live tree) is what the guarantees are really about.       *)
(***************************************************************************)
Effective == IF old # Absent THEN old ELSE live

PreSwap  == {"fetch", "extract", "stage", "stageRaw", "replaceRaw", "aside"}
Swapped  == {"relink", "validate", "undoAside", "cleanup"}
Recovery == {"recoverNew", "recoverLive", "recoverOld"}

\* Which flows use which calls.
KindInv ==
  /\ kind = "raw" => old = Absent /\ ~exposed
  /\ pc \in {"stageRaw", "replaceRaw"} => kind = "raw"
  /\ kind = "raw" => pc \in {"idle", "fetch", "stageRaw", "replaceRaw"}
  /\ kind \in {"app", "bundle"} /\ pc = "fetch" => old = Absent

\* Beside a displaced tree, before any success, lies a release of ours.
ForeignInv ==
  ~settled /\ old # Absent /\ live # Absent => live.ver \in Versions

\* What recovery would give is there, and good, once a run has succeeded.
EffectiveInv ==
  settled => /\ Effective # Absent
             /\ ~exposed => Good(Effective)

\* Where the trees are at each call.
PlaceInv ==
  /\ pc = "recoverLive" => old # Absent /\ live # Absent
  /\ pc = "recoverOld" => old # Absent /\ live = Absent
  /\ pc \in {"recoverLive", "recoverOld", "extract"} => new = Absent
  /\ pc \in PreSwap => live = before.live
  /\ pc \in {"extract", "stage", "aside"} => old = Absent
  /\ pc = "stage" /\ kind = "archive" => new # Absent
  /\ pc \in {"aside", "swap", "rollback"} => new = Whole(target)
  /\ pc \in {"swap", "rollback", "undoRestore"} => live = Absent
  /\ pc \in {"swap", "rollback", "undoRestore"} \cup Swapped => old = before.live
  /\ pc \in Swapped => live = Whole(target)
  /\ pc \in {"relink", "validate", "undoAside"} /\ old = Absent => ~settled
  /\ pc = "undoLink" => live = before.live /\ old = Absent
  /\ pc \in {"undoRestore", "undoLink"} => new # Absent

\* What the link is at each call.
LinkInv ==
  /\ pc # "idle" => captured = IF before.link \in Members THEN before.link ELSE NoLink
  /\ pc \in PreSwap \cup Recovery \cup {"swap", "rollback", "relink"} => link = before.link
  /\ pc # "idle" /\ kind = "bundle" => link = before.link
  /\ pc \in {"validate", "cleanup"} /\ kind \in {"archive", "app"} => link = MemberOf[target]
  /\ pc \in {"undoAside", "undoRestore", "undoLink"} => link \in {before.link, MemberOf[target]}

IInv ==
  /\ TypeOK /\ KindInv /\ ForeignInv /\ EffectiveInv /\ PlaceInv /\ LinkInv
  /\ SuccessIsComplete /\ FailureRestoresPrior

-----------------------------------------------------------------------------
(***************************************************************************)
(* Facts about trees, after which Tree, Whole and Leftover stay folded.    *)
(***************************************************************************)
(*************************************************************************)
(* No tree is taken for the empty path: the code tells them apart with   *)
(* is_dir() and lexists().                                               *)
(*************************************************************************)
LEMMA AbsentIsNoTree == \A t \in Tree : t # Absent
  BY SwapAssumption DEF SwapAssumption

(*************************************************************************)
(* A staged release that passed its checks is a complete tree of that    *)
(* release.                                                              *)
(*************************************************************************)
LEMMA WholeFacts ==
  ASSUME NEW v \in Versions
  PROVE  /\ Whole(v) \in Tree /\ Whole(v) # Absent
         /\ Whole(v).ver = v /\ Whole(v).whole /\ Whole(v).bin
<1>1. Whole(v) \in Tree
  BY DEF Whole, Tree, Abstract!Whole, Abstract!Tree
<1>2. Whole(v).ver = v /\ Whole(v).whole = TRUE /\ Whole(v).bin = TRUE
  BY DEF Whole, Abstract!Whole
<1>3. Whole(v).whole /\ Whole(v).bin
  BY <1>2
<1> QED
  BY <1>1, <1>2, <1>3, AbsentIsNoTree

(*************************************************************************)
(* A tree somebody else installed is a complete tree of no release of    *)
(* ours.                                                                 *)
(*************************************************************************)
LEMMA ForeignFacts ==
  /\ Whole(Foreign) \in Tree /\ Whole(Foreign) # Absent
  /\ Whole(Foreign).ver = Foreign
<1>1. Whole(Foreign) \in Tree
  BY DEF Whole, Tree, Abstract!Whole, Abstract!Tree
<1>2. Whole(Foreign).ver = Foreign
  BY DEF Whole, Abstract!Whole
<1> QED
  BY <1>1, <1>2, AbsentIsNoTree

(*************************************************************************)
(* A half unpacked or half removed tree is a tree still.                 *)
(*************************************************************************)
LEMMA TornFacts ==
  ASSUME NEW v \in Versions \cup {Foreign}, NEW b \in BOOLEAN
  PROVE  /\ [ver |-> v, whole |-> FALSE, bin |-> b] \in Tree
         /\ [ver |-> v, whole |-> FALSE, bin |-> b] # Absent
<1>1. [ver |-> v, whole |-> FALSE, bin |-> b] \in Tree
  BY DEF Tree, Abstract!Tree
<1> QED
  BY <1>1, AbsentIsNoTree

(*************************************************************************)
(* What an interrupted rmtree leaves has the version it had before.      *)
(*************************************************************************)
LEMMA LeftoverFacts ==
  ASSUME NEW t \in Tree, NEW l \in Leftover(t)
  PROVE  l \in Tree /\ l # Absent /\ l.ver = t.ver
<1>1. t.ver \in Versions \cup {Foreign} /\ t.bin \in BOOLEAN
  BY DEF Tree, Abstract!Tree
<1>2. CASE l = t
  BY <1>2, AbsentIsNoTree
<1>3. ASSUME NEW b \in {FALSE, t.bin}, l = [ver |-> t.ver, whole |-> FALSE, bin |-> b]
      PROVE  l \in Tree /\ l # Absent /\ l.ver = t.ver
  BY <1>1, <1>3, TornFacts
<1> QED
  BY <1>2, <1>3 DEF Leftover, Abstract!Leftover

(*************************************************************************)
(* The states a tool's files can be in before this program runs satisfy  *)
(* the inductive invariant.                                              *)
(*************************************************************************)
LEMMA InitInv == Init => IInv
<1> SUFFICES ASSUME Init PROVE IInv
  OBVIOUS
<1>1. live \in Place
  BY WholeFacts, ForeignFacts DEF Init, Place
<1>2. MemberOf \in [Versions \cup {Foreign} -> Members]
  BY SwapAssumption DEF SwapAssumption
<1>3. TypeOK
  BY <1>1, <1>2 DEF Init, TypeOK, Place, Kinds, Links, Steps, Reports
<1>4. EffectiveInv
  BY WholeFacts DEF Init, EffectiveInv, Effective, Good
<1>5. KindInv /\ ForeignInv /\ PlaceInv /\ LinkInv /\ SuccessIsComplete /\ FailureRestoresPrior
  BY DEF Init, KindInv, ForeignInv, PlaceInv, LinkInv, SuccessIsComplete,
         FailureRestoresPrior, PreSwap, Swapped, Recovery
<1> QED
  BY <1>3, <1>4, <1>5 DEF IInv

(*************************************************************************)
(* Every filesystem call, failing call and crash preserves the inductive *)
(* invariant: one step per action.                                       *)
(*************************************************************************)
LEMMA InvStep == IInv /\ [Next]_vars => IInv'
<1> SUFFICES ASSUME IInv, [Next]_vars PROVE IInv'
  OBVIOUS
<1> USE SwapAssumption, WholeFacts, LeftoverFacts, TornFacts
    DEF SwapAssumption, IInv, TypeOK, KindInv, ForeignInv, EffectiveInv, PlaceInv, LinkInv,
        SuccessIsComplete, FailureRestoresPrior, Place, Kinds, Links, Steps, Reports,
        Effective, Good, PreSwap, Swapped, Recovery, Done, IsStillProven
<1>1. ASSUME NEW o \in {"install", "update"}, NEW v \in Versions, Begin(o, v) PROVE IInv'
  BY <1>1 DEF Begin, MayBegin, CaptureSymlinkTarget
<1>2. ASSUME NEW v \in Versions, Refuse(v) PROVE IInv'
  BY <1>2 DEF Refuse
<1>3. CASE Fetch
  BY <1>3 DEF Fetch
<1>4. CASE FetchFails
  BY <1>4 DEF FetchFails
<1>5. CASE RecoverNew
  BY <1>5 DEF RecoverNew, Recovered
<1>6. CASE RecoverNewFails
  BY <1>6 DEF RecoverNewFails
<1>7. CASE RecoverLive
  BY <1>7 DEF RecoverLive
<1>8. CASE RecoverLiveFails
  BY <1>8 DEF RecoverLiveFails
<1>9. CASE RecoverOld
  <2>1. TypeOK'
    BY <1>9 DEF RecoverOld, Recovered
  <2>2. KindInv' /\ ForeignInv'
    BY <1>9 DEF RecoverOld, Recovered
  <2>3. EffectiveInv'
    <3>1. live' = Effective /\ old' = Absent /\ UNCHANGED <<settled, exposed>>
      BY <1>9 DEF RecoverOld
    <3> QED
      BY <3>1
  <2>4. PlaceInv'
    BY <1>9 DEF RecoverOld, Recovered
  <2>5. LinkInv'
    BY <1>9 DEF RecoverOld, Recovered
  <2>6. SuccessIsComplete' /\ FailureRestoresPrior'
    BY <1>9 DEF RecoverOld, Recovered
  <2> QED
    BY <2>1, <2>2, <2>3, <2>4, <2>5, <2>6
<1>10. CASE RecoverOldFails
  BY <1>10 DEF RecoverOldFails
<1>11. CASE Extract
  BY <1>11 DEF Extract
<1>12. CASE Stage
  BY <1>12 DEF Stage
<1>13. CASE StageFails
  BY <1>13 DEF StageFails
<1>14. CASE StageRaw
  BY <1>14 DEF StageRaw
<1>15. CASE ReplaceRaw
  BY <1>15 DEF ReplaceRaw
<1>16. CASE ReplaceRawFails
  BY <1>16 DEF ReplaceRawFails
<1>17. CASE Aside
  BY <1>17 DEF Aside
<1>18. CASE AsideFails
  BY <1>18 DEF AsideFails
<1>19. CASE Swap
  BY <1>19 DEF Swap
<1>20. CASE SwapFails
  BY <1>20 DEF SwapFails
<1>21. CASE Rollback
  BY <1>21 DEF Rollback
<1>22. CASE RollbackFails
  BY <1>22 DEF RollbackFails
<1>23. CASE Relink
  BY <1>23 DEF Relink
<1>24. CASE RelinkFails
  BY <1>24 DEF RelinkFails
<1>25. CASE Validate
  BY <1>25 DEF Validate
<1>26. CASE ValidateFails
  BY <1>26 DEF ValidateFails
<1>27. CASE UndoAside
  BY <1>27 DEF UndoAside
<1>28. CASE UndoRestore
  BY <1>28 DEF UndoRestore
<1>29. CASE UndoLink
  BY <1>29 DEF UndoLink, RestoredLink
<1>30. CASE UndoFails
  BY <1>30 DEF UndoFails, RestoredLink
<1>31. CASE Cleanup
  <2>1. TypeOK' /\ KindInv' /\ ForeignInv'
    BY <1>31 DEF Cleanup
  <2>2. EffectiveInv'
    BY <1>31 DEF Cleanup
  <2>3. PlaceInv' /\ LinkInv' /\ FailureRestoresPrior'
    BY <1>31 DEF Cleanup
  <2>4. SuccessIsComplete'
    BY <1>31 DEF Cleanup
  <2> QED
    BY <2>1, <2>2, <2>3, <2>4
<1>32. CASE CleanupFails
  BY <1>32 DEF CleanupFails
<1>33. CASE Crash
  BY <1>33 DEF Crash
<1>34. CASE UNCHANGED vars
  BY <1>34 DEF vars
<1> HIDE DEF IInv
<1> QED
  BY <1>1, <1>2, <1>3, <1>4, <1>5, <1>6, <1>7, <1>8, <1>9, <1>10, <1>11, <1>12, <1>13, <1>14, <1>15, <1>16, <1>17, <1>18, <1>19, <1>20, <1>21, <1>22, <1>23, <1>24, <1>25, <1>26, <1>27, <1>28, <1>29, <1>30, <1>31, <1>32, <1>33, <1>34 DEF Next

(*************************************************************************)
(* The inductive invariant holds in every state of every life of a tool's *)
(* files; the safety theorems below read their claims off it.            *)
(*************************************************************************)
THEOREM Inductive == Spec => []IInv
  BY InitInv, InvStep, PTL DEF Spec

-----------------------------------------------------------------------------
(***************************************************************************)
(* Every variable keeps its type.                                          *)
(***************************************************************************)
THEOREM TypeCorrect == Spec => []TypeOK
<1>1. IInv => TypeOK
  BY DEF IInv
<1> QED
  BY <1>1, Inductive, PTL

(***************************************************************************)
(* Whatever call fails and wherever the process dies, a completed          *)
(* installation leaves a complete tree at `live` or at `.old`, unless a    *)
(* `.old` outlived the successful run that made it.                        *)
(***************************************************************************)
THEOREM LastGoodSurvivesAlways == Spec => []LastGoodSurvives
<1>1. IInv => LastGoodSurvives
  BY DEF IInv, EffectiveInv, Effective, LastGoodSurvives, Good
<1> QED
  BY <1>1, Inductive, PTL

(***************************************************************************)
(* The outcome a run reports is true of the disk: success means the asked  *)
(* release, whole and linked; failure means the prior tree and link.       *)
(***************************************************************************)
THEOREM OutcomesAreTrue == Spec => []ReportsAreTrue
<1>1. IInv => ReportsAreTrue
  BY DEF IInv, ReportsAreTrue
<1> QED
  BY <1>1, Inductive, PTL

(*************************************************************************)
(* Every call is a step of AtomicInstall, or none that it can see.       *)
(*************************************************************************)
LEMMA AbstractStep == IInv /\ [Next]_vars => [Abstract!AbsNext]_(Abstract!absVars)
<1> SUFFICES ASSUME IInv, [Next]_vars
             PROVE  Abstract!AbsNext \/ UNCHANGED Abstract!absVars
  BY DEF Abstract!absVars
<1> DEFINE cur == IF old # Absent THEN old ELSE live
<1> USE DEF Abstract!absVars, Done, Place
<1>1. SUFFICES ASSUME Next
               PROVE  Abstract!AbsNext \/ UNCHANGED Abstract!absVars
  BY DEF vars
\* Most calls move trees around without changing what recovery would give.
<1>2. ASSUME NEW o \in {"install", "update"}, NEW v \in Versions, Begin(o, v)
      PROVE  UNCHANGED Abstract!absVars
  BY <1>2 DEF Begin
<1>3. ASSUME NEW v \in Versions, Refuse(v)
      PROVE  UNCHANGED Abstract!absVars
  BY <1>3 DEF Refuse
<1>4. CASE Fetch
  BY <1>4 DEF Fetch, IInv, KindInv, PlaceInv, PreSwap, Swapped
<1>5. CASE FetchFails
  BY <1>5 DEF FetchFails, IInv, KindInv, PlaceInv, PreSwap, Swapped
<1>6. CASE RecoverNewFails
  BY <1>6 DEF RecoverNewFails, IInv, KindInv, PlaceInv, PreSwap, Swapped
<1>7. CASE RecoverNew
  BY <1>7 DEF RecoverNew, IInv, KindInv, PlaceInv, PreSwap, Swapped
<1>8. CASE RecoverLive
  BY <1>8 DEF RecoverLive, IInv, KindInv, PlaceInv, PreSwap, Swapped
<1>9. CASE RecoverLiveFails
  BY <1>9 DEF RecoverLiveFails, IInv, KindInv, PlaceInv, PreSwap, Swapped
<1>10. CASE RecoverOld
  BY <1>10 DEF RecoverOld, IInv, KindInv, PlaceInv, PreSwap, Swapped
<1>11. CASE RecoverOldFails
  BY <1>11 DEF RecoverOldFails, IInv, KindInv, PlaceInv, PreSwap, Swapped
<1>12. CASE Extract
  BY <1>12 DEF Extract, IInv, KindInv, PlaceInv, PreSwap, Swapped
<1>13. CASE Stage
  BY <1>13 DEF Stage, IInv, KindInv, PlaceInv, PreSwap, Swapped
<1>14. CASE StageFails
  BY <1>14 DEF StageFails, IInv, KindInv, PlaceInv, PreSwap, Swapped
<1>15. CASE StageRaw
  BY <1>15 DEF StageRaw, IInv, KindInv, PlaceInv, PreSwap, Swapped
<1>16. CASE ReplaceRawFails
  BY <1>16 DEF ReplaceRawFails, IInv, KindInv, PlaceInv, PreSwap, Swapped
<1>17. CASE Aside
  BY <1>17 DEF Aside, IInv, KindInv, PlaceInv, PreSwap, Swapped
<1>18. CASE AsideFails
  BY <1>18 DEF AsideFails, IInv, KindInv, PlaceInv, PreSwap, Swapped
<1>19. CASE SwapFails
  BY <1>19 DEF SwapFails, IInv, KindInv, PlaceInv, PreSwap, Swapped
<1>20. CASE Rollback
  BY <1>20 DEF Rollback, IInv, KindInv, PlaceInv, PreSwap, Swapped
<1>21. CASE RollbackFails
  BY <1>21 DEF RollbackFails, IInv, KindInv, PlaceInv, PreSwap, Swapped
<1>22. CASE Relink
  BY <1>22 DEF Relink, IInv, KindInv, PlaceInv, PreSwap, Swapped
<1>23. CASE RelinkFails
  BY <1>23 DEF RelinkFails, IInv, KindInv, PlaceInv, PreSwap, Swapped
<1>24. CASE Validate
  BY <1>24 DEF Validate, IInv, KindInv, PlaceInv, PreSwap, Swapped
<1>25. CASE ValidateFails
  BY <1>25 DEF ValidateFails, IInv, KindInv, PlaceInv, PreSwap, Swapped
<1>26. CASE UndoRestore
  BY <1>26 DEF UndoRestore, IInv, KindInv, PlaceInv, PreSwap, Swapped
<1>27. CASE UndoLink
  BY <1>27 DEF UndoLink, IInv, KindInv, PlaceInv, PreSwap, Swapped
<1>28. CASE UndoFails
  BY <1>28 DEF UndoFails, IInv, KindInv, PlaceInv, PreSwap, Swapped
<1>29. CASE Swap
  <2>1. CASE old # Absent
    BY <1>29, <2>1 DEF Swap
  <2>2. CASE old = Absent
    <3>1. Abstract!Appear(target)
      BY <1>29, <2>2 DEF Swap, IInv, TypeOK, PlaceInv, EffectiveInv, Effective, Whole, Abstract!Appear
    <3> QED
      BY <3>1 DEF Abstract!AbsNext, IInv, TypeOK
  <2> QED
    BY <2>1, <2>2
<1>30. CASE ReplaceRaw
  <2>1. Abstract!Commit(target)
    BY <1>30 DEF ReplaceRaw, IInv, KindInv, Whole, Abstract!Commit
  <2> QED
    BY <2>1 DEF Abstract!AbsNext, IInv, TypeOK
<1>31. CASE UndoAside
  <2>1. CASE old # Absent
    BY <1>31, <2>1 DEF UndoAside
  <2>2. CASE old = Absent
    <3>1. live.ver \in Versions
      BY <1>31, WholeFacts DEF UndoAside, IInv, TypeOK, PlaceInv, Swapped
    <3>2. live # Abstract!Whole(Foreign)
      BY <3>1, ForeignFacts, SwapAssumption DEF SwapAssumption, Whole
    <3>3. Abstract!Withdraw
      BY <1>31, <2>2, <3>2 DEF UndoAside, IInv, PlaceInv, Abstract!Withdraw
    <3> QED
      BY <3>3 DEF Abstract!AbsNext
  <2> QED
    BY <2>1, <2>2
<1>32. CASE Cleanup
  <2>1. Abstract!Commit(target)
    BY <1>32 DEF Cleanup, IInv, PlaceInv, Swapped, Whole, Abstract!Commit
  <2> QED
    BY <2>1 DEF Abstract!AbsNext, IInv, TypeOK
<1>33. CASE CleanupFails
  <2>1. old' # Absent
    BY <1>33, LeftoverFacts DEF CleanupFails, IInv, TypeOK
  <2>2. Abstract!Expose
    BY <1>33, <2>1 DEF CleanupFails, Leftover, Abstract!Expose
  <2> QED
    BY <2>2 DEF Abstract!AbsNext
<1>34. CASE Crash
  <2>1. CASE pc = "cleanup" /\ old # Absent
    <3>1. old' # Absent
      BY <1>34, <2>1, LeftoverFacts DEF Crash, IInv, TypeOK
    <3>2. Abstract!Expose
      BY <1>34, <2>1, <3>1 DEF Crash, Leftover, Abstract!Expose
    <3> QED
      BY <3>2 DEF Abstract!AbsNext
  <2>2. CASE ~(pc = "cleanup" /\ old # Absent)
    <3>1. UNCHANGED <<old, settled, exposed>> /\ (pc # "recoverLive" => live' = live)
      BY <1>34, <2>2 DEF Crash, IInv, TypeOK
    <3> QED
      BY <3>1 DEF IInv, PlaceInv
  <2> QED
    BY <2>1, <2>2
<1> QED
  BY <1>1, <1>2, <1>3, <1>4, <1>5, <1>6, <1>7, <1>8, <1>9, <1>10, <1>11, <1>12, <1>13, <1>14, <1>15, <1>16, <1>17, <1>18, <1>19, <1>20, <1>21, <1>22, <1>23, <1>24, <1>25, <1>26, <1>27, <1>28, <1>29, <1>30, <1>31, <1>32, <1>33, <1>34 DEF Next

(***************************************************************************)
(* The staged swap implements AtomicInstall: seen through recovery, the    *)
(* installation changes in one step, from one complete tree to another.    *)
(***************************************************************************)
THEOREM ImplementsAtomicInstall == Spec => Refines
<1>1. Init => Abstract!AbsInit
  BY DEF Init, Abstract!AbsInit, Whole
<1> QED
  BY <1>1, AbstractStep, Inductive, PTL DEF Spec, Refines, Abstract!AbsSpec

(***************************************************************************)
(* A tree the installer did not create: while it does not count as         *)
(* installed no step of any run moves it; and if it does, only a run that  *)
(* succeeds takes it away.  The second half is read off the refinement:    *)
(* before the first success AtomicInstall has no step that leaves a        *)
(* foreign tree.                                                           *)
(***************************************************************************)
THEOREM ForeignTreeSafe == Spec => ForeignTreeKept
<1>1. IInv /\ [Next]_vars => (NotInstalled => NotInstalled' /\ live' = live)
  <2> SUFFICES ASSUME IInv, [Next]_vars, NotInstalled
               PROVE  NotInstalled' /\ live' = live
    OBVIOUS
  <2>1. pc = "idle" /\ kind = "archive" /\ live # Absent /\ ~IsStillProven
    BY ForeignFacts DEF NotInstalled, IsInstalled
  <2>2. CASE UNCHANGED vars
    BY <2>2 DEF vars, NotInstalled, IsInstalled, IsStillProven
  <2>3. ASSUME NEW o \in {"install", "update"} PROVE ~MayBegin(o)
    BY <2>1 DEF NotInstalled, MayBegin
  <2>4. ASSUME NEW v \in Versions, Refuse(v)
        PROVE  NotInstalled' /\ live' = live
    BY <2>4 DEF Refuse, NotInstalled, IsInstalled, IsStillProven
  <2> QED
    BY <2>1, <2>2, <2>3, <2>4
       DEF Next, Begin, Fetch, FetchFails, RecoverNew, RecoverNewFails, RecoverLive,
           RecoverLiveFails, RecoverOld, RecoverOldFails, Extract, Stage, StageFails,
           StageRaw, ReplaceRaw, ReplaceRawFails, Aside, AsideFails, Swap, SwapFails,
           Rollback, RollbackFails, Relink, RelinkFails, Validate, ValidateFails,
           UndoAside, UndoRestore, UndoLink, UndoFails, Cleanup, CleanupFails, Crash
<1>2. IInv /\ [Next]_vars =>
        (Whole(Foreign) \in {live, old} /\ ~settled =>
            Whole(Foreign) \in {live', old'} \/ settled')
  <2> SUFFICES ASSUME IInv, [Next]_vars, Whole(Foreign) \in {live, old}, ~settled, ~settled'
               PROVE  Whole(Foreign) \in {live', old'}
    OBVIOUS
  <2>1. Effective = Whole(Foreign)
    BY ForeignFacts, SwapAssumption DEF SwapAssumption, Effective, IInv, ForeignInv
  <2>2. [Abstract!AbsNext]_(Abstract!absVars)
    BY AbstractStep
  <2>3. Effective' = Whole(Foreign)
    BY <2>1, <2>2, ForeignFacts
       DEF Effective, Whole, Abstract!AbsNext, Abstract!absVars, Abstract!Appear,
           Abstract!Withdraw, Abstract!Commit, Abstract!Expose
  <2> QED
    BY <2>3 DEF Effective
<1>3. IInv /\ [Next]_vars =>
        [/\ NotInstalled => NotInstalled' /\ live' = live
         /\ Whole(Foreign) \in {live, old} /\ ~settled =>
              Whole(Foreign) \in {live', old'} \/ settled']_vars
  BY <1>1, <1>2
<1> QED
  BY <1>3, Inductive, PTL DEF Spec, ForeignTreeKept
=============================================================================
