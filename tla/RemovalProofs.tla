---------------------------- MODULE RemovalProofs ----------------------------
(***************************************************************************)
(* Machine-checked proofs about Removal, for any set of releases and any   *)
(* number of changes by others and of installer runs: what a removal       *)
(* deletes is what was proven and shown, its receipt goes last, and its    *)
(* reports are true.                                                       *)
(***************************************************************************)
EXTENDS Removal, TLAPS

-----------------------------------------------------------------------------
(***************************************************************************)
(* The inductive invariant.                                                *)
(***************************************************************************)
Directories == {"dir", "tree"}
Holding     == {"verify", "delete", "return", "restore"}
Deleting    == {"check", "unlink", "capture"} \cup Holding

\* The artifact at hand, and what is in the quarantine.
HandInv ==
  /\ held # "nothing" <=> pc \in Holding
  /\ pc \in {"unlink", "capture"} \cup Holding => todo # <<>>
  /\ pc \in {"capture"} \cup Holding => Head(todo) \in Directories
  /\ pc = "unlink" => Head(todo) \notin Directories
  /\ pc = "delete" /\ Head(todo) = "dir" => held = proof["dir"]

\* What is deleted was shown, and "removed" means all of it.
ShownInv ==
  /\ todo \in Seq(shown.removable) /\ done \subseteq shown.removable
  /\ pc = "retire" \/ result = "removed" => shown.removable \subseteq done

\* A receipt speaks only for the artifacts of its tool; an adopted one for a release.
ReceiptInv ==
  receipt # None =>
    /\ DOMAIN receipt.what \subseteq Artifacts
    /\ receipt.adopted => DOMAIN receipt.what = {"file"} /\ receipt.what["file"] \in Releases

\* What the user was shown, against the receipt there is while the removal runs.
PlanInv ==
  pc # "idle" =>
    /\ ins.pc = "idle" /\ shown.removable \subseteq Artifacts
    /\ shown.removable = {} => shown.command \/ shown.level = "receipt"
    /\ shown.command => tool.kind = "manager"
    /\ shown.removable # {} /\ receipt # None =>
         DOMAIN receipt.what \cap Authorized \subseteq shown.removable

\* The receipt that is there while paths are deleted proves no more than the proof.
ProofInv ==
  pc \in Deleting /\ receipt # None /\ DOMAIN proof # {} =>
    DOMAIN receipt.what \cap Authorized \subseteq DOMAIN proof

\* The undo comes before the paths.
UndoInv ==
  /\ shown.undo /\ pc \in {"forget", "prove", "retire"} \cup Deleting => ~registered
  /\ shown.undo => pc \notin {"list", "command"}

\* What only a manager's tool or an adopted raw file can have.
KindInv ==
  /\ seen # None => tool.kind = "raw" /\ ~tool.retired
  /\ pc \in Deleting => DOMAIN proof \subseteq Artifacts
  /\ pc \in {"list", "command"} => shown.command

IInv ==
  /\ TypeOK /\ HandInv /\ ShownInv /\ ReceiptInv /\ PlanInv /\ ProofInv /\ UndoInv /\ KindInv

-----------------------------------------------------------------------------
(***************************************************************************)
(* The layout of the kinds, receipts, and the order paths are deleted in.  *)
(***************************************************************************)
LEMMA ArtifactsAreTypes ==
  /\ tool.kind \in DOMAIN ArtifactPaths => Artifacts \subseteq Types
  /\ tool.kind = "raw" => Artifacts = {"file"}
  /\ tool.kind = "archive" => Artifacts = {"dir", "link"}
  /\ tool.kind = "manager" => Artifacts = {}
  BY DEF Artifacts, ArtifactPaths, Types

LEMMA ReceiptMade ==
  ASSUME NEW S \in SUBSET Types, NEW w \in [S -> Content \ {"gone"}],
         NEW h \in BOOLEAN, NEW a \in BOOLEAN
  PROVE  [what |-> w, hooks |-> h, adopted |-> a] \in Receipts
<1>1. w \in UNION {[X -> Content \ {"gone"}] : X \in SUBSET Types}
  OBVIOUS
<1> QED
  BY <1>1 DEF Receipts

LEMMA ReceiptTyped ==
  ASSUME NEW r \in Receipts
  PROVE  /\ r.what \in [DOMAIN r.what -> Content \ {"gone"}] /\ DOMAIN r.what \subseteq Types
         /\ r.hooks \in BOOLEAN /\ r.adopted \in BOOLEAN
<1>1. r.what \in UNION {[X -> Content \ {"gone"}] : X \in SUBSET Types}
  BY DEF Receipts
<1>2. PICK X \in SUBSET Types : r.what \in [X -> Content \ {"gone"}]
  BY <1>1
<1> QED
  BY <1>2 DEF Receipts

LEMMA HooksUpdated ==
  ASSUME NEW r \in Receipts, NEW h \in BOOLEAN
  PROVE  /\ [r EXCEPT !.hooks = h] \in Receipts
         /\ [r EXCEPT !.hooks = h].what = r.what /\ [r EXCEPT !.hooks = h].adopted = r.adopted
         /\ [r EXCEPT !.hooks = h].hooks = h
  BY DEF Receipts

LEMMA OrderOf ==
  ASSUME NEW S \in SUBSET Types
  PROVE  Order(S) \in Seq(S)
<1>1. \A t : One(t, S) \in Seq(S)
  BY DEF One
<1> QED
  BY <1>1 DEF Order

LEMMA ProvenTyped ==
  ASSUME TypeOK, NEW rehash \in BOOLEAN
  PROVE  DOMAIN Proven(rehash) \subseteq Types
<1>1. receipt # None => DOMAIN receipt.what \subseteq Types
  BY ReceiptTyped DEF TypeOK
<1> QED
  BY <1>1 DEF Proven, NoProof, Types

-----------------------------------------------------------------------------
(***************************************************************************)
(* Who changes what: a removal leaves the installer and the passes alone,  *)
(* the others leave the removal alone; nobody changes what the tool is.    *)
(***************************************************************************)
Others ==
  \/ Place \/ Record \/ RegisterHook \/ RecordHook \/ KillInstaller
  \/ CompareFile \/ Adopt \/ PassRetires \/ Swap

LEMMA OthersFrame == Others => UNCHANGED <<tool, run>>
  BY DEF Others, Place, Record, RegisterHook, RecordHook, KillInstaller, CompareFile, Adopt,
         PassRetires, Swap, run

LEMMA RemoverFrame == Remover => UNCHANGED <<tool, others>>
  BY DEF Remover, Preview, Decline, Confirm, Undo, Forget, List, Command, Prove, Check, Unlink,
         Capture, Verify, DeleteTree, PutBack, Settle, Retire, Kill, others

\* What a step does to the receipt, whoever takes it.
ReceiptNext ==
  \/ receipt' \in {receipt, None}
  \/ receipt # None /\ \E h \in BOOLEAN : receipt' = [receipt EXCEPT !.hooks = h]
  \/ Record
  \/ receipt = None /\ Adopt /\ receipt' = [what |-> [t \in {"file"} |-> seen],
                                            hooks |-> FALSE, adopted |-> TRUE]

LEMMA ReceiptSteps == Next => ReceiptNext
<1>1. Remover => ReceiptNext
  BY DEF ReceiptNext, Remover, Preview, Decline, Confirm, Undo, Forget, List, Command, Prove,
         Check, Unlink, Capture, Verify, DeleteTree, PutBack, Settle, Retire, Kill
<1>2. Place \/ RegisterHook \/ KillInstaller \/ CompareFile \/ PassRetires \/ Swap => ReceiptNext
  BY DEF ReceiptNext, Place, RegisterHook, KillInstaller, CompareFile, PassRetires, Swap
<1>3. RecordHook => ReceiptNext
  BY DEF ReceiptNext, RecordHook
<1>4. Adopt => ReceiptNext
  BY DEF ReceiptNext, Adopt
<1> QED
  BY <1>1, <1>2, <1>3, <1>4 DEF Next, ReceiptNext

\* The receipt of an installer run: what its method created, with the hooks kept.
RecordedReceipt ==
  \E S \in SUBSET Artifacts, h \in BOOLEAN :
    /\ \A t \in S : Exists(t)
    /\ receipt' = [what |-> [t \in S |-> disk[t]], hooks |-> h, adopted |-> FALSE]

LEMMA RecordSteps ==
  ASSUME TypeOK, Record
  PROVE  receipt' \in {receipt, None} \/ RecordedReceipt
<1> DEFINE created == {t \in Artifacts : t \notin ins.pre \/ ProvenBefore(t)}
           S == {t \in created : Exists(t) /\ (t = "dir" => StillProven)}
           h == receipt # None /\ receipt.hooks
<1>1. \/ receipt' \in {receipt, None}
      \/ receipt' = [what |-> [t \in S |-> disk[t]], adopted |-> FALSE, hooks |-> h]
  BY DEF Record
<1>2. S \in SUBSET Artifacts /\ \A t \in S : Exists(t)
  OBVIOUS
<1>3. h \in BOOLEAN
  BY ReceiptTyped DEF TypeOK
<1> HIDE DEF S, h
<1>4. [what |-> [t \in S |-> disk[t]], adopted |-> FALSE, hooks |-> h]
        = [what |-> [t \in S |-> disk[t]], hooks |-> h, adopted |-> FALSE]
  OBVIOUS
<1> QED
  BY <1>1, <1>2, <1>3, <1>4 DEF RecordedReceipt

-----------------------------------------------------------------------------
(***************************************************************************)
(* The type invariant.                                                     *)
(***************************************************************************)
LEMMA TypeInit == Init => TypeOK
<1> SUFFICES ASSUME Init PROVE TypeOK
  OBVIOUS
<1>1. tool.kind \in DOMAIN ArtifactPaths /\ Artifacts \subseteq Types
  BY ArtifactsAreTypes DEF Init
<1>2. PICK r \in Releases, placed \in BOOLEAN :
        /\ disk = [t \in Types |-> IF placed /\ t \in Artifacts THEN r ELSE "gone"]
        /\ pkg = (placed /\ tool.kind = "manager")
        /\ receipt \in {None} \cup
             IF placed THEN [what : {[t \in Artifacts |-> r]}, hooks : BOOLEAN, adopted : {FALSE}]
                       ELSE {}
  BY DEF Init
<1>3. r \in Content \ {"gone"}
  BY RemovalAssumption DEF RemovalAssumption, Content
<1>4. receipt \in Receipts \cup {None}
  <2>1. CASE receipt = None
    BY <2>1
  <2>2. CASE receipt # None
    <3>1. PICK h \in BOOLEAN : receipt = [what |-> [t \in Artifacts |-> r], hooks |-> h,
                                          adopted |-> FALSE]
      BY <1>2, <2>2
    <3>2. [t \in Artifacts |-> r] \in [Artifacts -> Content \ {"gone"}]
      BY <1>3
    <3> QED
      BY <1>1, <3>1, <3>2, ReceiptMade
  <2> QED
    BY <2>1, <2>2
<1>5. disk \in [Types -> Content] /\ pkg \in BOOLEAN
  BY <1>2 DEF Content
<1>6. registered \in BOOLEAN
  BY <1>4, ReceiptTyped DEF Init
<1>7. /\ held = "nothing" /\ strays = {} /\ proof = NoProof /\ todo = <<>> /\ done = {}
      /\ result = "none" /\ seen = None /\ tool \in [kind : DOMAIN ArtifactPaths, retired : BOOLEAN]
  BY DEF Init
<1> QED
  BY <1>4, <1>5, <1>6, <1>7 DEF TypeOK, NoProof

LEMMA ReceiptStaysTyped == TypeOK /\ [Next]_vars => receipt' \in Receipts \cup {None}
<1> SUFFICES ASSUME TypeOK, [Next]_vars PROVE receipt' \in Receipts \cup {None}
  OBVIOUS
<1>0. receipt \in Receipts \cup {None} /\ Artifacts \subseteq Types
  BY ArtifactsAreTypes DEF TypeOK
<1>1. CASE receipt' \in {receipt, None}
  BY <1>0, <1>1
<1>2. CASE receipt # None /\ \E h \in BOOLEAN : receipt' = [receipt EXCEPT !.hooks = h]
  BY <1>0, <1>2, HooksUpdated
<1>3. CASE Record /\ RecordedReceipt
  <2>1. PICK S \in SUBSET Artifacts, h \in BOOLEAN :
          /\ \A t \in S : Exists(t)
          /\ receipt' = [what |-> [t \in S |-> disk[t]], hooks |-> h, adopted |-> FALSE]
    BY <1>3 DEF RecordedReceipt
  <2>2. [t \in S |-> disk[t]] \in [S -> Content \ {"gone"}]
    BY <1>0, <2>1 DEF TypeOK, Exists
  <2> QED
    BY <1>0, <2>1, <2>2, ReceiptMade
<1>4. CASE Adopt /\ receipt' = [what |-> [t \in {"file"} |-> seen], hooks |-> FALSE, adopted |-> TRUE]
  <2>1. seen \in Content \ {"gone"}
    BY <1>4, RemovalAssumption DEF RemovalAssumption, TypeOK, Adopt, Content
  <2>2. {"file"} \in SUBSET Types /\ [t \in {"file"} |-> seen] \in [{"file"} -> Content \ {"gone"}]
    BY <2>1 DEF Types
  <2> QED
    BY <1>4, <2>2, ReceiptMade
<1>5. CASE UNCHANGED vars
  BY <1>1, <1>5 DEF vars
<1> QED
  BY <1>1, <1>2, <1>3, <1>4, <1>5, ReceiptSteps, RecordSteps DEF ReceiptNext

LEMMA TypeStep == TypeOK /\ HandInv /\ [Next]_vars => TypeOK'
<1> SUFFICES ASSUME TypeOK, HandInv, [Next]_vars PROVE TypeOK'
  OBVIOUS
<1>0. receipt' \in Receipts \cup {None}
  BY ReceiptStaysTyped
<1>a. todo # <<>> => Head(todo) \in Types /\ Head(todo) \in DOMAIN proof
                       /\ Tail(todo) \in Seq(DOMAIN proof)
  BY DEF TypeOK
<1>b. Artifacts \subseteq Types
  BY ArtifactsAreTypes DEF TypeOK
<1> DEFINE Rest == /\ disk' \in [Types -> Content] /\ pkg' \in BOOLEAN /\ registered' \in BOOLEAN
                   /\ held' \in Content \cup {"nothing"} /\ strays' \subseteq Content
                   /\ DOMAIN proof' \subseteq Types /\ done' \subseteq Types
                   /\ todo' \in Seq(DOMAIN proof')
                   /\ result' \in {"none", "removed", "refused", "failed"}
                   /\ seen' \in Releases \cup {None}
<1>1. ASSUME Preview \/ Decline \/ Confirm \/ List \/ Kill PROVE Rest
  <2>1. CASE Preview
    <3>1. DOMAIN proof' = {} /\ todo' = <<>> /\ done' = {} /\ result' = "none"
      BY <2>1 DEF Preview, NoProof
    <3> QED
      BY <2>1, <3>1 DEF TypeOK, Preview, others
  <2>2. CASE Decline \/ List
    BY <2>2 DEF TypeOK, Decline, List, Ended, others
  <2>3. CASE Confirm
    <3>1. result' \in {result, "refused"}
      BY <2>3 DEF Confirm, Ended
    <3>2. UNCHANGED <<disk, pkg, registered, held, strays, proof, todo, done, seen>>
      BY <2>3 DEF Confirm, others
    <3> QED
      BY <3>1, <3>2 DEF TypeOK
  <2>4. CASE Kill
    BY <2>4 DEF TypeOK, Kill, Ended, others, Content
  <2> QED
    BY <1>1, <2>1, <2>2, <2>3, <2>4
<1>2. ASSUME Undo \/ Forget \/ Command \/ Settle \/ Retire PROVE Rest
  BY <1>2 DEF TypeOK, Undo, Forget, Command, Settle, Retire, Ended, others
<1>3. ASSUME Prove PROVE Rest
  <2>1. proof' = Proven(TRUE) /\ DOMAIN proof' \subseteq Types
    BY <1>3, ProvenTyped DEF Prove
  <2>2. (shown.removable \cap DOMAIN proof') \in SUBSET Types
    BY <2>1
  <2>3. todo' = Order(shown.removable \cap DOMAIN proof')
    BY <1>3 DEF Prove
  <2>4. todo' \in Seq(shown.removable \cap DOMAIN proof')
    BY <2>2, <2>3, OrderOf
  <2>5. todo' \in Seq(DOMAIN proof')
    BY <2>4
  <2> QED
    BY <1>3, <2>1, <2>5 DEF TypeOK, Prove, others
<1>4. ASSUME Check \/ Verify PROVE Rest
  BY <1>4, <1>a DEF TypeOK, Check, Verify, others
<1>5. ASSUME Unlink PROVE Rest
  BY <1>5, <1>a DEF TypeOK, HandInv, Unlink, Ended, others, Content
<1>6. ASSUME Capture PROVE Rest
  BY <1>6, <1>a DEF TypeOK, HandInv, Capture, Ended, others, Content
<1>7. ASSUME DeleteTree PROVE Rest
  BY <1>7, <1>a DEF TypeOK, HandInv, Holding, DeleteTree, others, Content
<1>8. ASSUME PutBack PROVE Rest
  BY <1>8, <1>a DEF TypeOK, HandInv, Holding, PutBack, Ended, others, Content
<1>9. ASSUME Place PROVE Rest
  BY <1>9, <1>b DEF TypeOK, Place, run, Content
<1>10. ASSUME Record \/ RegisterHook \/ RecordHook \/ KillInstaller \/ PassRetires PROVE Rest
  BY <1>10 DEF TypeOK, Record, RegisterHook, RecordHook, KillInstaller, PassRetires, run, others
<1>11. ASSUME CompareFile \/ Adopt PROVE Rest
  BY <1>11 DEF TypeOK, CompareFile, Adopt, run
<1>12. ASSUME Swap PROVE Rest
  <2>1. disk' \in [Types -> Content]
    BY <1>12, <1>b DEF TypeOK, Swap
  <2>2. pkg' \in {pkg, ~pkg}
    BY <1>12 DEF Swap
  <2>3. pkg' \in BOOLEAN
    BY <2>2 DEF TypeOK
  <2>4. UNCHANGED <<registered, held, strays, proof, todo, done, result, seen>>
    BY <1>12 DEF Swap, run
  <2> QED
    BY <2>1, <2>3, <2>4 DEF TypeOK
<1>13. CASE UNCHANGED vars
  BY <1>13 DEF TypeOK, vars, run, others
<1>14. UNCHANGED tool
  BY OthersFrame, RemoverFrame DEF Next, Others, vars
<1>15. Rest \/ UNCHANGED vars
  BY <1>1, <1>2, <1>3, <1>4, <1>5, <1>6, <1>7, <1>8, <1>9, <1>10, <1>11, <1>12 DEF Next, Remover
<1> QED
  BY <1>0, <1>13, <1>14, <1>15 DEF TypeOK

-----------------------------------------------------------------------------
(***************************************************************************)
(* The artifact at hand: the quarantine holds what was captured, and the   *)
(* capture is deleted only when it has the proven content.                 *)
(***************************************************************************)
LEMMA HandStep == TypeOK /\ HandInv /\ [Next]_vars => HandInv'
<1> SUFFICES ASSUME TypeOK, HandInv, [Next]_vars PROVE HandInv'
  OBVIOUS
<1> USE DEF HandInv, Holding, Directories
<1>1. CASE Others \/ UNCHANGED vars
  <2>1. UNCHANGED run
    BY <1>1, OthersFrame DEF vars
  <2> QED
    BY <2>1 DEF run
<1>2. CASE Preview \/ Decline \/ Undo \/ Forget \/ List \/ Command
  BY <1>2 DEF Preview, Decline, Undo, Forget, List, Command, Ended
<1>3. CASE Confirm
  <2>1. pc = "confirm" /\ pc' \in {"retire", "idle", "undo", "list", "prove"}
    BY <1>3 DEF Confirm, Ended
  <2>2. UNCHANGED <<held, proof, todo>>
    BY <1>3 DEF Confirm
  <2> QED
    BY <2>1, <2>2
<1>4. CASE Prove
  BY <1>4 DEF Prove
<1>5. CASE Check
  BY <1>5 DEF Check
<1>6. CASE Unlink
  BY <1>6 DEF Unlink, Ended
<1>7. CASE Capture
  <2>1. disk[Head(todo)] \in Content /\ "nothing" \notin Content
    BY <1>7, RemovalAssumption DEF RemovalAssumption, TypeOK, Capture, Content, Types
  <2> QED
    BY <1>7, <2>1 DEF Capture, Ended
<1>8. CASE Verify
  <2>1. pc' = "delete" /\ Head(todo) = "dir" => held = proof["dir"]
    BY <1>8 DEF Verify, Matches
  <2>2. pc = "verify" /\ pc' \in {"delete", "return", "restore"} /\ UNCHANGED <<held, proof, todo>>
    BY <1>8 DEF Verify
  <2> QED
    BY <2>1, <2>2
<1>9. CASE DeleteTree
  BY <1>9 DEF DeleteTree
<1>10. CASE PutBack
  BY <1>10 DEF PutBack, Ended
<1>11. CASE Settle \/ Retire \/ Kill
  BY <1>11 DEF Settle, Retire, Kill, Ended
<1> QED
  BY <1>1, <1>2, <1>3, <1>4, <1>5, <1>6, <1>7, <1>8, <1>9, <1>10, <1>11 DEF Next, Remover, Others

-----------------------------------------------------------------------------
(***************************************************************************)
(* Only what was shown is deleted, and "removed" is said of all of it.     *)
(***************************************************************************)
LEMMA CommandHasNoPaths ==
  PlanInv /\ KindInv /\ pc \in {"list", "command"} => shown.removable = {}
  BY ArtifactsAreTypes DEF PlanInv, KindInv

LEMMA ShownStep ==
  TypeOK /\ HandInv /\ ShownInv /\ PlanInv /\ KindInv /\ [Next]_vars => ShownInv'
<1> SUFFICES ASSUME TypeOK, HandInv, ShownInv, PlanInv, KindInv, [Next]_vars PROVE ShownInv'
  OBVIOUS
<1> USE DEF ShownInv
<1>0. todo # <<>> => Head(todo) \in shown.removable /\ Tail(todo) \in Seq(shown.removable)
  OBVIOUS
<1>1. CASE Others \/ UNCHANGED vars
  <2>1. UNCHANGED run
    BY <1>1, OthersFrame DEF vars
  <2> QED
    BY <2>1 DEF run
<1>2. CASE Preview
  BY <1>2 DEF Preview
<1>3. CASE Decline \/ Undo \/ Forget \/ Kill
  BY <1>3 DEF Decline, Undo, Forget, Kill, Ended
<1>4. CASE Confirm
  <2>1. pc = "confirm" /\ UNCHANGED <<shown, todo, done>> /\ result' \in {result, "refused"}
    BY <1>4 DEF Confirm, Ended
  <2>2. pc' = "retire" => shown.removable = {}
    BY <1>4 DEF Confirm, Ended
  <2>3. result' = "removed" => shown.removable \subseteq done
    BY <2>1
  <2> QED
    BY <2>1, <2>2, <2>3
<1>5. CASE List \/ Command
  <2>1. shown.removable = {}
    BY <1>5, CommandHasNoPaths DEF List, Command
  <2> QED
    BY <1>5, <2>1 DEF List, Command, Ended
<1>6. CASE Prove
  <2>1. shown.removable \cap DOMAIN proof' \in SUBSET Types
    BY <1>6, ProvenTyped DEF Prove
  <2>2. todo' \in Seq(shown.removable \cap DOMAIN proof')
    BY <1>6, <2>1, OrderOf DEF Prove
  <2>3. todo' \in Seq(shown.removable)
    BY <2>2
  <2> QED
    BY <1>6, <2>3 DEF Prove
<1>7. CASE Check \/ Verify
  <2>1. todo' \in {todo, Tail(todo)} /\ (todo' # todo => todo # <<>>)
    BY <1>7 DEF Check, Verify
  <2>2. todo' \in Seq(shown.removable)
    BY <1>0, <2>1
  <2>3. pc' \notin {"retire"} /\ UNCHANGED <<shown, done, result>>
    BY <1>7 DEF Check, Verify
  <2> QED
    BY <2>2, <2>3
<1>8. CASE Unlink \/ Capture
  BY <1>0, <1>8 DEF HandInv, Unlink, Capture, Ended
<1>9. CASE DeleteTree \/ PutBack
  BY <1>0, <1>9 DEF HandInv, Holding, DeleteTree, PutBack, Ended
<1>10. CASE Settle \/ Retire
  BY <1>10 DEF Settle, Retire, Ended
<1> QED
  BY <1>1, <1>2, <1>3, <1>4, <1>5, <1>6, <1>7, <1>8, <1>9, <1>10 DEF Next, Remover, Others

-----------------------------------------------------------------------------
(***************************************************************************)
(* What a plan shows, against the receipt it was made from.                *)
(***************************************************************************)
LEMMA PlanFacts ==
  ASSUME TypeOK, ReceiptInv, NEW rehash \in BOOLEAN
  PROVE  /\ DOMAIN Proven(rehash) \subseteq Artifacts
         /\ receipt # None /\ DOMAIN Proven(rehash) # {} =>
              DOMAIN receipt.what \cap Authorized \subseteq DOMAIN Proven(rehash)
         /\ Plan(rehash).removable = DOMAIN Proven(rehash)
         /\ Plan(rehash).command => tool.kind = "manager"
         /\ Plan(rehash).level # "none" /\ Plan(rehash).removable = {} =>
              Plan(rehash).command \/ Plan(rehash).level = "receipt"
<1>1. DOMAIN Proven(rehash) \subseteq Artifacts
  BY ArtifactsAreTypes DEF Proven, NoProof, ReceiptInv
<1>2. receipt # None /\ DOMAIN Proven(rehash) # {} =>
        DOMAIN receipt.what \cap Authorized \subseteq DOMAIN Proven(rehash)
  BY DEF Proven, NoProof
<1>3. Plan(rehash).removable = DOMAIN Proven(rehash) /\ (Plan(rehash).command => tool.kind = "manager")
  BY DEF Plan
<1>4. Plan(rehash).level # "none" /\ Plan(rehash).removable = {} =>
        Plan(rehash).command \/ Plan(rehash).level = "receipt"
  BY DEF Plan
<1> QED
  BY <1>1, <1>2, <1>3, <1>4

LEMMA ReceiptStep == TypeOK /\ ReceiptInv /\ KindInv /\ [Next]_vars => ReceiptInv'
<1> SUFFICES ASSUME TypeOK, ReceiptInv, KindInv, [Next]_vars PROVE ReceiptInv'
  OBVIOUS
<1>0. tool' = tool /\ Artifacts' = Artifacts
  BY OthersFrame, RemoverFrame DEF Next, Others, vars, Artifacts
<1>1. CASE receipt' \in {receipt, None}
  BY <1>0, <1>1 DEF ReceiptInv
<1>2. CASE receipt # None /\ \E h \in BOOLEAN : receipt' = [receipt EXCEPT !.hooks = h]
  <2>1. receipt'.what = receipt.what /\ receipt'.adopted = receipt.adopted
    BY <1>2, HooksUpdated DEF TypeOK
  <2> QED
    BY <1>0, <1>2, <2>1 DEF ReceiptInv
<1>3. CASE RecordedReceipt
  BY <1>0, <1>3 DEF RecordedReceipt, ReceiptInv
<1>4. CASE Adopt /\ receipt' = [what |-> [t \in {"file"} |-> seen], hooks |-> FALSE, adopted |-> TRUE]
  <2>1. seen \in Releases /\ Artifacts = {"file"}
    BY <1>4, ArtifactsAreTypes DEF Adopt, TypeOK, KindInv
  <2> QED
    BY <1>0, <1>4, <2>1 DEF ReceiptInv
<1>5. CASE UNCHANGED vars
  BY <1>1, <1>5 DEF vars
<1> QED
  BY <1>1, <1>2, <1>3, <1>4, <1>5, ReceiptSteps, RecordSteps DEF ReceiptNext

LEMMA AuthorizedKept ==
  ASSUME tool' = tool, receipt # None, receipt' # None, receipt'.what = receipt.what
  PROVE  Authorized' = Authorized
  BY DEF Authorized, Artifacts

SameReceipt ==
  receipt' # None => receipt # None /\ receipt'.what = receipt.what

LEMMA PlanKept ==
  PlanInv /\ pc # "idle" /\ tool' = tool /\ ins' = ins /\ shown' = shown /\ SameReceipt
    => PlanInv'
<1> SUFFICES ASSUME PlanInv, pc # "idle", tool' = tool, ins' = ins, shown' = shown, SameReceipt
             PROVE  PlanInv'
  OBVIOUS
<1>1. Artifacts' = Artifacts
  BY DEF Artifacts
<1>2. receipt' # None => receipt # None /\ receipt'.what = receipt.what /\ Authorized' = Authorized
  BY AuthorizedKept DEF SameReceipt
<1> QED
  BY <1>1, <1>2 DEF PlanInv

LEMMA PlanStep == TypeOK /\ ReceiptInv /\ PlanInv /\ KindInv /\ [Next]_vars => PlanInv'
<1> SUFFICES ASSUME TypeOK, ReceiptInv, PlanInv, KindInv, [Next]_vars, pc' # "idle" PROVE PlanInv'
  BY DEF PlanInv
<1>1. CASE Preview
  <2>1. shown' = Plan(FALSE) /\ Plan(FALSE).level # "none" /\ ins.pc = "idle"
    BY <1>1 DEF Preview
  <2>2. UNCHANGED <<tool, receipt, ins>>
    BY <1>1 DEF Preview, others
  <2>3. Artifacts' = Artifacts /\ Authorized' = Authorized
    BY <2>2 DEF Artifacts, Authorized
  <2> QED
    BY <2>1, <2>2, <2>3, PlanFacts DEF PlanInv
<1>2. CASE Remover /\ ~Preview
  <2>1. pc # "idle"
    BY <1>2 DEF Remover, Decline, Confirm, Undo, Forget, List, Command, Prove, Check, Unlink,
           Capture, Verify, DeleteTree, PutBack, Settle, Retire, Kill
  <2>2. UNCHANGED <<tool, ins, shown>>
    BY <1>2 DEF Remover, Decline, Confirm, Undo, Forget, List, Command, Prove, Check, Unlink,
           Capture, Verify, DeleteTree, PutBack, Settle, Retire, Kill, others
  <2>3. receipt' \in {receipt, None} \/ Forget
    BY <1>2 DEF Remover, Decline, Confirm, Undo, List, Command, Prove, Check, Unlink,
           Capture, Verify, DeleteTree, PutBack, Settle, Retire, Kill
  <2>4. CASE receipt' \in {receipt, None}
    BY <2>1, <2>2, <2>4, PlanKept DEF SameReceipt
  <2>5. CASE Forget /\ receipt # None /\ receipt' = [receipt EXCEPT !.hooks = FALSE]
    <3>1. receipt' \in Receipts /\ receipt'.what = receipt.what
      BY <2>5, HooksUpdated DEF TypeOK
    <3>2. receipt' # None
      BY <3>1, RemovalAssumption DEF RemovalAssumption
    <3> QED
      BY <2>1, <2>2, <2>5, <3>1, <3>2, PlanKept DEF SameReceipt
  <2> QED
    BY <2>3, <2>4, <2>5 DEF Forget
<1>3. CASE Others
  <2>1. pc # "idle" /\ UNCHANGED <<tool, shown>>
    BY <1>3, OthersFrame DEF run
  <2>2. ins.pc = "idle"
    BY <2>1 DEF PlanInv
  <2>3. UNCHANGED ins /\ (receipt' \in {receipt, None} \/ Adopt)
    BY <1>3, <2>1, <2>2 DEF Others, Place, Record, RegisterHook, RecordHook, KillInstaller,
           CompareFile, Adopt, PassRetires, Swap, others
  <2>4. CASE receipt' \in {receipt, None}
    BY <2>1, <2>3, <2>4, PlanKept DEF SameReceipt
  <2>5. CASE Adopt /\ receipt' = [what |-> [t \in {"file"} |-> seen], hooks |-> FALSE, adopted |-> TRUE]
    <3>1. tool.kind = "raw" /\ Artifacts = {"file"}
      BY <2>5, ArtifactsAreTypes DEF Adopt, KindInv
    <3>2. Artifacts' = Artifacts /\ DOMAIN receipt'.what = {"file"}
      BY <2>1, <2>5 DEF Artifacts
    <3> QED
      BY <2>1, <2>2, <2>3, <3>1, <3>2 DEF PlanInv
  <2> QED
    BY <2>3, <2>4, <2>5 DEF Adopt
<1>4. CASE UNCHANGED vars
  <2>1. pc' = pc /\ tool' = tool /\ ins' = ins /\ shown' = shown /\ receipt' = receipt
    BY <1>4 DEF vars, others, run
  <2> QED
    BY <2>1, PlanKept DEF SameReceipt
<1> QED
  BY <1>1, <1>2, <1>3, <1>4 DEF Next, Others

-----------------------------------------------------------------------------
(***************************************************************************)
(* The proof the paths are deleted on, the undo, and the kinds of tools.   *)
(***************************************************************************)
LEMMA ProofStep ==
  TypeOK /\ ReceiptInv /\ PlanInv /\ ProofInv /\ KindInv /\ [Next]_vars => ProofInv'
<1> SUFFICES ASSUME TypeOK, ReceiptInv, PlanInv, ProofInv, KindInv, [Next]_vars,
                    pc' \in Deleting, receipt' # None, DOMAIN proof' # {}
             PROVE  (DOMAIN receipt.what \cap Authorized \subseteq DOMAIN proof)'
  BY DEF ProofInv
<1> USE DEF Deleting, Holding
<1>1. CASE Prove
  <2>1. proof' = Proven(TRUE) /\ receipt' = receipt /\ tool' = tool
    BY <1>1 DEF Prove
  <2>2. Authorized' = Authorized
    BY <2>1, AuthorizedKept
  <2>3. DOMAIN receipt.what \cap Authorized \subseteq DOMAIN Proven(TRUE)
    BY <2>1, PlanFacts
  <2> QED
    BY <2>1, <2>2, <2>3
<1>2. CASE Remover /\ ~Prove
  <2>1. pc \in Deleting /\ proof' = proof
    BY <1>2 DEF Remover, Preview, Decline, Confirm, Undo, Forget, List, Command, Check, Unlink,
           Capture, Verify, DeleteTree, PutBack, Settle, Retire, Kill, Ended
  <2>2. receipt' = receipt
    BY <1>2, <2>1 DEF Remover, Preview, Decline, Confirm, Undo, Forget, List, Command, Check, Unlink,
           Capture, Verify, DeleteTree, PutBack, Settle, Retire, Kill
  <2>3. Authorized' = Authorized
    BY <1>2, <2>2, RemoverFrame, AuthorizedKept
  <2> QED
    BY <2>1, <2>2, <2>3 DEF ProofInv
<1>3. CASE Others
  <2>1. pc \in Deleting /\ proof' = proof /\ tool' = tool
    BY <1>3, OthersFrame DEF run
  <2>2. ins.pc = "idle"
    BY <2>1 DEF PlanInv
  <2>3. receipt' = receipt \/ Adopt
    BY <1>3, <2>2 DEF Others, Place, Record, RegisterHook, RecordHook, KillInstaller,
           CompareFile, Adopt, PassRetires, Swap
  <2>4. CASE receipt' = receipt
    BY <2>1, <2>4, AuthorizedKept DEF ProofInv
  <2>5. CASE Adopt /\ receipt' # receipt
    <3>1. DOMAIN receipt'.what = {"file"} /\ Artifacts = {"file"}
      BY <2>5, ArtifactsAreTypes DEF Adopt, KindInv
    <3>2. DOMAIN proof = {"file"}
      BY <2>1, <3>1 DEF KindInv
    <3> QED
      BY <2>1, <3>1, <3>2
  <2> QED
    BY <2>3, <2>4, <2>5
<1>4. CASE UNCHANGED vars
  <2>1. pc' = pc /\ proof' = proof /\ tool' = tool /\ receipt' = receipt
    BY <1>4 DEF vars, run
  <2> QED
    BY <2>1, AuthorizedKept DEF ProofInv
<1> QED
  BY <1>1, <1>2, <1>3, <1>4 DEF Next, Others

LEMMA UndoStep == PlanInv /\ UndoInv /\ [Next]_vars => UndoInv'
<1> SUFFICES ASSUME PlanInv, UndoInv, [Next]_vars PROVE UndoInv'
  OBVIOUS
<1> USE DEF UndoInv, Deleting, Holding
<1>1. CASE Preview \/ Decline \/ Kill
  BY <1>1 DEF Preview, Decline, Kill, Ended
<1>2. CASE Confirm
  <2>1. UNCHANGED <<shown, registered>>
    BY <1>2 DEF Confirm
  <2>2. pc' \in {"idle", "retire", "undo", "list", "prove"}
    BY <1>2 DEF Confirm, Ended
  <2>3. shown.undo => pc' \in {"idle", "undo"}
    BY <1>2 DEF Confirm, Ended, Changed
  <2> QED
    BY <2>1, <2>3
<1>3. CASE Undo
  BY <1>3 DEF Undo, Ended
<1>4. CASE ~Undo /\ (Forget \/ List \/ Command \/ Prove \/ Check \/ Unlink \/ Capture \/ Verify
                    \/ DeleteTree \/ PutBack \/ Settle \/ Retire)
  <2>1. registered' = registered /\ shown' = shown
    BY <1>4 DEF Forget, List, Command, Prove, Check, Unlink, Capture, Verify, DeleteTree, PutBack,
           Settle, Retire
  <2>2. pc \in {"forget", "prove", "retire", "list", "command"} \cup Deleting
    BY <1>4 DEF Forget, List, Command, Prove, Check, Unlink, Capture, Verify, DeleteTree, PutBack,
           Settle, Retire
  <2>3. pc' \in {"idle", "prove", "retire", "command"} \cup Deleting /\ (pc' = "command" => pc = "list")
    BY <1>4 DEF Forget, List, Command, Prove, Check, Unlink, Capture, Verify, DeleteTree, PutBack,
           Settle, Retire, Ended
  <2> QED
    BY <2>1, <2>2, <2>3
<1>5. CASE Others
  <2>1. UNCHANGED <<pc, shown>>
    BY <1>5, OthersFrame DEF run
  <2>2. pc # "idle" => registered' = registered
    BY <1>5 DEF PlanInv, Others, Place, Record, RegisterHook, RecordHook, KillInstaller,
           CompareFile, Adopt, PassRetires, Swap
  <2> QED
    BY <2>1, <2>2
<1>6. CASE UNCHANGED vars
  BY <1>6 DEF vars, run
<1> QED
  BY <1>1, <1>2, <1>3, <1>4, <1>5, <1>6 DEF Next, Remover, Others

LEMMA KindStep == TypeOK /\ ReceiptInv /\ KindInv /\ [Next]_vars => KindInv'
<1> SUFFICES ASSUME TypeOK, ReceiptInv, KindInv, [Next]_vars PROVE KindInv'
  OBVIOUS
<1> USE DEF KindInv, Deleting, Holding
<1>0. tool' = tool /\ Artifacts' = Artifacts
  BY OthersFrame, RemoverFrame DEF Next, Others, vars, Artifacts
<1>1. CASE Confirm
  <2>1. UNCHANGED <<shown, seen, proof>>
    BY <1>1 DEF Confirm, others
  <2>2. pc' \in {"idle", "retire", "undo", "list", "prove"}
    BY <1>1 DEF Confirm, Ended
  <2>3. pc' = "list" => shown.command
    BY <1>1 DEF Confirm, Ended, Changed
  <2> QED
    BY <1>0, <2>1, <2>2, <2>3
<1>2. CASE Prove
  <2>1. DOMAIN proof' \subseteq Artifacts
    BY <1>2, PlanFacts DEF Prove
  <2> QED
    BY <1>0, <1>2, <2>1 DEF Prove, others
<1>3. CASE Preview \/ Decline \/ Undo \/ Forget \/ List \/ Command \/ Kill
  BY <1>0, <1>3 DEF Preview, Decline, Undo, Forget, List, Command, Kill, Ended, others
<1>4. CASE Check \/ Unlink \/ Capture \/ Verify \/ DeleteTree \/ PutBack \/ Settle \/ Retire
  BY <1>0, <1>4 DEF Check, Unlink, Capture, Verify, DeleteTree, PutBack, Settle, Retire, Ended, others
<1>5. CASE Others
  <2>1. UNCHANGED <<pc, shown, proof>>
    BY <1>5, OthersFrame DEF run
  <2>2. seen' # None => tool.kind = "raw" /\ ~tool.retired
    BY <1>5 DEF Others, Place, Record, RegisterHook, RecordHook, KillInstaller, CompareFile, Adopt,
           PassRetires, Swap, others
  <2> QED
    BY <1>0, <2>1, <2>2
<1>6. CASE UNCHANGED vars
  BY <1>0, <1>6 DEF vars, run, others
<1> QED
  BY <1>1, <1>2, <1>3, <1>4, <1>5, <1>6 DEF Next, Remover, Others

-----------------------------------------------------------------------------
(***************************************************************************)
(* The invariant.                                                          *)
(***************************************************************************)
LEMMA InitInv == Init => IInv
<1> SUFFICES ASSUME Init PROVE IInv
  OBVIOUS
<1>1. TypeOK
  BY TypeInit
<1>2. /\ pc = "idle" /\ held = "nothing" /\ shown = NoPlan /\ todo = <<>> /\ done = {}
      /\ result = "none" /\ seen = None
  BY DEF Init
<1>3. HandInv /\ ShownInv /\ PlanInv /\ ProofInv /\ KindInv
  BY <1>2 DEF HandInv, ShownInv, PlanInv, ProofInv, KindInv, Holding, Deleting, NoPlan
<1>4. UndoInv
  BY <1>2 DEF UndoInv, NoPlan
<1>5. ReceiptInv
  <2>1. CASE receipt = None
    BY <2>1 DEF ReceiptInv
  <2>2. CASE receipt # None
    <3>1. PICK r \in Releases, h \in BOOLEAN :
            receipt = [what |-> [t \in Artifacts |-> r], hooks |-> h, adopted |-> FALSE]
      BY <2>2 DEF Init
    <3> QED
      BY <3>1 DEF ReceiptInv
  <2> QED
    BY <2>1, <2>2
<1> QED
  BY <1>1, <1>3, <1>4, <1>5 DEF IInv

LEMMA StepInv == IInv /\ [Next]_vars => IInv'
  BY TypeStep, HandStep, ShownStep, ReceiptStep, PlanStep, ProofStep, UndoStep, KindStep DEF IInv

LEMMA Invariance == Spec => []IInv
  BY InitInv, StepInv, PTL DEF Spec

-----------------------------------------------------------------------------
(***************************************************************************)
(* Neither what a removal reports nor what an adoption records says more   *)
(* than was verified (remove_tool, adopt of the receipts).                 *)
(***************************************************************************)
THEOREM NothingEverOverstated == Spec => []NothingIsOverstated
<1>1. IInv => NothingIsOverstated
  BY DEF IInv, ShownInv, ReceiptInv, NothingIsOverstated, RemovedIsTrue, AdoptedIsRelease
<1> QED
  BY <1>1, Invariance, PTL

(***************************************************************************)
(* No step of a removal makes an opt dir or a bundle disappear but one     *)
(* with the proven bytes that was shown (_remove_directory).               *)
(***************************************************************************)
THEOREM NoTreeEverLost == Spec => NoTreeLost
<1> DEFINE Kept == Remover => \A c \in Trees \ Trees' :
       c \in {"gone", "nothing"} \/
       (pc = "delete" /\ Head(todo) \in shown.removable
          /\ (Head(todo) = "dir" => c = proof["dir"]))
<1>1. IInv /\ [Next]_vars => [Kept]_vars
  <2> SUFFICES ASSUME IInv, Remover, NEW c \in Trees \ Trees', c \notin {"gone", "nothing"}
               PROVE  /\ pc = "delete" /\ Head(todo) \in shown.removable
                      /\ Head(todo) = "dir" => c = proof["dir"]
    OBVIOUS
  <2>0. disk \in [Types -> Content] /\ "dir" \in Types /\ "tree" \in Types
    BY DEF IInv, TypeOK, Types
  <2>1. ASSUME UNCHANGED <<disk, held, strays>> PROVE FALSE
    BY <2>1 DEF Trees
  <2>2. ASSUME Unlink PROVE FALSE
    <3>1. Head(todo) \notin {"dir", "tree"} /\ UNCHANGED <<held, strays>>
      BY <2>2 DEF Unlink, IInv, HandInv, Directories
    <3>2. disk' = disk \/ disk' = [disk EXCEPT ![Head(todo)] = "gone"]
      BY <2>2 DEF Unlink
    <3>3. disk'["dir"] = disk["dir"] /\ disk'["tree"] = disk["tree"]
      BY <2>0, <3>1, <3>2
    <3> QED
      BY <3>1, <3>3 DEF Trees
  <2>3. ASSUME Capture PROVE FALSE
    <3>1. Head(todo) \in {"dir", "tree"} /\ held = "nothing" /\ strays' = strays
      BY <2>3 DEF Capture, IInv, HandInv, Directories, Holding
    <3>2. \/ UNCHANGED <<disk, held>>
          \/ held' = disk[Head(todo)] /\ disk' = [disk EXCEPT ![Head(todo)] = "gone"]
      BY <2>3 DEF Capture
    <3> QED
      BY <2>0, <3>1, <3>2 DEF Trees
  <2>4. CASE DeleteTree
    <3>1. c = held /\ pc = "delete"
      BY <2>4 DEF DeleteTree, Trees
    <3>2. todo # <<>> /\ (Head(todo) = "dir" => held = proof["dir"])
      BY <3>1 DEF IInv, HandInv, Holding
    <3>3. Head(todo) \in shown.removable
      BY <3>2 DEF IInv, ShownInv
    <3> QED
      BY <3>1, <3>2, <3>3
  <2>5. ASSUME PutBack PROVE FALSE
    <3>1. Head(todo) \in {"dir", "tree"}
      BY <2>5 DEF PutBack, IInv, HandInv, Directories, Holding
    <3>2. \/ disk' = disk /\ strays' = strays \cup {held}
          \/ disk[Head(todo)] = "gone" /\ disk' = [disk EXCEPT ![Head(todo)] = held]
             /\ strays' = strays
      BY <2>5 DEF PutBack, Exists
    <3> QED
      BY <2>0, <3>1, <3>2 DEF Trees
  <2>6. ASSUME Kill PROVE FALSE
    BY <2>6 DEF Kill, Trees
  <2>7. Unlink \/ Capture \/ DeleteTree \/ PutBack \/ Kill \/ UNCHANGED <<disk, held, strays>>
    BY DEF Remover, Preview, Decline, Confirm, Undo, Forget, List, Command, Prove, Check,
           Verify, Settle, Retire
  <2> QED
    BY <2>1, <2>2, <2>3, <2>4, <2>5, <2>6, <2>7
<1> QED
  BY <1>1, Invariance, PTL DEF Spec, NoTreeLost

(***************************************************************************)
(* A removal takes the receipt only after all it proves is gone or was     *)
(* deleted, and never while a recorded registration is there               *)
(* (remove_proven and the last line of remove_tool).                       *)
(***************************************************************************)
THEOREM ReceiptAlwaysOutlives == Spec => ReceiptOutlives
<1> DEFINE Last == Remover /\ receipt # None /\ receipt' = None /\ shown.level # "receipt" =>
       \A t \in DOMAIN receipt.what \cap Authorized : t \in done \/ ~Exists(t)
<1> DEFINE Hook == Remover /\ pc # "idle" /\ shown.undo /\ registered /\ receipt # None /\ receipt.hooks
       => (registered' => receipt' # None /\ receipt'.hooks)
<1>1. IInv /\ [Next]_vars => [Last]_vars
  <2> SUFFICES ASSUME IInv, Remover, receipt # None, receipt' = None, shown.level # "receipt",
                      NEW t \in DOMAIN receipt.what \cap Authorized
               PROVE  t \in done
    OBVIOUS
  <2>1. Settle \/ Retire
    <3>1. ~Forget
      BY HooksUpdated, RemovalAssumption DEF RemovalAssumption, IInv, TypeOK, Forget
    <3> QED
      BY <3>1 DEF Remover, Preview, Decline, Confirm, Undo, Forget, List, Command,
             Prove, Check, Unlink, Capture, Verify, DeleteTree, PutBack, Kill
  <2>2. CASE Settle
    <3>1. DOMAIN proof # {} /\ DOMAIN proof \subseteq done /\ pc = "check"
      BY <2>2 DEF Settle
    <3>2. DOMAIN receipt.what \cap Authorized \subseteq DOMAIN proof
      BY <3>1 DEF IInv, ProofInv, Deleting
    <3> QED
      BY <3>1, <3>2
  <2>3. CASE Retire
    <3>1. pc = "retire" /\ shown.removable \subseteq done
      BY <2>3 DEF Retire, IInv, ShownInv
    <3>2. DOMAIN receipt.what \subseteq Artifacts
      BY DEF IInv, ReceiptInv
    <3>3. shown.removable # {}
      BY <3>1, <3>2, ArtifactsAreTypes DEF IInv, PlanInv
    <3> QED
      BY <3>1, <3>3 DEF IInv, PlanInv
  <2> QED
    BY <2>1, <2>2, <2>3
<1>2. IInv /\ [Next]_vars => [Hook]_vars
  <2> SUFFICES ASSUME IInv, Remover, pc # "idle", shown.undo, registered, receipt # None, receipt.hooks,
                      registered'
               PROVE  receipt' = receipt
    OBVIOUS
  <2>1. pc \notin {"forget", "retire", "check"}
    BY DEF IInv, UndoInv, Deleting
  <2> QED
    BY <2>1 DEF Remover, Preview, Decline, Confirm, Undo, Forget, List, Command, Prove, Check,
           Unlink, Capture, Verify, DeleteTree, PutBack, Settle, Retire, Kill
<1> QED
  BY <1>1, <1>2, Invariance, PTL DEF Spec, ReceiptOutlives, ReceiptGoesLast, HookStaysRecorded
=============================================================================
