--------------------------- MODULE DeliveryProofs ---------------------------
(***************************************************************************)
(* Proofs about DeliveryProof, for any number of proofs, workers, probers, *)
(* receipts and faults and any deadline. That an admitted receipt is never *)
(* rejected is not inductive by itself: a worker that has read the receipt *)
(* is refused when a row was retired, verified again or lost its bytes     *)
(* meanwhile. DeliveryHold says that none of this happens to what a        *)
(* pending receipt names, and that a worker which gives a receipt up does  *)
(* so only for an order that is closed.                                    *)
(***************************************************************************)
EXTENDS DeliveryProof, TLAPS

-----------------------------------------------------------------------------
(* The inductive invariant *)

\* What a pending receipt names is staged, verified before the receipt came,
\* and therefore enough for it to be accepted.
Ready(r) ==
  /\ receipts[r].receivedAt \in 0..(Deadline - 1)
  /\ receipts[r].proofs = {} => receipts[r].outage # 0
  /\ \A p \in receipts[r].proofs :
       uploads[p].state = "uploading" /\ uploads[p].verifiedAt \in 0..receipts[r].receivedAt

PendingIsReady == \A r \in Receipts : Pending(r) => Ready(r)

\* A receipt is decided only with the order.
DecidedWithOrder ==
  /\ \A r \in Receipts : receipts[r].state # "rejected"
  /\ order.status = "delivering" =>
       ~order.timedOut /\ \A r \in Receipts : receipts[r].state \in {"none", "pending"}
  /\ order.timedOut => \A r \in Receipts : receipts[r].state = "none"

\* The confirmation belongs to the delivered order and names its evidence.
ConfirmedAsAccepted ==
  /\ confirmation.saved <=> order.status \in {"delivered", "completed"}
  /\ confirmation.saved => \A p \in confirmation.proofs : uploads[p].state = "accepted"
  /\ \A p \in Proofs :
       uploads[p].state = "accepted" =>
         uploads[p].verifiedAt # NoTime /\ uploads[p].verifiedAt \in 0..order.deliveredAt

\* Bytes that were verified stay until the identity is fenced.
BytesStay ==
  /\ retiring \subseteq fenced
  /\ \A p \in Proofs \ fenced : p \in verified \/ uploads[p].verifiedAt # NoTime => Decodes(p)

\* A worker has an admitted receipt, compares it with what it has read, and
\* gives it up only when the order does not wait for it any more.
WorkerSound(k) ==
  k.pc # "idle" =>
    /\ k.receipt \in Receipts /\ receipts[k.receipt].state # "none"
    /\ k.pc = "refused" /\ Pending(k.receipt) => order.status # "delivering"
    /\ k.pc \in {"validating", "attaching"} /\ Pending(k.receipt) =>
         k.evidence = Evidence(k.receipt)

WorkIsSound == \A w \in Workers : WorkerSound(work[w])

\* An outage in force is dated at most ProbeTimeout after an explicit failure,
\* and so is what a prober is about to publish, however long that takes and
\* whatever the other probers publish meanwhile.
OutageWasSeen ==
  /\ outage.active =>
       /\ outage.generation # 0
       /\ \E t \in down : t <= outage.observedAt /\ outage.observedAt <= t + ProbeTimeout
  /\ \A q \in Probers : prober[q].failures >= 2 =>
       /\ prober[q].pc = "probed" => prober[q].time \in down /\ prober[q].time <= clock
       /\ prober[q].pc = "stamped" =>
            \E t \in down : t <= prober[q].time /\ prober[q].time <= t + ProbeTimeout

DeliveryHold ==
  /\ ProofTypeOK /\ FencesHold /\ AcceptedOnce
  /\ PendingIsReady /\ DecidedWithOrder /\ ConfirmedAsAccepted /\ BytesStay
  /\ WorkIsSound /\ OutageWasSeen

\* The invariant contains what the runs check.
LEMMA HoldImplies ==
  ASSUME DeliveryHold
  PROVE  AdmittedIsKept /\ DeliveredOnce
<1>1. ReceiptsKept
  BY DEF DeliveryHold, DecidedWithOrder, ReceiptsKept
<1>2. ASSUME NEW p \in Shown
      PROVE /\ uploads[p].state = "accepted" /\ Decodes(p) /\ ~Fenced(p)
            /\ uploads[p].verifiedAt \in 0..order.deliveredAt
  <2>1. confirmation.saved /\ p \in confirmation.proofs
    BY <1>2 DEF Shown
  <2>2. p \in Proofs
    BY <2>1 DEF DeliveryHold, ProofTypeOK, ConfirmationRow
  <2>3. uploads[p].state = "accepted"
    BY <2>1 DEF DeliveryHold, ConfirmedAsAccepted
  <2>4. p \notin fenced
    BY <2>3 DEF DeliveryHold, FencesHold
  <2>5. uploads[p].verifiedAt # NoTime /\ uploads[p].verifiedAt \in 0..order.deliveredAt
    BY <2>2, <2>3 DEF DeliveryHold, ConfirmedAsAccepted
  <2>6. Decodes(p)
    BY <2>2, <2>4, <2>5 DEF DeliveryHold, BytesStay
  <2> QED
    BY <2>3, <2>4, <2>5, <2>6 DEF Fenced
<1>3. EvidenceKept
  BY <1>2 DEF EvidenceKept
<1> QED
  BY <1>1, <1>3 DEF DeliveryHold, AdmittedIsKept, DeliveredOnce

\* The order begins without receipts, uploads and outages.
LEMMA InitHolds ==
  ASSUME ProofInit
  PROVE  DeliveryHold
<1>1. NoUpload \in UploadRow /\ NoReceipt \in ReceiptRow /\ NoConfirmation \in ConfirmationRow
  BY DurationsAssumption, BoundsAssumption
  DEF NoUpload, UploadRow, NoReceipt, ReceiptRow, NoConfirmation, ConfirmationRow, InTime
<1>2. NewProber \in ProberType
  BY BoundsAssumption DEF NewProber, Resting, ProberType
<1>3. NoEvidence \in [{} -> InTime]
  BY DEF NoEvidence
<1>4. NoEvidence \in UNION {[proofs -> InTime] : proofs \in SUBSET Proofs}
  BY <1>3
<1>5. Idle \in WorkType
  BY <1>4, BoundsAssumption DEF Idle, WorkType
<1>6. order \in OrderRow /\ outage \in OutageRow
  BY DurationsAssumption, BoundsAssumption DEF ProofInit, OrderRow, OutageRow, InTime
<1>7. \A r \in Receipts : receipts[r] = NoReceipt
  BY DEF ProofInit
<1>8. \A r \in Receipts : ~Pending(r) /\ receipts[r].state = "none"
  BY <1>7 DEF Pending, NoReceipt
<1>9. \A p \in Proofs : uploads[p].state = "none" /\ uploads[p].verifiedAt = NoTime
  BY DEF ProofInit, NoUpload
<1>10. ProofTypeOK
  BY <1>1, <1>2, <1>5, <1>6, <1>8, BoundsAssumption DEF ProofInit, ProofTypeOK
<1>11. FencesHold /\ PendingIsReady /\ DecidedWithOrder /\ OutageWasSeen
  BY <1>8 DEF ProofInit, FencesHold, PendingIsReady, DecidedWithOrder, OutageWasSeen, NewProber, Resting
<1>12. AcceptedOnce
  BY <1>8, <1>9 DEF ProofInit, AcceptedOnce
<1>13. ConfirmedAsAccepted /\ BytesStay
  BY <1>9 DEF ProofInit, ConfirmedAsAccepted, BytesStay, NoConfirmation
<1>14. WorkIsSound
  BY DEF ProofInit, WorkIsSound, WorkerSound, Idle
<1> QED
  BY <1>10, <1>11, <1>12, <1>13, <1>14 DEF DeliveryHold

-----------------------------------------------------------------------------
(* Steps that change one row of the uploads *)

\* What is common to them: accepted rows stay, what a pending receipt names
\* keeps its verification, and only a fenced identity may lose its bytes.
ChangesUpload(p, u) ==
  /\ uploads' = [uploads EXCEPT ![p] = u]
  /\ uploads[p].state # "accepted" /\ u.state # "accepted"
  /\ Reserved(p) => u.state = "uploading" /\ u.verifiedAt = uploads[p].verifiedAt
  /\ fenced' \subseteq fenced \cup {p} /\ fenced \subseteq fenced'
  /\ p \in fenced' => u.state \in {"none", "deleting"} /\ ~Reserved(p)
  /\ p \notin fenced' /\ (p \in verified' \/ u.verifiedAt # NoTime) => Decodes(p)
  /\ verified' \subseteq verified /\ retiring' \subseteq fenced'
  /\ UNCHANGED <<order, receipts, confirmation, outage, clock, objects, work, prober, down>>

\* Such a step keeps the invariant.
LEMMA UploadStep ==
  ASSUME DeliveryHold, NEW p \in Proofs, NEW u \in UploadRow, ChangesUpload(p, u), ProofTypeOK'
  PROVE  DeliveryHold'
<1>1. /\ uploads'[p] = u /\ \A x \in Proofs \ {p} : uploads'[x] = uploads[x]
      /\ uploads \in [Proofs -> UploadRow]
  BY DEF DeliveryHold, ProofTypeOK, ChangesUpload
<1>2. /\ UNCHANGED <<order, receipts, confirmation, outage, clock, objects, work, prober, down>>
      /\ \A r \in Receipts : Pending(r)' <=> Pending(r)
      /\ \A x \in Proofs : (Reserved(x)' <=> Reserved(x)) /\ (Decodes(x)' <=> Decodes(x))
  BY DEF ChangesUpload, Pending, Reserved, Decodes
<1>3. \A r \in Receipts : receipts[r].proofs \subseteq Proofs
  BY DEF DeliveryHold, ProofTypeOK, ReceiptRow
<1>4. ASSUME NEW x \in Proofs, Reserved(x)
      PROVE /\ uploads[x].state = "uploading" => uploads'[x].state = "uploading"
            /\ uploads'[x].verifiedAt = uploads[x].verifiedAt
  BY <1>1, <1>4 DEF ChangesUpload
<1>5. \A r \in Receipts : Pending(r) => \A x \in receipts[r].proofs : x \in Proofs /\ Reserved(x)
  BY <1>3 DEF Reserved
<1>6. FencesHold'
  <2>1. ASSUME NEW x \in fenced' PROVE uploads'[x].state \in {"none", "deleting"} /\ ~Reserved(x)'
    <3>1. x \in Proofs
      BY DEF ProofTypeOK
    <3>2. CASE x = p
      BY <1>1, <1>2, <3>2 DEF ChangesUpload
    <3>3. CASE x # p
      <4>1. x \in fenced
        BY <3>3 DEF ChangesUpload
      <4> QED
        BY <1>1, <1>2, <3>1, <3>3, <4>1 DEF DeliveryHold, FencesHold
    <3> QED
      BY <3>2, <3>3
  <2> QED
    BY <2>1 DEF FencesHold
<1>7. {x \in Proofs : uploads[x].state = "accepted"}' = {x \in Proofs : uploads[x].state = "accepted"}
  BY <1>1 DEF ChangesUpload
<1>8. AcceptedOnce'
  <2>1. \A x \in Proofs : uploads'[x].state = "accepted" <=> uploads[x].state = "accepted"
    BY <1>7
  <2> QED
    BY <1>2, <1>7, <2>1 DEF DeliveryHold, AcceptedOnce
<1>9. PendingIsReady'
  <2>1. ASSUME NEW r \in Receipts, Pending(r) PROVE Ready(r)'
    <3>1. Ready(r)
      BY <2>1 DEF DeliveryHold, PendingIsReady
    <3>2. ASSUME NEW x \in receipts[r].proofs
          PROVE uploads'[x].state = "uploading" /\ uploads'[x].verifiedAt \in 0..receipts[r].receivedAt
      BY <1>4, <1>5, <2>1, <3>1 DEF Ready
    <3> QED
      BY <1>2, <3>1, <3>2 DEF Ready
  <2> QED
    BY <1>2, <2>1 DEF PendingIsReady
<1>10. DecidedWithOrder'
  BY <1>2 DEF DeliveryHold, DecidedWithOrder
<1>11. ConfirmedAsAccepted'
  <2>1. \A x \in Proofs : uploads'[x].state = "accepted" <=> uploads[x].state = "accepted"
    BY <1>7
  <2>2. \A x \in Proofs : uploads[x].state = "accepted" => uploads'[x] = uploads[x]
    BY <1>1 DEF ChangesUpload
  <2>3. confirmation.proofs \subseteq Proofs
    BY DEF DeliveryHold, ProofTypeOK, ConfirmationRow
  <2> QED
    BY <1>2, <2>1, <2>2, <2>3 DEF DeliveryHold, ConfirmedAsAccepted
<1>12. BytesStay'
  <2>1. ASSUME NEW x \in Proofs, x \notin fenced', x \in verified' \/ uploads'[x].verifiedAt # NoTime
        PROVE Decodes(x)'
    <3>1. CASE x = p
      BY <1>1, <1>2, <2>1, <3>1 DEF ChangesUpload
    <3>2. CASE x # p
      BY <1>1, <1>2, <2>1, <3>2 DEF ChangesUpload, DeliveryHold, BytesStay
    <3> QED
      BY <3>1, <3>2
  <2> QED
    BY <2>1 DEF BytesStay, ChangesUpload
<1>13. WorkIsSound'
  <2>1. ASSUME NEW r \in Receipts, Pending(r) PROVE Evidence(r)' = Evidence(r)
    <3>1. \A x \in receipts[r].proofs : uploads'[x].verifiedAt = uploads[x].verifiedAt
      BY <1>4, <1>5, <2>1
    <3>2. receipts' = receipts
      BY <1>2
    <3>3. Evidence(r)' = [x \in receipts[r].proofs |-> uploads'[x].verifiedAt]
      BY <3>2 DEF Evidence
    <3> QED
      BY <3>1, <3>3 DEF Evidence
  <2>2. ASSUME NEW w \in Workers PROVE WorkerSound(work[w])'
    <3>1. WorkerSound(work[w])
      BY DEF DeliveryHold, WorkIsSound
    <3> QED
      BY <1>2, <2>1, <3>1 DEF WorkerSound
  <2> QED
    BY <2>2 DEF WorkIsSound
<1>14. OutageWasSeen'
  BY <1>2 DEF DeliveryHold, OutageWasSeen
<1> QED
  BY <1>6, <1>8, <1>9, <1>10, <1>11, <1>12, <1>13, <1>14 DEF DeliveryHold

\* CreateUpload stages a new identity or renews a staged one.
LEMMA CreateUploadHolds ==
  ASSUME DeliveryHold, NEW p \in Proofs, NEW rotated \in BOOLEAN, NEW lifetime \in 1..Lifetime,
         CreateUpload(p, rotated, lifetime)
  PROVE  DeliveryHold'
<1> DEFINE old == uploads[p]
           refreshes == Refreshes(old, rotated)
           generation == IF refreshes THEN old.generation + 1 ELSE old.generation
           u == IF refreshes
                  THEN [state |-> "uploading", generation |-> generation, expires |-> clock + lifetime,
                        verifiedAt |-> old.verifiedAt]
                  ELSE old
<1>1. /\ generation <= MaxGenerations /\ ~Fenced(p) /\ old.state \in {"none", "uploading"}
      /\ uploads' = IF refreshes THEN SavedUpload(p, generation, clock + lifetime) ELSE uploads
      /\ signing' = signing \cup {<<p, generation>>}
      /\ UNCHANGED <<order, fenced, receipts, confirmation, outage, world,
                     verifying, verified, seen, work, retiring, prober, down>>
  BY DEF CreateUpload, MayStage
<1>2. old \in UploadRow /\ uploads \in [Proofs -> UploadRow] /\ clock \in 0..MaxTime
  BY DEF DeliveryHold, ProofTypeOK
<1>3. generation \in 0..MaxGenerations
  BY <1>1, <1>2, BoundsAssumption DEF UploadRow
<1>4. u \in UploadRow
  <2>1. clock + lifetime \in 0..(MaxTime + Lifetime)
    BY <1>2, BoundsAssumption, DurationsAssumption
  <2> QED
    BY <1>2, <1>3, <2>1 DEF UploadRow
<1>5. uploads' = [uploads EXCEPT ![p] = u]
  BY <1>1, <1>2 DEF SavedUpload
<1>6. u.state \in {"none", "uploading"} /\ u.verifiedAt = old.verifiedAt
      /\ (old.state = "uploading" => u.state = "uploading")
  BY <1>1
<1> HIDE DEF u, generation, refreshes
<1>7. Reserved(p) => old.state = "uploading"
  BY DEF Reserved, DeliveryHold, PendingIsReady, Ready
<1>8. p \notin fenced /\ (p \in verified \/ old.verifiedAt # NoTime => Decodes(p)) /\ retiring \subseteq fenced
  BY <1>1 DEF Fenced, DeliveryHold, BytesStay
<1>9. ChangesUpload(p, u)
  BY <1>1, <1>5, <1>6, <1>7, <1>8 DEF ChangesUpload, world
<1>10. ProofTypeOK'
  <2>1. signing' \subseteq Proofs \X (0..MaxGenerations)
    BY <1>1, <1>3 DEF DeliveryHold, ProofTypeOK
  <2>2. uploads' \in [Proofs -> UploadRow]
    BY <1>2, <1>4, <1>5
  <2> QED
    BY <1>1, <2>1, <2>2 DEF DeliveryHold, ProofTypeOK, world, Pending
<1> QED
  BY <1>4, <1>9, <1>10, UploadStep

\* Retiring a row that no pending receipt names keeps the invariant.
LEMMA RetireHolds ==
  ASSUME DeliveryHold, NEW p \in Proofs, uploads[p].state # "accepted", ~Reserved(p),
         uploads' = Retired(p), fenced' = FencedWith(p), retiring' \subseteq retiring \cup {p},
         UNCHANGED <<order, receipts, confirmation, outage, world,
                     signing, verifying, verified, seen, work, prober, down>>
  PROVE  DeliveryHold'
<1> DEFINE old == uploads[p]
           u == [old EXCEPT !.state = IF @ = "uploading" THEN "deleting" ELSE @]
<1>1. old \in UploadRow /\ uploads \in [Proofs -> UploadRow]
  BY DEF DeliveryHold, ProofTypeOK
<1>2. u \in UploadRow /\ u.state \in {"none", "deleting"} /\ u.verifiedAt = old.verifiedAt
  BY <1>1 DEF UploadRow
<1>3. uploads' = [uploads EXCEPT ![p] = u]
  BY <1>1 DEF Retired
<1> HIDE DEF u
<1>4. ProofTypeOK'
  <2>1. uploads' \in [Proofs -> UploadRow] /\ fenced' \subseteq Proofs /\ retiring' \subseteq Proofs
    BY <1>1, <1>2, <1>3 DEF DeliveryHold, ProofTypeOK, FencedWith
  <2> QED
    BY <2>1 DEF DeliveryHold, ProofTypeOK, world, Pending
<1>5. retiring' \subseteq fenced' /\ p \in fenced' /\ fenced \subseteq fenced' /\ fenced' \subseteq fenced \cup {p}
  BY DEF DeliveryHold, BytesStay, FencedWith
<1>6. ChangesUpload(p, u)
  BY <1>2, <1>3, <1>5 DEF ChangesUpload, world
<1> QED
  BY <1>2, <1>4, <1>6, UploadStep

\* AbandonUpload and CleanOnce retire a row; the cleaner takes a fenced one
\* too, which no pending receipt names.
LEMMA AbandonAndCleanHold ==
  ASSUME DeliveryHold, NEW p \in Proofs, AbandonUpload(p) \/ CleanOnce(p)
  PROVE  DeliveryHold'
<1>1. CASE AbandonUpload(p)
  BY <1>1, RetireHolds DEF AbandonUpload, Abandonable, requests
<1>2. CASE CleanOnce(p)
  <2>1. ~Reserved(p) /\ uploads[p].state # "accepted"
    BY <1>2 DEF CleanOnce, Cleanable, CleanupCandidate, Fenced, DeliveryHold, FencesHold
  <2> QED
    BY <1>2, <2>1, RetireHolds DEF CleanOnce
<1> QED
  BY <1>1, <1>2

\* VerifyFinish dates a verification; one that is dated already stays.
LEMMA VerifyFinishHolds ==
  ASSUME DeliveryHold, NEW p \in Proofs, VerifyFinish(p)
  PROVE  DeliveryHold'
<1> DEFINE old == uploads[p]
           finds == CanUpload(clock) /\ old.state = "uploading"
           u == IF finds THEN [old EXCEPT !.verifiedAt = IF @ = NoTime THEN clock ELSE @] ELSE old
<1>1. /\ p \in verified /\ verified' = verified \ {p}
      /\ uploads' = IF finds THEN VerifiedFirst(p) ELSE uploads
      /\ UNCHANGED <<order, fenced, receipts, confirmation, outage, world,
                     signing, verifying, seen, work, retiring, prober, down>>
  BY DEF VerifyFinish
<1>2. old \in UploadRow /\ uploads \in [Proofs -> UploadRow] /\ clock \in 0..MaxTime
  BY DEF DeliveryHold, ProofTypeOK
<1>3. u \in UploadRow
  <2>1. finds => clock \in InTime
    BY <1>2, BoundsAssumption, DurationsAssumption DEF CanUpload, InTime
  <2> QED
    BY <1>2, <2>1 DEF UploadRow
<1>4. uploads' = [uploads EXCEPT ![p] = u]
  BY <1>1, <1>2 DEF VerifiedFirst
<1>5. u.state = old.state /\ (old.verifiedAt # NoTime => u.verifiedAt = old.verifiedAt)
  BY <1>2 DEF UploadRow
<1>6. CASE old.state = "accepted"
  <2>1. u = old /\ uploads' = uploads
    BY <1>1, <1>6
  <2>2. ProofTypeOK'
    BY <1>1, <2>1 DEF DeliveryHold, ProofTypeOK, world, Pending
  <2> HIDE DEF u
  <2>3. BytesStay'
    BY <1>1, <2>1 DEF DeliveryHold, BytesStay, Decodes, world
  <2>4. OutageWasSeen'
    BY <1>1 DEF DeliveryHold, OutageWasSeen, world
  <2> QED
    BY <1>1, <2>1, <2>2, <2>3, <2>4 DEF DeliveryHold, FencesHold, AcceptedOnce, PendingIsReady, Ready,
       DecidedWithOrder, ConfirmedAsAccepted, WorkIsSound, WorkerSound, Pending, Reserved, Evidence
<1>7. CASE old.state # "accepted"
  <2> HIDE DEF u
  <2>1. Reserved(p) => old.state = "uploading" /\ old.verifiedAt # NoTime
    BY BoundsAssumption DEF Reserved, DeliveryHold, PendingIsReady, Ready, NoTime, ProofTypeOK, ReceiptRow, InTime
  <2>2. p \in fenced => old.state \in {"none", "deleting"} /\ ~Reserved(p)
    BY DEF DeliveryHold, FencesHold
  <2>3. p \notin fenced => Decodes(p)
    BY <1>1 DEF DeliveryHold, BytesStay
  <2>4. retiring \subseteq fenced
    BY DEF DeliveryHold, BytesStay
  <2>5. ChangesUpload(p, u)
    BY <1>1, <1>4, <1>5, <1>7, <2>1, <2>2, <2>3, <2>4 DEF ChangesUpload, world
  <2>6. ProofTypeOK'
    <3>1. uploads' \in [Proofs -> UploadRow] /\ verified' \subseteq Proofs
      BY <1>1, <1>2, <1>3, <1>4 DEF DeliveryHold, ProofTypeOK
    <3> QED
      BY <1>1, <3>1 DEF DeliveryHold, ProofTypeOK, world, Pending
  <2> QED
    BY <1>3, <2>5, <2>6, UploadStep
<1> QED
  BY <1>6, <1>7

-----------------------------------------------------------------------------
(* Steps that leave the rows of the order alone *)

\* Only the workers, the bytes and the outage can matter then.
LEMMA RowsStay ==
  ASSUME DeliveryHold, ProofTypeOK', WorkIsSound', BytesStay', OutageWasSeen',
         UNCHANGED <<order, uploads, fenced, receipts, confirmation>>
  PROVE  DeliveryHold'
<1>1. FencesHold' /\ PendingIsReady'
  BY DEF DeliveryHold, FencesHold, PendingIsReady, Ready, Pending, Reserved
<1>2. AcceptedOnce'
  BY DEF DeliveryHold, AcceptedOnce, Pending
<1>3. DecidedWithOrder' /\ ConfirmedAsAccepted'
  BY DEF DeliveryHold, DecidedWithOrder, ConfirmedAsAccepted
<1> QED
  BY <1>1, <1>2, <1>3 DEF DeliveryHold

\* The workers stay as sound as they were.
LEMMA WorkersStay ==
  ASSUME DeliveryHold, UNCHANGED <<order, uploads, receipts, work>>
  PROVE  WorkIsSound'
BY DEF DeliveryHold, WorkIsSound, WorkerSound, Pending, Evidence

\* A worker takes a step that only it can see.
LEMMA WorkerSteps ==
  ASSUME DeliveryHold, NEW w \in Workers, NEW k \in WorkType, WorkerSound(k),
         work' = [work EXCEPT ![w] = k], faults' \in Nat,
         UNCHANGED <<table, clock, storage, objects, granted, puts, outages,
                     signing, verifying, verified, seen, retiring, prober, down>>
  PROVE  DeliveryHold'
<1>1. work \in [Workers -> WorkType]
  BY DEF DeliveryHold, ProofTypeOK
<1>2. ProofTypeOK'
  BY <1>1 DEF DeliveryHold, ProofTypeOK, table, Pending
<1>3. WorkIsSound'
  <2>1. ASSUME NEW x \in Workers PROVE WorkerSound(work'[x])
    <3>1. CASE x = w
      BY <1>1, <3>1
    <3>2. CASE x # w
      BY <1>1, <3>2 DEF DeliveryHold, WorkIsSound
    <3> QED
      BY <3>1, <3>2
  <2>2. receipts' = receipts /\ uploads' = uploads /\ order' = order
    BY DEF table
  <2>3. ASSUME NEW x \in Workers PROVE WorkerSound(work[x])'
    <3>1. \A r \in Receipts : Evidence(r)' = Evidence(r) /\ (Pending(r)' <=> Pending(r))
      BY <2>2 DEF Evidence, Pending
    <3> QED
      BY <2>1, <2>2, <3>1 DEF WorkerSound
  <2> QED
    BY <2>3 DEF WorkIsSound
<1>4. BytesStay' /\ OutageWasSeen' /\ UNCHANGED <<order, uploads, fenced, receipts, confirmation>>
  BY DEF DeliveryHold, BytesStay, OutageWasSeen, Decodes, table
<1> QED
  BY <1>2, <1>3, <1>4, RowsStay

\* The records a worker can have.
LEMMA IdleWorker ==
  ASSUME NEW k, k = Idle \/ \E r \in Receipts : k = Admitted(r) /\ receipts[r].state # "none"
  PROVE  k \in WorkType /\ WorkerSound(k)
<1>1. NoEvidence \in [{} -> InTime]
  BY DEF NoEvidence
<1>2. NoEvidence \in UNION {[proofs -> InTime] : proofs \in SUBSET Proofs}
  BY <1>1
<1>3. \A r \in Receipts : r \in 0..MaxReceipts
  BY BoundsAssumption DEF Receipts
<1> QED
  BY <1>2, <1>3, BoundsAssumption DEF Idle, Admitted, WorkType, WorkerSound

\* The receipt a worker has, and what is known of it while it is pending and
\* the order waits: it stands, and everything it names is there.
LEMMA PendingStands ==
  ASSUME DeliveryHold, NEW r \in Receipts, Pending(r), order.status = "delivering"
  PROVE  /\ Standing(r) = "first"
         /\ \A p \in receipts[r].proofs :
              /\ p \in Proofs /\ uploads[p].state = "uploading" /\ Decodes(p)
              /\ uploads[p].verifiedAt # NoTime /\ uploads[p].verifiedAt <= receipts[r].receivedAt
         /\ HasPendingDelivery
<1>1. receipts[r].state = "pending" /\ ~confirmation.saved /\ Ready(r)
  BY DEF Pending, DeliveryHold, ConfirmedAsAccepted, PendingIsReady
<1>2. receipts[r].receivedAt \in 0..(Deadline - 1) /\ receipts[r].receivedAt < Deadline
  BY <1>1, DurationsAssumption DEF Ready
<1>3. CanUpload(receipts[r].receivedAt)
  BY <1>2 DEF CanUpload
<1>4. Standing(r) = "first"
  BY <1>1, <1>3 DEF Standing
<1>5. ASSUME NEW p \in receipts[r].proofs
      PROVE /\ p \in Proofs /\ uploads[p].state = "uploading" /\ Decodes(p)
            /\ uploads[p].verifiedAt # NoTime /\ uploads[p].verifiedAt <= receipts[r].receivedAt
  <2>1. p \in Proofs
    BY DEF DeliveryHold, ProofTypeOK, ReceiptRow
  <2>2. uploads[p].state = "uploading" /\ uploads[p].verifiedAt \in 0..receipts[r].receivedAt
    BY <1>1 DEF Ready
  <2>3. uploads[p].verifiedAt # NoTime /\ uploads[p].verifiedAt <= receipts[r].receivedAt
    BY <1>2, <2>2 DEF NoTime
  <2>4. p \notin fenced
    BY <2>2 DEF DeliveryHold, FencesHold
  <2> QED
    BY <2>1, <2>2, <2>3, <2>4 DEF DeliveryHold, BytesStay
<1>6. receipts[r].proofs = {} => receipts[r].outage # 0
  BY <1>1 DEF Ready
<1>7. HasPendingDelivery
  BY <1>2, <1>5, <1>6 DEF HasPendingDelivery
<1> QED
  BY <1>4, <1>5, <1>7

\* JoinReceipt and Crash.
LEMMA JoinAndCrashHold ==
  ASSUME DeliveryHold, NEW w \in Workers, Crash(w) \/ \E r \in Receipts : JoinReceipt(w, r)
  PROVE  DeliveryHold'
<1>1. faults \in Nat
  BY DEF DeliveryHold, ProofTypeOK
<1>2. CASE Crash(w)
  <2>1. Idle \in WorkType /\ WorkerSound(Idle)
    BY IdleWorker
  <2>2. work' = [work EXCEPT ![w] = Idle] /\ faults' \in Nat
    BY <1>1, <1>2 DEF Crash
  <2> QED
    BY <1>2, <2>1, <2>2, WorkerSteps DEF Crash
<1>3. ASSUME NEW r \in Receipts, JoinReceipt(w, r) PROVE DeliveryHold'
  <2>1. receipts[r].state # "none"
    BY <1>3 DEF JoinReceipt, Pending
  <2>2. Admitted(r) \in WorkType /\ WorkerSound(Admitted(r))
    BY <2>1, IdleWorker
  <2> QED
    BY <1>1, <1>3, <2>2, WorkerSteps DEF JoinReceipt, world
<1> QED
  BY <1>2, <1>3

\* A worker that gives up a receipt the order does not wait for is sound.
LEMMA RefusedWorker ==
  ASSUME DeliveryHold, NEW w \in Workers, work[w].pc # "idle",
         Pending(work[w].receipt) => order.status # "delivering"
  PROVE  [work[w] EXCEPT !.pc = "refused"] \in WorkType
         /\ WorkerSound([work[w] EXCEPT !.pc = "refused"])
<1>1. work[w] \in WorkType /\ WorkerSound(work[w])
  BY DEF DeliveryHold, ProofTypeOK, WorkIsSound
<1> QED
  BY <1>1 DEF WorkType, WorkerSound

\* ReadEvidence refuses only what the order does not wait for.
LEMMA ReadEvidenceHolds ==
  ASSUME DeliveryHold, NEW w \in Workers, ReadEvidence(w)
  PROVE  DeliveryHold'
<1> DEFINE r == work[w].receipt
           ready == Standing(r) = "first" /\ \A p \in receipts[r].proofs : uploads[p].state = "uploading"
           k == IF Standing(r) = "repeat" THEN Idle
                ELSE IF ready THEN [pc |-> "validating", receipt |-> r, evidence |-> Evidence(r)]
                ELSE [work[w] EXCEPT !.pc = "refused"]
<1>1. /\ work[w].pc = "admitted" /\ faults \in Nat /\ work[w] \in WorkType /\ WorkerSound(work[w])
      /\ work \in [Workers -> WorkType]
  BY DEF DeliveryHold, ProofTypeOK, WorkIsSound, ReadEvidence
<1>2. r \in Receipts /\ receipts[r].state # "none" /\ r \in 0..MaxReceipts
  BY <1>1 DEF WorkerSound, WorkType
<1>3. k \in WorkType /\ WorkerSound(k)
  <2>1. CASE Standing(r) = "repeat"
    BY <2>1, IdleWorker
  <2>2. CASE Standing(r) # "repeat" /\ ready
    <3>1. receipts[r].proofs \subseteq Proofs /\ uploads \in [Proofs -> UploadRow]
      BY <1>2 DEF DeliveryHold, ProofTypeOK, ReceiptRow
    <3>2. Evidence(r) \in [receipts[r].proofs -> InTime]
      BY <3>1 DEF Evidence, UploadRow
    <3>3. Evidence(r) \in UNION {[proofs -> InTime] : proofs \in SUBSET Proofs}
      BY <3>1, <3>2
    <3>4. k = [pc |-> "validating", receipt |-> r, evidence |-> Evidence(r)]
      BY <2>2
    <3> QED
      BY <1>2, <3>3, <3>4 DEF WorkType, WorkerSound
  <2>3. CASE Standing(r) # "repeat" /\ ~ready
    <3>1. Pending(r) => order.status # "delivering"
      BY <1>2, <2>3, PendingStands
    <3>2. k = [work[w] EXCEPT !.pc = "refused"]
      BY <2>3
    <3> QED
      BY <1>1, <3>1, <3>2, RefusedWorker
  <2> QED
    BY <2>1, <2>2, <2>3
<1>4. work' = [work EXCEPT ![w] = k]
  BY <1>1 DEF ReadEvidence
<1>5. UNCHANGED <<table, world, signing, verifying, verified, seen, retiring, prober, down>>
  BY DEF ReadEvidence
<1> HIDE DEF k
<1> QED
  BY <1>1, <1>3, <1>4, <1>5, WorkerSteps DEF world

\* Validate refuses only what the order does not wait for: the bytes of a
\* pending receipt are good, and storage that does not answer only delays.
LEMMA ValidateHolds ==
  ASSUME DeliveryHold, NEW w \in Workers, Validate(w)
  PROVE  DeliveryHold'
<1> DEFINE r == work[w].receipt
           result == Validation(r)
           k == IF result = "retry" THEN Idle ELSE [work[w] EXCEPT !.pc = result]
<1>1. /\ work[w].pc = "validating" /\ faults \in Nat /\ work[w] \in WorkType /\ WorkerSound(work[w])
      /\ work \in [Workers -> WorkType]
  BY DEF DeliveryHold, ProofTypeOK, WorkIsSound, Validate
<1>2. r \in Receipts /\ receipts[r].state # "none"
  BY <1>1 DEF WorkerSound
<1>3. result \in {"attaching", "retry", "refused"}
  BY DEF Validation
<1>4. k \in WorkType /\ WorkerSound(k)
  <2>1. CASE result = "retry"
    BY <2>1, IdleWorker
  <2>2. CASE result = "attaching"
    <3>1. k = [work[w] EXCEPT !.pc = "attaching"]
      BY <2>2
    <3> QED
      BY <1>1, <3>1 DEF WorkType, WorkerSound
  <2>3. CASE result = "refused"
    <3>1. Pending(r) => order.status # "delivering"
      <4>1. SUFFICES ASSUME Pending(r), order.status = "delivering" PROVE FALSE
        OBVIOUS
      <4>2. \A p \in receipts[r].proofs : Decodes(p)
        BY <1>2, <4>1, PendingStands
      <4>3. (\A p \in receipts[r].proofs : Readable /\ Decodes(p))
            \/ (receipts[r].proofs # {} /\ ~Readable)
        BY <4>2
      <4> QED
        BY <2>3, <4>3 DEF Validation
    <3>2. k = [work[w] EXCEPT !.pc = "refused"]
      BY <2>3
    <3> HIDE DEF k
    <3> QED
      BY <1>1, <3>1, <3>2, RefusedWorker
  <2> QED
    BY <1>3, <2>1, <2>2, <2>3
<1>5. work' = [work EXCEPT ![w] = k]
  BY <1>1 DEF Validate
<1>6. UNCHANGED <<table, world, signing, verifying, verified, seen, retiring, prober, down>>
  BY DEF Validate
<1> HIDE DEF k
<1> QED
  BY <1>1, <1>4, <1>5, <1>6, WorkerSteps DEF world

\* AttachRefused gives up only what the order does not wait for: the evidence
\* of a pending receipt is what the worker has read.
LEMMA AttachRefusedHolds ==
  ASSUME DeliveryHold, NEW w \in Workers, AttachRefused(w)
  PROVE  DeliveryHold'
<1> DEFINE r == work[w].receipt
           k == IF Standing(r) = "repeat" THEN Idle ELSE [work[w] EXCEPT !.pc = "refused"]
<1>1. /\ work[w].pc = "attaching" /\ faults \in Nat /\ work[w] \in WorkType /\ WorkerSound(work[w])
      /\ work \in [Workers -> WorkType] /\ \A q \in Receipts : ~Attachable(w, q)
  BY DEF DeliveryHold, ProofTypeOK, WorkIsSound, AttachRefused
<1>2. r \in Receipts /\ (Pending(r) => work[w].evidence = Evidence(r))
  BY <1>1 DEF WorkerSound
<1>3. Pending(r) => order.status # "delivering"
  <2>1. SUFFICES ASSUME Pending(r), order.status = "delivering" PROVE Attachable(w, r)
    BY <1>1, <1>2
  <2>2. /\ Standing(r) = "first"
        /\ \A p \in receipts[r].proofs :
             /\ uploads[p].state = "uploading" /\ uploads[p].verifiedAt # NoTime
             /\ uploads[p].verifiedAt <= receipts[r].receivedAt
    BY <1>2, <2>1, PendingStands
  <2>3. \A p \in receipts[r].proofs : work[w].evidence[p] = uploads[p].verifiedAt
    BY <1>2, <2>1 DEF Evidence
  <2> QED
    BY <2>1, <2>2, <2>3 DEF Attachable, Rechecked
<1>4. k \in WorkType /\ WorkerSound(k)
  <2>1. CASE Standing(r) = "repeat"
    BY <2>1, IdleWorker
  <2>2. CASE Standing(r) # "repeat"
    <3>1. k = [work[w] EXCEPT !.pc = "refused"]
      BY <2>2
    <3> HIDE DEF k
    <3> QED
      BY <1>1, <1>3, <3>1, RefusedWorker
  <2> QED
    BY <2>1, <2>2
<1>5. work' = [work EXCEPT ![w] = k]
  BY <1>1 DEF AttachRefused
<1>6. UNCHANGED <<table, world, signing, verifying, verified, seen, retiring, prober, down>>
  BY DEF AttachRefused
<1> HIDE DEF k
<1> QED
  BY <1>1, <1>4, <1>5, <1>6, WorkerSteps DEF world

\* Requests that have not reached the rows yet, storage that fails or recovers,
\* and time.
LEMMA OutsideHolds ==
  ASSUME DeliveryHold,
         \/ \E p \in Proofs : VerifyBegin(p)
         \/ \E s \in signing : GrantUpload(s[1], s[2])
         \/ ReadOutage
         \/ StorageFails \/ StorageRecovers \/ Tick
  PROVE  DeliveryHold'
<1>1. /\ UNCHANGED <<table, objects, verified, retiring, work, prober, down>>
      /\ puts' = puts
  BY DEF VerifyBegin, GrantUpload, ReadOutage, StorageFails, StorageRecovers,
         Tick, world, requests
<1>2. BytesStay' /\ UNCHANGED <<order, uploads, fenced, receipts, confirmation, outage>>
  BY <1>1 DEF DeliveryHold, BytesStay, Decodes, table
<1>3. WorkIsSound'
  BY <1>1, WorkersStay DEF table
<1>4. /\ clock' \in 0..MaxTime /\ storage' \in {"up", "down"} /\ granted' \subseteq Proofs
      /\ outages' \in Nat /\ faults' \in Nat
      /\ signing' \subseteq Proofs \X (0..MaxGenerations) /\ verifying' \subseteq Proofs
      /\ seen' \subseteq OutageRow
  <2> USE DEF DeliveryHold, ProofTypeOK, world, requests
  <2>1. CASE \E p \in Proofs : VerifyBegin(p)
    BY <2>1 DEF VerifyBegin
  <2>2. CASE \E s \in signing : GrantUpload(s[1], s[2])
    BY <2>2 DEF GrantUpload
  <2>3. CASE ReadOutage
    BY <2>3 DEF ReadOutage
  <2>4. CASE StorageFails \/ StorageRecovers
    BY <2>4 DEF StorageFails, StorageRecovers
  <2>5. CASE Tick
    BY <2>5, BoundsAssumption DEF Tick
  <2> QED
    BY <2>1, <2>2, <2>3, <2>4, <2>5
<1>5. ProofTypeOK'
  BY <1>1, <1>4 DEF DeliveryHold, ProofTypeOK, table, Pending
<1>6. OutageWasSeen'
  <2>1. clock \in Nat /\ clock' \in Nat /\ clock <= clock'
    <3>1. clock \in Nat
      BY BoundsAssumption DEF DeliveryHold, ProofTypeOK
    <3>2. clock' = clock \/ clock' = clock + 1
      BY DEF VerifyBegin, GrantUpload, ReadOutage, StorageFails, StorageRecovers, Tick, world
    <3> QED
      BY <3>1, <3>2
  <2>2. ASSUME NEW q \in Probers, prober[q].time <= clock PROVE prober[q].time <= clock'
    <3>1. prober[q].time \in Nat
      BY BoundsAssumption DEF DeliveryHold, ProofTypeOK, ProberType
    <3> QED
      BY <2>1, <2>2, <3>1
  <2> QED
    BY <1>1, <1>2, <2>2 DEF DeliveryHold, OutageWasSeen
<1> QED
  BY <1>2, <1>3, <1>5, <1>6, RowsStay

\* The bytes of an identity change when they are uploaded or deleted, which
\* happens only where none were verified or the identity is fenced.
LEMMA BytesHold ==
  ASSUME DeliveryHold, NEW p \in Proofs,
         VerifyObject(p) \/ DeleteObject(p) \/ \E content \in {"good", "bad"} : Put(p, content)
  PROVE  DeliveryHold'
<1>1. UNCHANGED <<table, clock, storage, granted, outages, faults, signing, seen, work, prober, down>>
  BY DEF VerifyObject, DeleteObject, Put, world, requests
<1>2. UNCHANGED <<order, uploads, fenced, receipts, confirmation, outage>>
  BY <1>1 DEF table
<1>3. /\ objects' \in [Proofs -> {"none", "good", "bad"}] /\ puts' \in Nat
      /\ verifying' \subseteq Proofs /\ verified' \subseteq Proofs /\ retiring' \subseteq Proofs
  <2> USE DEF DeliveryHold, ProofTypeOK, world, requests
  <2>1. CASE VerifyObject(p)
    BY <2>1 DEF VerifyObject
  <2>2. CASE DeleteObject(p)
    BY <2>2 DEF DeleteObject
  <2>3. CASE \E content \in {"good", "bad"} : Put(p, content)
    BY <2>3 DEF Put
  <2> QED
    BY <2>1, <2>2, <2>3
<1>4. ProofTypeOK'
  BY <1>1, <1>2, <1>3 DEF DeliveryHold, ProofTypeOK, Pending
<1>5. BytesStay'
  <2>1. retiring' \subseteq fenced'
    BY <1>2 DEF VerifyObject, DeleteObject, Put, world, requests, DeliveryHold, BytesStay
  <2>2. ASSUME NEW x \in Proofs, x \notin fenced, x \in verified' \/ uploads[x].verifiedAt # NoTime
        PROVE Decodes(x)'
    <3>1. objects \in [Proofs -> {"none", "good", "bad"}]
      BY DEF DeliveryHold, ProofTypeOK
    <3>2. x \in verified \/ uploads[x].verifiedAt # NoTime => objects[x] = "good"
      BY <2>2 DEF DeliveryHold, BytesStay, Decodes
    <3>3. CASE VerifyObject(p)
      BY <2>2, <3>2, <3>3 DEF VerifyObject, Decodes, world
    <3>4. CASE DeleteObject(p)
      <4>1. p \in fenced /\ verified' = verified
        BY <3>4 DEF DeleteObject, DeliveryHold, BytesStay
      <4> QED
        BY <2>2, <3>1, <3>2, <3>4, <4>1 DEF DeleteObject, Decodes
    <3>5. CASE \E content \in {"good", "bad"} : Put(p, content)
      BY <2>2, <3>1, <3>2, <3>5 DEF Put, Decodes, requests
    <3> QED
      BY <3>3, <3>4, <3>5
  <2> QED
    BY <1>2, <2>1, <2>2 DEF BytesStay
<1>6. WorkIsSound' /\ OutageWasSeen'
  BY <1>1, <1>2, WorkersStay DEF DeliveryHold, OutageWasSeen
<1> QED
  BY <1>2, <1>4, <1>5, <1>6, RowsStay

\* A step of a prober concerns itself, the outage and the count of faults.
LEMMA ProberStep ==
  ASSUME DeliveryHold, NEW q \in Probers, NEW k \in ProberType, prober' = [prober EXCEPT ![q] = k],
         outage' \in OutageRow, faults' \in Nat, down \subseteq down', down' \subseteq 0..MaxTime,
         outage'.active =>
           /\ outage'.generation # 0
           /\ \E t \in down' : t <= outage'.observedAt /\ outage'.observedAt <= t + ProbeTimeout,
         k.failures >= 2 =>
           /\ k.pc = "probed" => k.time \in down' /\ k.time <= clock
           /\ k.pc = "stamped" => \E t \in down' : t <= k.time /\ k.time <= t + ProbeTimeout,
         UNCHANGED <<order, uploads, fenced, receipts, confirmation, clock, storage, objects,
                     granted, puts, outages, signing, verifying, verified, seen, work, retiring>>
  PROVE  DeliveryHold'
<1>1. prober \in [Probers -> ProberType]
  BY DEF DeliveryHold, ProofTypeOK
<1>2. ProofTypeOK'
  BY <1>1 DEF DeliveryHold, ProofTypeOK, Pending
<1>3. ASSUME NEW x \in Probers, prober'[x].failures >= 2
      PROVE  /\ prober'[x].pc = "probed" => prober'[x].time \in down' /\ prober'[x].time <= clock
             /\ prober'[x].pc = "stamped" =>
                  \E t \in down' : t <= prober'[x].time /\ prober'[x].time <= t + ProbeTimeout
  <2>1. CASE x = q
    BY <1>1, <1>3, <2>1
  <2>2. CASE x # q
    <3>1. prober'[x] = prober[x]
      BY <1>1, <2>2
    <3> QED
      BY <1>3, <3>1 DEF DeliveryHold, OutageWasSeen
  <2> QED
    BY <2>1, <2>2
<1>4. OutageWasSeen'
  BY <1>3 DEF OutageWasSeen
<1>5. WorkIsSound' /\ BytesStay'
  BY WorkersStay DEF DeliveryHold, BytesStay, Decodes
<1> QED
  BY <1>2, <1>4, <1>5, RowsStay

\* ProbeOnce counts two failures only if the last answer was a 5xx.
LEMMA ProbeHolds ==
  ASSUME DeliveryHold, NEW q \in Probers, NEW answer, ProbeOnce(q, answer)
  PROVE  DeliveryHold'
<1> DEFINE k == [pc |-> "probed", failures |-> Counted(q, answer),
                 cleanup |-> answer = "unconfirmed", time |-> clock]
<1>1. /\ UNCHANGED <<table, clock, storage, objects, granted, puts, outages,
                     signing, verifying, verified, seen, work, retiring>>
      /\ Probe(answer) /\ prober' = [prober EXCEPT ![q] = k]
      /\ down' = IF answer = "5xx" THEN down \cup {clock} ELSE down
  BY DEF ProbeOnce
<1>2. /\ prober \in [Probers -> ProberType] /\ outage \in OutageRow /\ clock \in 0..MaxTime
      /\ down \subseteq 0..MaxTime /\ faults \in Nat
  BY DEF DeliveryHold, ProofTypeOK
<1>3. Counted(q, answer) \in 0..2 /\ (Counted(q, answer) >= 2 => answer = "5xx")
  BY <1>2 DEF Counted, ProberType
<1>4. k \in ProberType
  BY <1>2, <1>3 DEF ProberType
<1>5. faults' \in Nat
  BY <1>1, <1>2 DEF Probe
<1>6. down \subseteq down' /\ down' \subseteq 0..MaxTime
  BY <1>1, <1>2
<1>7. k.pc = "probed" /\ (k.failures >= 2 => k.time \in down' /\ k.time <= clock)
  BY <1>1, <1>2, <1>3
<1> HIDE DEF k
<1>8. UNCHANGED <<order, uploads, fenced, receipts, confirmation, outage>>
  BY <1>1 DEF table
<1>9. outage.active =>
        /\ outage.generation # 0
        /\ \E t \in down' : t <= outage.observedAt /\ outage.observedAt <= t + ProbeTimeout
  BY <1>6 DEF DeliveryHold, OutageWasSeen
<1> QED
  BY <1>1, <1>2, <1>4, <1>5, <1>6, <1>7, <1>8, <1>9, ProberStep

\* A prober that comes to rest, its count and its key kept or lost.
LEMMA RestHolds ==
  ASSUME DeliveryHold, NEW q \in Probers, DeleteProbe(q) \/ PublishFails(q) \/ ProberRestarts(q)
  PROVE  DeliveryHold'
<1>1. PICK failures \in 0..2, cleanup \in BOOLEAN :
        prober' = [prober EXCEPT ![q] = Resting(failures, cleanup)]
  <2>1. prober[q].failures \in 0..2 /\ prober[q].cleanup \in BOOLEAN
    BY DEF DeliveryHold, ProofTypeOK, ProberType
  <2> QED
    <3>1. CASE DeleteProbe(q)
      BY <2>1, <3>1 DEF DeleteProbe
    <3>2. CASE PublishFails(q)
      BY <2>1, <3>2 DEF PublishFails
    <3>3. CASE ProberRestarts(q)
      <4>1. prober' = [prober EXCEPT ![q] = Resting(0, FALSE)]
        BY <3>3 DEF ProberRestarts, NewProber
      <4>2. 0 \in 0..2 /\ FALSE \in BOOLEAN
        OBVIOUS
      <4> QED
        BY <4>1, <4>2
    <3> QED
      BY <3>1, <3>2, <3>3
<1> DEFINE k == Resting(failures, cleanup)
<1>2. k \in ProberType /\ k.pc = "resting"
  BY BoundsAssumption DEF Resting, ProberType
<1>3. /\ UNCHANGED <<order, uploads, fenced, receipts, confirmation, outage, clock, storage, objects,
                     granted, puts, outages, signing, verifying, verified, seen, work, retiring, down>>
      /\ faults' = faults \/ faults' = faults + 1
  BY DEF DeleteProbe, PublishFails, ProberRestarts, table, world
<1>4. faults' \in Nat /\ outage \in OutageRow /\ down \subseteq 0..MaxTime
  BY <1>3 DEF DeliveryHold, ProofTypeOK
<1>5. outage.active =>
        /\ outage.generation # 0
        /\ \E t \in down : t <= outage.observedAt /\ outage.observedAt <= t + ProbeTimeout
  BY DEF DeliveryHold, OutageWasSeen
<1> HIDE DEF k
<1>6. prober' = [prober EXCEPT ![q] = k]
  BY <1>1 DEF k
<1> QED
  BY <1>2, <1>3, <1>4, <1>5, <1>6, ProberStep

\* ProofServerTime is read at most ProbeTimeout after the answer came.
LEMMA StampHolds ==
  ASSUME DeliveryHold, NEW q \in Probers, ReadServerTime(q)
  PROVE  DeliveryHold'
<1> DEFINE k == [prober[q] EXCEPT !.pc = "stamped", !.time = clock]
<1>1. prober[q] \in ProberType /\ prober \in [Probers -> ProberType] /\ clock \in 0..MaxTime
  BY DEF DeliveryHold, ProofTypeOK
<1>2. k \in ProberType /\ k.pc = "stamped" /\ k.time = clock /\ k.failures = prober[q].failures
  BY <1>1 DEF ProberType
<1>3. prober' = [prober EXCEPT ![q] = k]
  BY <1>1 DEF ReadServerTime
<1>4. /\ UNCHANGED <<order, uploads, fenced, receipts, confirmation, outage, clock, storage, objects,
                     granted, puts, outages, faults, signing, verifying, verified, seen, work, retiring,
                     down>>
      /\ prober[q].pc = "probed" /\ clock <= prober[q].time + ProbeTimeout
  BY DEF ReadServerTime, InProbeTime, table, world
<1>5. prober[q].failures >= 2 => prober[q].time \in down /\ prober[q].time <= clock
  BY <1>4 DEF DeliveryHold, OutageWasSeen
<1>6. k.failures >= 2 => \E t \in down : t <= k.time /\ k.time <= t + ProbeTimeout
  BY <1>2, <1>4, <1>5
<1>7. faults \in Nat /\ outage \in OutageRow /\ down \subseteq 0..MaxTime
  BY DEF DeliveryHold, ProofTypeOK
<1>8. outage.active =>
        /\ outage.generation # 0
        /\ \E t \in down : t <= outage.observedAt /\ outage.observedAt <= t + ProbeTimeout
  BY DEF DeliveryHold, OutageWasSeen
<1> HIDE DEF k
<1> QED
  BY <1>2, <1>3, <1>4, <1>6, <1>7, <1>8, ProberStep

\* PublishProofOutage puts an outage in force only upon an explicit failure.
LEMMA PublishHolds ==
  ASSUME DeliveryHold, NEW q \in Probers, Publish(q)
  PROVE  DeliveryHold'
<1> DEFINE k == Resting(prober[q].failures, prober[q].cleanup)
<1>1. /\ prober[q] \in ProberType /\ outage \in OutageRow
      /\ faults \in Nat /\ down \subseteq 0..MaxTime
  BY DEF DeliveryHold, ProofTypeOK
<1>2. k \in ProberType /\ k.pc = "resting"
  BY <1>1, BoundsAssumption DEF Resting, ProberType
<1>3. /\ UNCHANGED <<order, uploads, fenced, receipts, confirmation, clock, storage, objects,
                     granted, puts, outages, faults, signing, verifying, verified, seen, work, retiring,
                     down>>
      /\ prober' = [prober EXCEPT ![q] = k]
      /\ outage' = Published(prober[q].failures >= 2, prober[q].time)
      /\ prober[q].pc = "stamped" /\ outage.generation < MaxPublications
  BY DEF Publish, world
<1>4. /\ outage' \in OutageRow /\ outage'.generation # 0
      /\ outage'.observedAt = prober[q].time /\ outage'.active = (prober[q].failures >= 2)
  BY <1>1, <1>3, BoundsAssumption DEF Published, OutageRow, ProberType
<1>5. outage'.active =>
        \E t \in down : t <= outage'.observedAt /\ outage'.observedAt <= t + ProbeTimeout
  BY <1>3, <1>4 DEF DeliveryHold, OutageWasSeen
<1> HIDE DEF k
<1> QED
  BY <1>1, <1>2, <1>3, <1>4, <1>5, ProberStep

-----------------------------------------------------------------------------
(* Steps that close the order or decide a receipt *)

\* An order that waits is closed without a delivery.
LEMMA ClosedHolds ==
  ASSUME DeliveryHold, order.status = "delivering", order' \in OrderRow,
         order'.status \in {"cancelled", "failed"},
         order'.timedOut => \A r \in Receipts : receipts[r].state = "none",
         UNCHANGED <<uploads, fenced, receipts, confirmation, outage, world, requests>>
  PROVE  DeliveryHold'
<1>1. \A r \in Receipts : Pending(r)' <=> Pending(r)
  BY DEF Pending
<1>2. ProofTypeOK'
  BY <1>1 DEF DeliveryHold, ProofTypeOK, world, requests
<1>3. FencesHold' /\ PendingIsReady' /\ OutageWasSeen'
  BY <1>1 DEF DeliveryHold, FencesHold, PendingIsReady, Ready, OutageWasSeen, Reserved, world, requests
<1>4. \A p \in Proofs : uploads[p].state # "accepted"
  BY DEF DeliveryHold, AcceptedOnce
<1>5. \A r \in Receipts : receipts[r].state \in {"none", "pending"}
  BY DEF DeliveryHold, DecidedWithOrder
<1>6. AcceptedOnce'
  BY <1>4, <1>5 DEF AcceptedOnce
<1>7. DecidedWithOrder'
  BY <1>5 DEF DecidedWithOrder
<1>8. ConfirmedAsAccepted'
  BY <1>4 DEF DeliveryHold, ConfirmedAsAccepted
<1>9. BytesStay'
  BY DEF DeliveryHold, BytesStay, Decodes, world, requests
<1>10. ASSUME NEW w \in Workers PROVE WorkerSound(work[w])'
  <2>1. WorkerSound(work[w]) /\ work' = work /\ receipts' = receipts /\ uploads' = uploads
    BY DEF DeliveryHold, WorkIsSound, requests
  <2>2. \A r \in Receipts : Evidence(r)' = Evidence(r)
    BY <2>1 DEF Evidence
  <2> QED
    BY <1>1, <2>1, <2>2 DEF WorkerSound
<1> QED
  BY <1>2, <1>3, <1>6, <1>7, <1>8, <1>9, <1>10 DEF DeliveryHold, WorkIsSound

\* Timeout closes only an order without a receipt; users close at any time.
LEMMA CloseHolds ==
  ASSUME DeliveryHold,
         Timeout \/ Close("delivering", "cancelled") \/ Close("delivering", "failed")
         \/ Close("delivered", "completed")
  PROVE  DeliveryHold'
<1>1. order \in OrderRow
  BY DEF DeliveryHold, ProofTypeOK
<1>2. CASE Timeout
  <2>1. order.status = "delivering" /\ ~HasPendingDelivery
    BY <1>2 DEF Timeout
  <2>2. \A r \in Receipts : ~Pending(r)
    BY <2>1, PendingStands
  <2>3. \A r \in Receipts : receipts[r].state = "none"
    BY <2>1, <2>2 DEF Pending, DeliveryHold, DecidedWithOrder
  <2>4. order' \in OrderRow /\ order'.status = "failed"
    BY <1>1, <1>2 DEF Timeout, OrderRow
  <2> QED
    BY <1>2, <2>1, <2>3, <2>4, ClosedHolds DEF Timeout
<1>3. ASSUME NEW status \in {"cancelled", "failed"}, Close("delivering", status) PROVE DeliveryHold'
  <2>1. order.status = "delivering" /\ ~order.timedOut
    BY <1>3 DEF Close, DeliveryHold, DecidedWithOrder
  <2>2. order' \in OrderRow /\ order'.status \in {"cancelled", "failed"} /\ ~order'.timedOut
    BY <1>1, <1>3, <2>1 DEF Close, OrderRow
  <2> QED
    BY <1>3, <2>1, <2>2, ClosedHolds DEF Close
<1>4. CASE Close("delivered", "completed")
  <2>1. /\ UNCHANGED <<uploads, fenced, receipts, confirmation, outage, world, requests>>
        /\ order.status = "delivered" /\ order' = [order EXCEPT !.status = "completed"]
    BY <1>4 DEF Close
  <2>2. /\ order' \in OrderRow /\ order'.status = "completed" /\ order'.timedOut = order.timedOut
        /\ order'.deliveredAt = order.deliveredAt
    BY <1>1, <2>1 DEF OrderRow
  <2>3. \A r \in Receipts : (Pending(r)' <=> Pending(r)) /\ Evidence(r)' = Evidence(r)
    BY <2>1 DEF Pending, Evidence
  <2>4. ProofTypeOK'
    BY <2>1, <2>2, <2>3 DEF DeliveryHold, ProofTypeOK, world, requests
  <2>5. FencesHold' /\ PendingIsReady' /\ OutageWasSeen'
    BY <2>1, <2>3 DEF DeliveryHold, FencesHold, PendingIsReady, Ready, OutageWasSeen, Reserved, world, requests
  <2>6. AcceptedOnce'
    BY <2>1, <2>2, <2>3 DEF DeliveryHold, AcceptedOnce
  <2>7. DecidedWithOrder' /\ ConfirmedAsAccepted'
    BY <2>1, <2>2 DEF DeliveryHold, DecidedWithOrder, ConfirmedAsAccepted
  <2>8. BytesStay'
    BY <2>1 DEF DeliveryHold, BytesStay, Decodes, world, requests
  <2>9. ASSUME NEW w \in Workers PROVE WorkerSound(work[w])'
    <3>1. WorkerSound(work[w]) /\ work' = work /\ receipts' = receipts
      BY <2>1 DEF DeliveryHold, WorkIsSound, requests
    <3> QED
      BY <2>2, <2>3, <3>1 DEF WorkerSound
  <2> QED
    BY <2>4, <2>5, <2>6, <2>7, <2>8, <2>9 DEF DeliveryHold, WorkIsSound
<1> QED
  BY <1>2, <1>3, <1>4

\* FinishRefused supersedes a receipt whose order is closed and never rejects
\* one.
LEMMA FinishRefusedHolds ==
  ASSUME DeliveryHold, NEW w \in Workers, FinishRefused(w)
  PROVE  DeliveryHold'
<1> DEFINE r == work[w].receipt
<1>1. /\ work[w].pc = "refused" /\ work' = [work EXCEPT ![w] = Idle] /\ receipts' = Finished(r)
      /\ UNCHANGED <<order, uploads, fenced, confirmation, outage, world,
                     signing, verifying, verified, seen, retiring, prober, down>>
  BY DEF FinishRefused
<1>2. /\ r \in Receipts /\ receipts[r].state # "none" /\ (Pending(r) => order.status # "delivering")
      /\ receipts \in [Receipts -> ReceiptRow] /\ work \in [Workers -> WorkType] /\ faults \in Nat
  BY <1>1 DEF DeliveryHold, ProofTypeOK, WorkIsSound, WorkerSound
<1>3. Idle \in WorkType /\ WorkerSound(Idle)
  BY IdleWorker
<1>4. CASE ~Pending(r)
  <2>1. receipts' = receipts /\ faults' = faults
    BY <1>1, <1>4 DEF Finished, world
  <2> HIDE DEF r
  <2> QED
    BY <1>1, <1>2, <1>3, <2>1, WorkerSteps DEF table, world
<1>5. CASE Pending(r)
  <2>1. receipts' = [receipts EXCEPT ![r].state = "superseded"]
    BY <1>1, <1>2, <1>5 DEF Finished, FinishedReceipt
  <2>2. /\ receipts' \in [Receipts -> ReceiptRow] /\ receipts'[r].state = "superseded"
        /\ \A s \in Receipts : s # r => receipts'[s] = receipts[s]
        /\ \A s \in Receipts : receipts'[s].proofs = receipts[s].proofs
    BY <1>2, <2>1 DEF ReceiptRow
  <2>3. \A s \in Receipts : ~Pending(s)'
    BY <1>2, <1>5, <2>2 DEF DeliveryHold, ProofTypeOK, Pending
  <2>4. work' \in [Workers -> WorkType]
    BY <1>1, <1>2, <1>3
  <2> HIDE DEF r
  <2>5. ProofTypeOK'
    BY <1>1, <2>2, <2>3, <2>4 DEF DeliveryHold, ProofTypeOK, world
  <2>6. PendingIsReady' /\ FencesHold'
    BY <1>1, <2>3 DEF PendingIsReady, DeliveryHold, FencesHold, Reserved
  <2>7. order.status \notin {"delivering", "delivered", "completed"}
    BY <1>2, <1>5 DEF DeliveryHold, AcceptedOnce
  <2>8. AcceptedOnce'
    <3>1. \A s \in Receipts : receipts[s].state # "accepted"
      BY <2>7 DEF DeliveryHold, AcceptedOnce
    <3>2. \A s \in Receipts : receipts'[s].state # "accepted"
      BY <2>2, <3>1
    <3>3. \A p \in Proofs : uploads'[p].state # "accepted"
      BY <1>1, <2>7 DEF DeliveryHold, AcceptedOnce
    <3> QED
      BY <1>1, <2>7, <3>2, <3>3 DEF AcceptedOnce
  <2>9. DecidedWithOrder'
    <3>1. ~order.timedOut
      BY <1>2 DEF DeliveryHold, DecidedWithOrder
    <3> QED
      BY <1>1, <2>2, <2>7, <3>1 DEF DeliveryHold, DecidedWithOrder
  <2>10. ConfirmedAsAccepted' /\ BytesStay' /\ OutageWasSeen'
    BY <1>1 DEF DeliveryHold, ConfirmedAsAccepted, BytesStay, Decodes, OutageWasSeen, world
  <2>11. ASSUME NEW x \in Workers PROVE WorkerSound(work[x])'
    <3>1. CASE x = w
      BY <1>1, <1>2, <3>1 DEF WorkerSound, Idle
    <3>2. CASE x # w
      <4>1. work'[x] = work[x] /\ WorkerSound(work[x])
        BY <1>1, <1>2, <3>2 DEF DeliveryHold, WorkIsSound
      <4>2. \A s \in Receipts : receipts[s].state # "none" => receipts'[s].state # "none"
        BY <2>2
      <4> QED
        BY <2>3, <4>1, <4>2 DEF WorkerSound
    <3> QED
      BY <3>1, <3>2
  <2> QED
    BY <2>5, <2>6, <2>8, <2>9, <2>10, <2>11 DEF DeliveryHold, WorkIsSound
<1> QED
  BY <1>4, <1>5

\* AdmitReceipt admits only what is ready, while nothing else is pending.
LEMMA AdmitHolds ==
  ASSUME DeliveryHold, NEW w \in Workers, NEW r \in Receipts, NEW proofs \in Named,
         AdmitReceipt(w, r, proofs)
  PROVE  DeliveryHold'
<1> DEFINE row == PendingReceipt(proofs)
<1>1. /\ \A s \in Receipts : ~Pending(s)
      /\ CanUpload(clock) /\ EvidenceReady(proofs) /\ (proofs = {} => Excused)
      /\ receipts[r] = NoReceipt
      /\ receipts' = [receipts EXCEPT ![r] = row] /\ work' = [work EXCEPT ![w] = Admitted(r)]
      /\ UNCHANGED <<order, uploads, fenced, confirmation, outage, world,
                     signing, verifying, verified, seen, retiring, prober, down>>
  BY DEF AdmitReceipt, InsertedReceipt
<1>2. /\ receipts \in [Receipts -> ReceiptRow] /\ work \in [Workers -> WorkType]
      /\ uploads \in [Proofs -> UploadRow] /\ outage \in OutageRow /\ clock \in 0..MaxTime
      /\ proofs \subseteq Proofs
  BY DEF DeliveryHold, ProofTypeOK, Named
<1>3. clock \in 0..(Deadline - 1) /\ order.status = "delivering"
  BY <1>1, <1>2, DurationsAssumption, BoundsAssumption DEF CanUpload
<1>4. /\ row \in ReceiptRow /\ row.state = "pending" /\ row.proofs = proofs
      /\ row.receivedAt = clock /\ row.outage = IF proofs = {} THEN outage.generation ELSE 0
  BY <1>2, <1>3, BoundsAssumption DEF PendingReceipt, ReceiptRow, InTime, OutageRow
<1> HIDE DEF row
<1>5. /\ receipts' \in [Receipts -> ReceiptRow] /\ receipts'[r] = row
      /\ \A s \in Receipts : s # r => receipts'[s] = receipts[s]
  BY <1>1, <1>2, <1>4
<1>6. \A s \in Receipts : Pending(s)' <=> s = r
  BY <1>1, <1>4, <1>5 DEF Pending
<1>7. \A p \in proofs : /\ uploads[p].state = "uploading" /\ uploads[p].verifiedAt # NoTime
                        /\ uploads[p].verifiedAt \in 0..clock
  <2>1. ASSUME NEW p \in proofs PROVE uploads[p].verifiedAt # NoTime => uploads[p].verifiedAt \in Nat
    BY <1>2, DurationsAssumption DEF UploadRow, InTime, NoTime
  <2> QED
    BY <1>1, <1>2, <2>1 DEF EvidenceReady
<1>8. proofs = {} => outage.generation # 0
  BY <1>1 DEF Excused, InForce, DeliveryHold, OutageWasSeen
<1>9. Admitted(r) \in WorkType
  <2>1. NoEvidence \in [{} -> InTime]
    BY DEF NoEvidence
  <2>2. NoEvidence \in UNION {[x -> InTime] : x \in SUBSET Proofs}
    BY <2>1
  <2> QED
    BY <2>2, BoundsAssumption DEF Admitted, WorkType, Receipts
<1>10. ProofTypeOK'
  <2>1. work' \in [Workers -> WorkType]
    BY <1>1, <1>2, <1>9
  <2> QED
    BY <1>1, <1>5, <1>6, <2>1 DEF DeliveryHold, ProofTypeOK, world
<1>11. FencesHold'
  <2>1. ASSUME NEW p \in fenced PROVE uploads[p].state \in {"none", "deleting"} /\ ~Reserved(p)'
    <3>1. uploads[p].state \in {"none", "deleting"}
      BY DEF DeliveryHold, FencesHold
    <3>2. p \notin receipts'[r].proofs
      BY <1>4, <1>5, <1>7, <3>1
    <3> QED
      BY <1>6, <3>1, <3>2 DEF Reserved
  <2> QED
    BY <1>1, <2>1 DEF FencesHold
<1>12. PendingIsReady'
  <2>1. Ready(r)'
    BY <1>1, <1>3, <1>4, <1>5, <1>7, <1>8 DEF Ready
  <2> QED
    BY <1>6, <2>1 DEF PendingIsReady
<1>13. \A s \in Receipts : receipts[s].state \in {"none", "pending"} /\ ~order.timedOut
  BY <1>3 DEF DeliveryHold, DecidedWithOrder
<1>14. \A s \in Receipts : receipts'[s].state \in {"none", "pending"}
  BY <1>4, <1>5, <1>13
<1>15. AcceptedOnce' /\ DecidedWithOrder'
  <2>1. \A p \in Proofs : uploads'[p].state # "accepted"
    BY <1>1, <1>3 DEF DeliveryHold, AcceptedOnce
  <2>2. AcceptedOnce'
    BY <1>1, <1>3, <1>14, <2>1 DEF AcceptedOnce
  <2> QED
    BY <1>1, <1>3, <1>13, <1>14, <2>2 DEF DecidedWithOrder
<1>16. ConfirmedAsAccepted' /\ BytesStay' /\ OutageWasSeen'
  BY <1>1 DEF DeliveryHold, ConfirmedAsAccepted, BytesStay, Decodes, OutageWasSeen, world
<1>17. ASSUME NEW x \in Workers PROVE WorkerSound(work[x])'
  <2>1. CASE x = w
    <3>1. work'[x] = Admitted(r)
      BY <1>1, <1>2, <2>1
    <3> QED
      BY <1>4, <1>5, <3>1 DEF WorkerSound, Admitted
  <2>2. CASE x # w
    <3>1. work'[x] = work[x] /\ WorkerSound(work[x])
      BY <1>1, <1>2, <2>2 DEF DeliveryHold, WorkIsSound
    <3>2. work[x].pc # "idle" => work[x].receipt # r
      BY <1>1, <3>1 DEF WorkerSound, NoReceipt
    <3> QED
      BY <1>5, <1>6, <3>1, <3>2 DEF WorkerSound
  <2> QED
    BY <2>1, <2>2
<1> QED
  BY <1>10, <1>11, <1>12, <1>15, <1>16, <1>17 DEF DeliveryHold, WorkIsSound

\* Attach delivers the order with the one receipt that is pending.
LEMMA AttachHolds ==
  ASSUME DeliveryHold, NEW w \in Workers, NEW q \in Receipts, Attach(w, q)
  PROVE  DeliveryHold'
<1> DEFINE r == work[w].receipt
           at == receipts[q].receivedAt
           evidence == receipts[q].proofs
<1>1. /\ work[w].pc = "attaching" /\ Attachable(w, q)
      /\ order' = Delivered(r) /\ uploads' = AcceptedEvidence(receipts[r].proofs)
      /\ confirmation' = SavedConfirmation(receipts[r].proofs)
      /\ receipts' = FinishedReceipt(q, "accepted") /\ work' = [work EXCEPT ![w] = Idle]
      /\ UNCHANGED <<fenced, outage, world, signing, verifying, verified, seen, retiring, prober, down>>
  BY DEF Attach
<1>2. /\ Standing(r) = "first" /\ Pending(q) /\ receipts[r].receivedAt = at
      /\ receipts[r].proofs = evidence
  BY <1>1 DEF Attachable
<1>3. order.status = "delivering"
  BY <1>2 DEF Standing, CanUpload
<1>4. /\ receipts \in [Receipts -> ReceiptRow] /\ work \in [Workers -> WorkType] /\ order \in OrderRow
      /\ uploads \in [Proofs -> UploadRow] /\ evidence \subseteq Proofs
  BY DEF DeliveryHold, ProofTypeOK, ReceiptRow
<1>5. /\ at \in 0..(Deadline - 1) /\ at \in InTime
      /\ \A p \in evidence : uploads[p].state = "uploading" /\ uploads[p].verifiedAt \in 0..at
  BY <1>2 DEF DeliveryHold, PendingIsReady, Ready, InTime
<1>6. /\ order' \in OrderRow /\ order'.status = "delivered" /\ order'.deliveredAt = at
      /\ order'.timedOut = order.timedOut
  BY <1>1, <1>2, <1>4, <1>5 DEF Delivered, OrderRow
<1>7. /\ uploads' \in [Proofs -> UploadRow]
      /\ \A p \in Proofs : /\ uploads'[p].verifiedAt = uploads[p].verifiedAt
                           /\ uploads'[p].state = IF p \in evidence THEN "accepted" ELSE uploads[p].state
  BY <1>1, <1>2, <1>4 DEF AcceptedEvidence, UploadRow
<1>8. confirmation' \in ConfirmationRow /\ confirmation'.saved /\ confirmation'.proofs = evidence
  BY <1>1, <1>2, <1>4 DEF SavedConfirmation, ConfirmationRow
<1>9. /\ receipts' \in [Receipts -> ReceiptRow] /\ receipts'[q].state = "accepted"
      /\ \A s \in Receipts : s # q => receipts'[s] = receipts[s]
      /\ \A s \in Receipts : receipts'[s].proofs = receipts[s].proofs
                             /\ receipts'[s].receivedAt = receipts[s].receivedAt
  BY <1>1, <1>4 DEF FinishedReceipt, ReceiptRow
<1>10. \A p \in Proofs : uploads[p].state # "accepted"
  BY <1>3 DEF DeliveryHold, AcceptedOnce
<1>11. /\ \A s \in Receipts : receipts[s].state \in {"none", "pending"}
       /\ ~order.timedOut
  BY <1>3 DEF DeliveryHold, DecidedWithOrder
<1>12. \A s \in Receipts : s # q => receipts'[s].state = "none"
  BY <1>2, <1>9, <1>11 DEF DeliveryHold, ProofTypeOK, Pending
<1>13. \A s \in Receipts : ~Pending(s)'
  BY <1>9, <1>12 DEF Pending
<1> HIDE DEF r, at, evidence
<1>14. ProofTypeOK'
  <2>1. work' \in [Workers -> WorkType]
    BY <1>1, <1>4, IdleWorker
  <2> QED
    BY <1>1, <1>6, <1>7, <1>8, <1>9, <1>13, <2>1 DEF DeliveryHold, ProofTypeOK, world
<1>15. FencesHold'
  <2>1. ASSUME NEW p \in fenced PROVE uploads'[p].state \in {"none", "deleting"}
    <3>1. p \in Proofs /\ uploads[p].state \in {"none", "deleting"}
      BY DEF DeliveryHold, ProofTypeOK, FencesHold
    <3> QED
      BY <1>5, <1>7, <3>1
  <2> QED
    BY <1>1, <1>13, <2>1 DEF FencesHold, Reserved
<1>16. AcceptedOnce'
  <2>1. {s \in Receipts : receipts'[s].state = "accepted"} = {q}
    BY <1>9, <1>12
  <2>2. {p \in Proofs : uploads'[p].state = "accepted"} = evidence
    BY <1>4, <1>7, <1>10
  <2>3. receipts'[q].receivedAt = at /\ receipts'[q].proofs = evidence
    BY <1>9 DEF at, evidence
  <2> QED
    BY <1>5, <1>6, <1>13, <2>1, <2>2, <2>3 DEF AcceptedOnce
<1>17. PendingIsReady' /\ DecidedWithOrder'
  BY <1>6, <1>9, <1>11, <1>12, <1>13 DEF PendingIsReady, DecidedWithOrder
<1>18. ConfirmedAsAccepted'
  <2>1. ASSUME NEW p \in Proofs, uploads'[p].state = "accepted"
        PROVE uploads'[p].verifiedAt # NoTime /\ uploads'[p].verifiedAt \in 0..at
    BY <1>5, <1>7, <1>10, <2>1 DEF NoTime
  <2> QED
    BY <1>4, <1>6, <1>7, <1>8, <2>1 DEF ConfirmedAsAccepted
<1>19. BytesStay' /\ OutageWasSeen'
  BY <1>1, <1>7 DEF DeliveryHold, BytesStay, Decodes, OutageWasSeen, world
<1>20. ASSUME NEW x \in Workers PROVE WorkerSound(work[x])'
  <2>1. CASE x = w
    BY <1>1, <1>4, <2>1 DEF WorkerSound, Idle
  <2>2. CASE x # w
    <3>1. work'[x] = work[x] /\ WorkerSound(work[x])
      BY <1>1, <1>4, <2>2 DEF DeliveryHold, WorkIsSound
    <3>2. \A s \in Receipts : receipts[s].state # "none" => receipts'[s].state # "none"
      BY <1>9
    <3> QED
      BY <1>13, <3>1, <3>2 DEF WorkerSound
  <2> QED
    BY <2>1, <2>2
<1> QED
  BY <1>14, <1>15, <1>16, <1>17, <1>18, <1>19, <1>20 DEF DeliveryHold, WorkIsSound

-----------------------------------------------------------------------------
(* The theorems *)

\* Every step of every actor keeps the invariant.
LEMMA StepHolds ==
  ASSUME DeliveryHold, [ProofNext]_vars
  PROVE  DeliveryHold'
<1>1. CASE CourierRequest
  <2>1. CASE \E p \in Proofs, rotated \in BOOLEAN : \E lifetime \in 1..Lifetime :
               CreateUpload(p, rotated, lifetime)
    BY <2>1, CreateUploadHolds
  <2>2. CASE \E s \in signing : GrantUpload(s[1], s[2])
    BY <2>2, OutsideHolds
  <2>3. CASE \E p \in Proofs : AbandonUpload(p) \/ VerifyBegin(p) \/ VerifyObject(p) \/ VerifyFinish(p)
    BY <2>3, AbandonAndCleanHold, OutsideHolds, BytesHold, VerifyFinishHolds
  <2>4. CASE ReadOutage
    BY <2>4, OutsideHolds
  <2>5. CASE \E w \in Workers, r \in Receipts, proofs \in Named : AdmitReceipt(w, r, proofs)
    BY <2>5, AdmitHolds
  <2> QED
    BY <1>1, <2>1, <2>2, <2>3, <2>4, <2>5 DEF CourierRequest
<1>2. CASE \E w \in Workers, r \in Receipts : JoinReceipt(w, r)
  BY <1>2, JoinAndCrashHold
<1>3. ASSUME NEW w \in Workers, Step(w) \/ Crash(w) PROVE DeliveryHold'
  BY <1>3, ReadEvidenceHolds, ValidateHolds, AttachRefusedHolds, FinishRefusedHolds, AttachHolds,
     JoinAndCrashHold DEF Step
<1>4. CASE \E p \in Proofs : Clean(p)
  BY <1>4, AbandonAndCleanHold, BytesHold DEF Clean
<1>5. CASE Probing
  BY <1>5, ProbeHolds, RestHolds, StampHolds, PublishHolds DEF Probing
<1>6. CASE Timeout \/ Close("delivering", "cancelled") \/ Close("delivering", "failed")
           \/ Close("delivered", "completed")
  BY <1>6, CloseHolds
<1>7. CASE \E p \in Proofs, content \in {"good", "bad"} : Put(p, content)
  BY <1>7, BytesHold
<1>8. CASE StorageFails \/ StorageRecovers \/ Tick
  BY <1>8, OutsideHolds
<1>9. CASE UNCHANGED vars
  <2>1. UNCHANGED <<table, world, requests>>
    BY <1>9 DEF vars
  <2>2. BytesStay' /\ OutageWasSeen' /\ UNCHANGED <<order, uploads, fenced, receipts, confirmation>>
    BY <2>1 DEF DeliveryHold, BytesStay, OutageWasSeen, Decodes, table, world, requests
  <2>3. WorkIsSound'
    BY <2>1, WorkersStay DEF table, requests
  <2>4. ProofTypeOK'
    BY <2>1 DEF DeliveryHold, ProofTypeOK, table, world, requests, Pending
  <2> QED
    BY <2>2, <2>3, <2>4, RowsStay
<1> QED
  BY <1>1, <1>2, <1>3, <1>4, <1>5, <1>6, <1>7, <1>8, <1>9 DEF ProofNext

\* What the order, its receipts, its uploads, storage and the workers agree
\* on, in every state of confirmReceipt, CleanOnce, ProbeOnce and the timer.
THEOREM DeliveryIsInvariant == ProofSpec => []DeliveryHold
<1>1. ProofInit => DeliveryHold
  BY InitHolds
<1>2. DeliveryHold /\ [ProofNext]_vars => DeliveryHold'
  BY StepHolds
<1> QED
  BY <1>1, <1>2, PTL DEF ProofSpec

\* An admitted receipt is never rejected and keeps the timer off, and a fenced
\* identity never comes back, for any number of workers, proofs and receipts.
THEOREM AdmittedReceiptsAreKept == ProofSpec => []AdmittedIsKept
<1>1. DeliveryHold => AdmittedIsKept
  BY HoldImplies
<1> QED
  BY <1>1, DeliveryIsInvariant, PTL

\* The order is delivered with exactly one receipt, from before the deadline,
\* and with its evidence, whose bytes stay in storage.
THEOREM OrderIsDeliveredOnce == ProofSpec => []DeliveredOnce
<1>1. DeliveryHold => DeliveredOnce
  BY HoldImplies
<1> QED
  BY <1>1, DeliveryIsInvariant, PTL

\* A receipt without a photograph is admitted only in an outage that is in
\* force and was met as an explicit failure at most the age of an outage and
\* the time of a probe before, however many probers publish in whatever order
\* and however old the outage is that the request had read.
THEOREM ExceptionsAreCertified == ProofSpec => ExceptionIsCertified
<1> DEFINE Certified ==
      \A r \in Receipts :
        receipts[r].state = "none" /\ receipts'[r].state = "pending" /\ receipts'[r].proofs = {} =>
          /\ outage.active
          /\ \E t \in down : t <= clock /\ clock < t + ProbeTimeout + OutageAge
<1>1. ASSUME DeliveryHold, [ProofNext]_vars PROVE [Certified]_vars
  <2>1. SUFFICES ASSUME NEW r \in Receipts, receipts[r].state = "none",
                        receipts'[r].state = "pending", receipts'[r].proofs = {}
                 PROVE  outage.active /\ \E t \in down : t <= clock /\ clock < t + ProbeTimeout + OutageAge
    OBVIOUS
  <2>2. receipts \in [Receipts -> ReceiptRow] /\ receipts' # receipts
    BY <1>1, <2>1 DEF DeliveryHold, ProofTypeOK
  <2>3. \A w \in Workers, q \in Receipts : ~Attach(w, q)
    BY <2>1, <2>2 DEF Attach, FinishedReceipt, Attachable, Pending
  <2>4. \A w \in Workers : ~FinishRefused(w)
    BY <2>1, <2>2 DEF FinishRefused, Finished, FinishedReceipt, Pending
  <2>5. CourierRequest
    BY <1>1, <2>2, <2>3, <2>4 DEF ProofNext, Step, Crash, JoinReceipt, ReadEvidence, Validate,
       AttachRefused, Clean, CleanOnce, DeleteObject, Probing, ProbeOnce, DeleteProbe, ReadServerTime,
       Publish, PublishFails, ProberRestarts, Timeout, Close, Put, StorageFails, StorageRecovers, Tick, vars, table
  <2>6. PICK w \in Workers, s \in Receipts, proofs \in Named : AdmitReceipt(w, s, proofs)
    BY <2>2, <2>5 DEF CourierRequest, CreateUpload, GrantUpload, AbandonUpload, VerifyBegin,
       VerifyObject, VerifyFinish, ReadOutage, table
  <2>7. receipts' = [receipts EXCEPT ![s] = PendingReceipt(proofs)] /\ (proofs = {} => Excused)
    BY <2>6 DEF AdmitReceipt, InsertedReceipt
  <2>8. proofs = {}
    <3>1. s = r
      BY <2>1, <2>2, <2>7
    <3> QED
      BY <2>1, <2>2, <2>7, <3>1 DEF PendingReceipt
  <2>9. outage.active /\ Fresh(outage)
    BY <2>7, <2>8 DEF Excused, InForce
  <2>10. PICK t \in down : t <= outage.observedAt /\ outage.observedAt <= t + ProbeTimeout
    BY <1>1, <2>9 DEF DeliveryHold, OutageWasSeen
  <2>11. t \in Nat /\ outage.observedAt \in Nat /\ clock \in Nat
    BY <1>1, BoundsAssumption DEF DeliveryHold, ProofTypeOK, OutageRow
  <2>12. t <= clock /\ clock < t + ProbeTimeout + OutageAge
    BY <2>9, <2>10, <2>11, DurationsAssumption DEF Fresh
  <2> QED
    BY <2>9, <2>12
<1>2. ExceptionIsCertified <=> [][Certified]_vars
  BY DEF ExceptionIsCertified
<1> HIDE DEF Certified
<1>3. DeliveryHold /\ [ProofNext]_vars => [Certified]_vars
  BY <1>1
<1> QED
  BY <1>2, <1>3, DeliveryIsInvariant, PTL DEF ProofSpec
=============================================================================
