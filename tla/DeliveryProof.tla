--------------------------- MODULE DeliveryProof ---------------------------
(***************************************************************************)
(* The delivery of an order from pickup to its confirmation: photographs   *)
(* are uploaded to object storage under signed URLs, verified, and named   *)
(* in a delivery receipt, which is committed before the slow validation    *)
(* and so protects a courier who was in time from the delivery timer.      *)
(* Receipts are processed by the courier's request and by the recovery     *)
(* loop at the same time, without a lease. The cleaner retires what was    *)
(* not accepted and deletes its bytes, probers certify storage outages     *)
(* that excuse a missing photograph, and users may close the order at any  *)
(* time. Transactions on one order are serialised by its row lock, so each *)
(* is one action; storage is only read and written between them.           *)
(*                                                                         *)
(* One order with its courier, one upload scope. Left out: the unattended  *)
(* flag, the hourly budget of new identities, and the pacing of retries.   *)
(***************************************************************************)
EXTENDS Integers, FiniteSets

CONSTANTS Proofs, Workers, Probers,
          Deadline,         \* twice the allowed duration, after the pickup
          Lifetime,         \* ImageUploadLifetime
          OutageAge,        \* maxProofOutageAge
          ProbeTimeout,     \* the context of one ProbeOnce
          MaxStaged,        \* MaxStagedProofs
          MaxReceipts, MaxTime, MaxGenerations, MaxPuts, MaxOutages, MaxPublications,
          MaxFaults

\* The durations are positive, the bounds of the model are natural numbers.
ASSUME DurationsAssumption ==
  /\ Deadline \in Nat \ {0} /\ Lifetime \in Nat \ {0} /\ OutageAge \in Nat \ {0}
  /\ ProbeTimeout \in Nat
ASSUME BoundsAssumption ==
  /\ MaxStaged \in Nat /\ MaxReceipts \in Nat /\ MaxTime \in Nat /\ MaxGenerations \in Nat
  /\ MaxPuts \in Nat /\ MaxOutages \in Nat /\ MaxPublications \in Nat /\ MaxFaults \in Nat

VARIABLES
  clock,        \* the database clock, 0 at the pickup
  order,        \* status, the delivery time and whether the timer closed it
  uploads,      \* order_proof_uploads, by identity
  fenced,       \* order_proof_fences
  receipts,     \* order_delivery_receipts
  confirmation, \* order_proof_confirmations: the receipt's proofs, if any
  outage        \* order_proof_outage_state

VARIABLES
  storage,      \* whether the object storage answers
  objects,      \* its contents
  granted,      \* identities a URL was handed out for
  puts, outages, faults

VARIABLES
  signing,      \* CreateUpload requests between their transactions
  verifying, verified, \* VerifyUpload requests before and after the object is read
  seen,         \* outages read by requests that are not admitted yet
  work,         \* workers processing a receipt
  retiring,     \* keys the cleaner is about to delete
  prober,
  down          \* history: times at which a probe met a 5xx answer

\* The rows of the order, kept by the database.
table == <<order, uploads, fenced, receipts, confirmation, outage>>
world == <<clock, storage, objects, granted, puts, outages, faults>>
requests == <<signing, verifying, verified, seen, work, retiring, prober, down>>
vars == <<table, world, requests>>

Receipts == 1..MaxReceipts
NoTime == -1

\* The rows, with the times and generations that tell them apart. Uploads are
\* verified and receipts received before the deadline, or not at all.
InTime == {NoTime} \cup 0..(Deadline - 1)
OrderRow ==
  [status : {"delivering", "delivered", "completed", "cancelled", "failed"},
   deliveredAt : InTime, timedOut : BOOLEAN]
UploadRow ==
  [state : {"none", "uploading", "accepted", "deleting"}, generation : 0..MaxGenerations,
   expires : 0..(MaxTime + Lifetime), verifiedAt : InTime]
ReceiptRow ==
  [state : {"none", "pending", "accepted", "rejected", "superseded"}, proofs : SUBSET Proofs,
   receivedAt : InTime, outage : 0..MaxPublications]
ConfirmationRow == [saved : BOOLEAN, proofs : SUBSET Proofs]
OutageRow == [active : BOOLEAN, generation : 0..MaxPublications, observedAt : 0..MaxTime]

\* A worker, with the receipt it processes and the verifications it has read.
WorkType ==
  [pc : {"idle", "admitted", "validating", "attaching", "refused"}, receipt : 0..MaxReceipts,
   evidence : UNION {[proofs -> InTime] : proofs \in SUBSET Proofs}]
\* A prober between its steps, with the time of the answer or, once it is
\* read, of the server.
ProberType ==
  [pc : {"resting", "probed", "stamped"}, failures : 0..2, cleanup : BOOLEAN, time : 0..MaxTime]

NoUpload == [state |-> "none", generation |-> 0, expires |-> 0, verifiedAt |-> NoTime]
NoReceipt == [state |-> "none", proofs |-> {}, receivedAt |-> NoTime, outage |-> 0]
Resting(failures, cleanup) ==
  [pc |-> "resting", failures |-> failures, cleanup |-> cleanup, time |-> 0]
NewProber == Resting(0, FALSE)
NoConfirmation == [saved |-> FALSE, proofs |-> {}]
NoEvidence == [p \in {} |-> NoTime]
Idle == [pc |-> "idle", receipt |-> 0, evidence |-> NoEvidence]

ProofInit ==
  /\ clock = 0
  /\ order = [status |-> "delivering", deliveredAt |-> NoTime, timedOut |-> FALSE]
  /\ uploads = [p \in Proofs |-> NoUpload]
  /\ fenced = {}
  /\ receipts = [r \in Receipts |-> NoReceipt]
  /\ confirmation = NoConfirmation
  /\ outage = [active |-> FALSE, generation |-> 0, observedAt |-> 0]
  /\ storage = "up" /\ objects = [p \in Proofs |-> "none"] /\ granted = {}
  /\ puts = 0 /\ outages = 0 /\ faults = 0
  /\ signing = {} /\ verifying = {} /\ verified = {} /\ seen = {} /\ retiring = {}
  /\ work = [w \in Workers |-> Idle]
  /\ prober = [q \in Probers |-> NewProber]
  /\ down = {}

-----------------------------------------------------------------------------
(* Guards shared by the handlers *)

\* canUploadProof
CanUpload(at) == order.status = "delivering" /\ at < Deadline

Pending(r) == receipts[r].state = "pending"

\* ProofReservedByReceipt
Reserved(p) == \E r \in Receipts : Pending(r) /\ p \in receipts[r].proofs

\* Mutant: a pending receipt protects only until the deadline.
PendingBeforeDeadline ==
  \E r \in Receipts :
    /\ Pending(r) /\ order.status = "delivering" /\ clock < Deadline

\* HasPendingDelivery: a receipt that was in time and can still be accepted.
HasPendingDelivery ==
  \E r \in Receipts :
    /\ Pending(r) /\ order.status = "delivering" /\ receipts[r].receivedAt < Deadline
    /\ receipts[r].proofs = {} => receipts[r].outage # 0
    /\ \A p \in receipts[r].proofs :
         /\ uploads[p].state = "uploading" /\ uploads[p].verifiedAt # NoTime
         /\ uploads[p].verifiedAt <= receipts[r].receivedAt

-----------------------------------------------------------------------------
(* CreateUpload, AbandonUpload and VerifyUpload *)

\* CountStagedProofs
Staged == Cardinality({s \in Proofs : uploads[s].state = "uploading"})

\* ProofIdentityFenced
Fenced(p) == p \in fenced

\* Only identities that are still uploading take a slot.
HasSlot == Staged < MaxStaged

\* The identity is not fenced, and is new or still staged.
MayStage(p) ==
  /\ ~Fenced(p)
  /\ \/ uploads[p].state = "none" /\ HasSlot
     \/ uploads[p].state = "uploading"

\* SaveProofUpload
SavedUpload(p, generation, expires) ==
  [uploads EXCEPT ![p] = [state |-> "uploading", generation |-> generation, expires |-> expires,
                          verifiedAt |-> uploads[p].verifiedAt]]

\* The grant has run out or was signed with other credentials.
Refreshes(u, rotated) == u.generation = 0 \/ u.expires <= clock \/ rotated

\* proofUploadMatches: nothing happened to the row while it was signed.
StillStaged(p, generation) ==
  /\ uploads[p].state = "uploading"
  /\ uploads[p].generation = generation /\ uploads[p].expires > clock

\* First transaction: the identity is stored before it is signed; a new
\* generation is due when the URL has run out or credentials were rotated,
\* and lives as long as the credentials at most.
CreateUpload(p, rotated, lifetime) ==
  LET u == uploads[p]
      refreshes == Refreshes(u, rotated)
      generation == IF refreshes THEN u.generation + 1 ELSE u.generation
  IN
  /\ CanUpload(clock) /\ MayStage(p) /\ generation <= MaxGenerations
  /\ uploads' = IF refreshes THEN SavedUpload(p, generation, clock + lifetime) ELSE uploads
  /\ signing' = signing \cup {<<p, generation>>}
  /\ UNCHANGED <<order, fenced, receipts, confirmation, outage, world,
                 verifying, verified, seen, work, retiring, prober, down>>

\* Second transaction: the URL is handed out if nothing changed meanwhile.
GrantUpload(p, generation) ==
  /\ <<p, generation>> \in signing
  /\ signing' = signing \ {<<p, generation>>}
  /\ granted' =
       IF CanUpload(clock) /\ StillStaged(p, generation) THEN granted \cup {p} ELSE granted
  /\ UNCHANGED <<table, clock, storage, objects, puts, outages, faults,
                 verifying, verified, seen, work, retiring, prober, down>>

\* FenceProofIdentity and RetireProofUpload
FencedWith(p) == fenced \cup {p}
Retired(p) ==
  [uploads EXCEPT ![p].state = IF @ = "uploading" THEN "deleting" ELSE @]

\* What is accepted cannot be given up.
Abandonable(p) == uploads[p].state # "accepted"

\* An identity is given up, known or not, unless a pending receipt names it.
AbandonUpload(p) ==
  /\ ~Fenced(p) /\ Abandonable(p) /\ ~Reserved(p)
  /\ fenced' = FencedWith(p)
  /\ uploads' = Retired(p)
  /\ UNCHANGED <<order, receipts, confirmation, outage, world, requests>>

VerifyBegin(p) ==
  /\ CanUpload(clock) /\ uploads[p].state = "uploading"
  /\ verifying' = verifying \cup {p}
  /\ UNCHANGED <<table, world, signing, verified, seen, work, retiring, prober, down>>

\* ReadProof, and Validate of what was read: the bytes are a photograph.
Readable == storage = "up"
Decodes(p) == objects[p] = "good"

\* verifyObject, outside any transaction.
VerifyObject(p) ==
  /\ p \in verifying
  /\ verifying' = verifying \ {p}
  /\ verified' = IF Readable /\ Decodes(p) THEN verified \cup {p} ELSE verified
  /\ UNCHANGED <<table, world, signing, seen, work, retiring, prober, down>>

\* VerifyProofUpload keeps the time of the first verification.
VerifiedFirst(p) == [uploads EXCEPT ![p].verifiedAt = IF @ = NoTime THEN clock ELSE @]

VerifyFinish(p) ==
  /\ p \in verified
  /\ verified' = verified \ {p}
  /\ uploads' = IF CanUpload(clock) /\ uploads[p].state = "uploading"
       THEN VerifiedFirst(p) ELSE uploads
  /\ UNCHANGED <<order, fenced, receipts, confirmation, outage, world,
                 signing, verifying, seen, work, retiring, prober, down>>

-----------------------------------------------------------------------------
(* Admission of a receipt *)

\* ConfirmProofOutage, before the order is locked.
ReadOutage ==
  /\ outage.active
  /\ seen' = seen \cup {outage}
  /\ UNCHANGED <<table, world, signing, verifying, verified, work, retiring, prober, down>>

\* isCurrentProofOutage
Fresh(o) == o.observedAt <= clock /\ clock < o.observedAt + OutageAge

\* Mutant: the outage read before the lock is not compared with the row.
ExcusedByRead == \E o \in seen : Fresh(o)

\* IsProofOutageCurrent, under a lock shared with its publication.
InForce(o) == outage.active /\ o = outage

\* The outage that was read is fresh and still the one in force.
Excused == \E o \in seen : Fresh(o) /\ InForce(o)

\* normalizedProofIDs: at most five, each once.
Named == {proofs \in SUBSET Proofs : Cardinality(proofs) <= 5}

EvidenceReady(proofs) ==
  \A p \in proofs :
    /\ uploads[p].state = "uploading"
    /\ uploads[p].verifiedAt # NoTime /\ uploads[p].verifiedAt <= clock

Admitted(r) == [pc |-> "admitted", receipt |-> r, evidence |-> NoEvidence]

\* Without a photograph the receipt names the outage.
PendingReceipt(proofs) ==
  [state |-> "pending", proofs |-> proofs, receivedAt |-> clock,
   outage |-> IF proofs = {} THEN outage.generation ELSE 0]

\* InsertDeliveryReceipt
InsertedReceipt(r, proofs) == [receipts EXCEPT ![r] = PendingReceipt(proofs)]

\* ConfirmDelivery of the courier. The effective time is that of the database.
AdmitReceipt(w, r, proofs) ==
  /\ work[w] = Idle
  /\ ~confirmation.saved /\ \A s \in Receipts : ~Pending(s)
  /\ CanUpload(clock)
  /\ EvidenceReady(proofs)
  /\ proofs = {} => Excused
  /\ receipts[r] = NoReceipt /\ \A s \in 1..(r - 1) : receipts[s] # NoReceipt
  /\ receipts' = InsertedReceipt(r, proofs)
  /\ work' = [work EXCEPT ![w] = Admitted(r)]
  /\ UNCHANGED <<order, uploads, fenced, confirmation, outage, world,
                 signing, verifying, verified, seen, retiring, prober, down>>

\* RecoverOnce, or a repeated ConfirmDelivery that joins the pending receipt.
JoinReceipt(w, r) ==
  /\ work[w] = Idle /\ Pending(r)
  /\ work' = [work EXCEPT ![w] = Admitted(r)]
  /\ UNCHANGED <<table, world, signing, verifying, verified, seen, retiring, prober, down>>

-----------------------------------------------------------------------------
(* confirmReceipt *)

\* receiptTime and confirmationState: a repeat of what was accepted is
\* recognised before the status and the deadline are looked at.
Standing(r) ==
  CASE receipts[r].state \notin {"pending", "accepted"} -> "refused"
    [] receipts[r].state \in {"pending", "accepted"} /\ confirmation.saved ->
         IF confirmation.proofs = receipts[r].proofs /\ order.status \in {"delivered", "completed"}
           THEN "repeat" ELSE "refused"
    [] receipts[r].state \in {"pending", "accepted"} /\ ~confirmation.saved ->
         IF CanUpload(receipts[r].receivedAt) THEN "first" ELSE "refused"

\* GetProofUpload for each proof: what is compared under the next lock.
Evidence(r) == [p \in receipts[r].proofs |-> uploads[p].verifiedAt]

\* First transaction: the rows the receipt names are read.
ReadEvidence(w) ==
  LET r == work[w].receipt
      ready == /\ Standing(r) = "first"
               /\ \A p \in receipts[r].proofs : uploads[p].state = "uploading"
  IN
  /\ work[w].pc = "admitted"
  /\ work' = [work EXCEPT ![w] =
       IF Standing(r) = "repeat" THEN Idle
       ELSE IF ready THEN [pc |-> "validating", receipt |-> r, evidence |-> Evidence(r)]
       ELSE [@ EXCEPT !.pc = "refused"]]
  /\ UNCHANGED <<table, world, signing, verifying, verified, seen, retiring, prober, down>>

\* An unreachable storage only delays: RetryProofReceipt.
Validation(r) ==
  CASE \A p \in receipts[r].proofs : Readable /\ Decodes(p) -> "attaching"
    [] receipts[r].proofs # {} /\ ~Readable -> "retry"
    [] OTHER -> "refused"

Validate(w) ==
  /\ work[w].pc = "validating"
  /\ LET result == Validation(work[w].receipt) IN
     work' = [work EXCEPT ![w] =
       IF result = "retry" THEN Idle ELSE [@ EXCEPT !.pc = result]]
  /\ UNCHANGED <<table, world, signing, verifying, verified, seen, retiring, prober, down>>

\* recheckProofs: no row was retired meanwhile.
Rechecked(proofs) == \A p \in proofs : uploads[p].state = "uploading"

\* The checks of SaveProofConfirmation against the order's pending receipt.
Attachable(w, q) ==
  LET r == work[w].receipt IN
  /\ Standing(r) = "first" /\ Rechecked(receipts[r].proofs)
  /\ Pending(q) /\ receipts[q].receivedAt = receipts[r].receivedAt
  /\ receipts[q].proofs = receipts[r].proofs
  /\ \A p \in receipts[r].proofs :
       /\ uploads[p].verifiedAt # NoTime /\ uploads[p].verifiedAt = work[w].evidence[p]
       /\ uploads[p].verifiedAt <= receipts[q].receivedAt

\* The delivery is dated by its receipt.
Delivered(r) ==
  [status |-> "delivered", deliveredAt |-> receipts[r].receivedAt, timedOut |-> order.timedOut]

\* AcceptProofUpload, SaveProofConfirmation and FinishDeliveryReceipt.
AcceptedEvidence(proofs) ==
  [p \in Proofs |-> IF p \in proofs THEN [uploads[p] EXCEPT !.state = "accepted"] ELSE uploads[p]]
SavedConfirmation(proofs) == [saved |-> TRUE, proofs |-> proofs]
FinishedReceipt(r, state) == [receipts EXCEPT ![r].state = state]

\* Second transaction: the evidence is accepted, the confirmation saved, the
\* receipt closed and the order delivered together.
Attach(w, q) ==
  LET r == work[w].receipt IN
  /\ work[w].pc = "attaching" /\ Attachable(w, q)
  /\ order' = Delivered(r)
  /\ uploads' = AcceptedEvidence(receipts[r].proofs)
  /\ confirmation' = SavedConfirmation(receipts[r].proofs)
  /\ receipts' = FinishedReceipt(q, "accepted")
  /\ work' = [work EXCEPT ![w] = Idle]
  /\ UNCHANGED <<fenced, outage, world, signing, verifying, verified, seen, retiring, prober, down>>

\* The same transaction when another process or a user was first.
AttachRefused(w) ==
  /\ work[w].pc = "attaching" /\ \A q \in Receipts : ~Attachable(w, q)
  /\ work' = [work EXCEPT ![w] =
       IF Standing(@.receipt) = "repeat" THEN Idle ELSE [@ EXCEPT !.pc = "refused"]]
  /\ UNCHANGED <<table, world, signing, verifying, verified, seen, retiring, prober, down>>

\* A receipt that is still pending when it is refused.
Finished(r) ==
  IF ~Pending(r) THEN receipts
    ELSE FinishedReceipt(r, IF order.status = "delivering" THEN "rejected" ELSE "superseded")

\* process, when confirmReceipt was refused.
FinishRefused(w) ==
  /\ work[w].pc = "refused"
  /\ receipts' = Finished(work[w].receipt)
  /\ work' = [work EXCEPT ![w] = Idle]
  /\ UNCHANGED <<order, uploads, fenced, confirmation, outage, world,
                 signing, verifying, verified, seen, retiring, prober, down>>

-----------------------------------------------------------------------------
(* CleanOnce *)

\* ProofCleanupCandidates
CleanupCandidate(p) ==
  uploads[p].state \in {"uploading", "deleting"} /\ uploads[p].expires <= clock

\* Mutant: the cleaner does not look whether the row was accepted.
CleanableAccepted(p) ==
  /\ uploads[p].state # "none" /\ uploads[p].expires <= clock
  /\ ~HasPendingDelivery
  /\ ~(uploads[p].state = "uploading" /\ CanUpload(clock))
  /\ p \in fenced \/ ~Reserved(p)

\* Under the lock; AbandonProofUpload refuses a reserved row that is not fenced.
Cleanable(p) ==
  /\ CleanupCandidate(p)
  /\ ~HasPendingDelivery
  /\ ~(uploads[p].state = "uploading" /\ CanUpload(clock))
  /\ Fenced(p) \/ ~Reserved(p)

\* The row is fenced first and the bytes are deleted afterwards.
CleanOnce(p) ==
  /\ Cleanable(p)
  /\ fenced' = FencedWith(p)
  /\ uploads' = Retired(p)
  /\ retiring' = retiring \cup {p}
  /\ UNCHANGED <<order, receipts, confirmation, outage, world,
                 signing, verifying, verified, seen, work, prober, down>>

DeleteObject(p) ==
  /\ p \in retiring
  /\ retiring' = retiring \ {p}
  /\ objects' = [objects EXCEPT ![p] = IF storage = "up" THEN "none" ELSE @]
  /\ UNCHANGED <<table, clock, storage, granted, puts, outages, faults,
                 signing, verifying, verified, seen, work, prober, down>>

-----------------------------------------------------------------------------
(* ProbeOnce *)

\* Consecutive explicit failures, of which two are enough.
Counted(q, answer) ==
  IF answer = "5xx" THEN (IF prober[q].failures < 2 THEN prober[q].failures + 1 ELSE 2) ELSE 0

\* What a probe meets: a write of an object and its deletion.
Probe(answer) ==
  \/ answer = "5xx" /\ storage = "down" /\ UNCHANGED faults
  \/ answer = "ok" /\ storage = "up" /\ UNCHANGED faults
  \/ answer \in {"unconfirmed", "refused"} /\ faults < MaxFaults /\ faults' = faults + 1

\* An object that a probe may have left behind is deleted before the next
\* probe; while that fails nothing is published.
DeleteProbe(q) ==
  /\ prober[q].pc = "resting" /\ prober[q].cleanup /\ storage = "up"
  /\ prober' = [prober EXCEPT ![q] = Resting(prober[q].failures, FALSE)]
  /\ UNCHANGED <<table, world, signing, verifying, verified, seen, work, retiring, down>>

\* ProbeProofUpload, outside any transaction: the answer is counted.
ProbeOnce(q, answer) ==
  /\ prober[q].pc = "resting" /\ ~prober[q].cleanup
  /\ Probe(answer)
  /\ prober' = [prober EXCEPT ![q] =
       [pc |-> "probed", failures |-> Counted(q, answer), cleanup |-> answer = "unconfirmed",
        time |-> clock]]
  /\ down' = IF answer = "5xx" THEN down \cup {clock} ELSE down
  /\ UNCHANGED <<table, clock, storage, objects, granted, puts, outages,
                 signing, verifying, verified, seen, work, retiring>>

\* The context that Run gave to the probe has not ended. It began no later
\* than the answer came.
InProbeTime(q) == clock <= prober[q].time + ProbeTimeout

\* ProofServerTime, a statement of its own after the answer.
ReadServerTime(q) ==
  /\ prober[q].pc = "probed" /\ InProbeTime(q)
  /\ prober' = [prober EXCEPT ![q].pc = "stamped", ![q].time = clock]
  /\ UNCHANGED <<table, world, signing, verifying, verified, seen, work, retiring, down>>

\* PublishProofOutage: whatever another prober has published since is
\* replaced.
Published(active, at) ==
  [active |-> active, generation |-> outage.generation + 1, observedAt |-> at]

Publish(q) ==
  /\ prober[q].pc = "stamped" /\ outage.generation < MaxPublications
  /\ outage' = Published(prober[q].failures >= 2, prober[q].time)
  /\ prober' = [prober EXCEPT ![q] = Resting(prober[q].failures, prober[q].cleanup)]
  /\ UNCHANGED <<order, uploads, fenced, receipts, confirmation, world,
                 signing, verifying, verified, seen, work, retiring, down>>

\* Either statement fails, or the context ends before the time is read; the
\* failures stay counted.
PublishFails(q) ==
  /\ \/ prober[q].pc = "probed" /\ ~InProbeTime(q) /\ UNCHANGED faults
     \/ prober[q].pc \in {"probed", "stamped"} /\ faults < MaxFaults /\ faults' = faults + 1
  /\ prober' = [prober EXCEPT ![q] = Resting(prober[q].failures, prober[q].cleanup)]
  /\ UNCHANGED <<table, clock, storage, objects, granted, puts, outages,
                 signing, verifying, verified, seen, work, retiring, down>>

\* The count and the key to delete are kept in memory only.
ProberRestarts(q) ==
  /\ prober[q] # NewProber /\ faults < MaxFaults
  /\ prober' = [prober EXCEPT ![q] = NewProber]
  /\ faults' = faults + 1
  /\ UNCHANGED <<table, clock, storage, objects, granted, puts, outages,
                 signing, verifying, verified, seen, work, retiring, down>>

-----------------------------------------------------------------------------
(* The timer and the users *)

\* ForOrder: the photographs of the confirmation, once it is saved.
Shown == IF confirmation.saved THEN confirmation.proofs ELSE {}

Timeout ==
  /\ order.status = "delivering" /\ clock >= Deadline
  /\ ~HasPendingDelivery
  /\ order' = [status |-> "failed", deliveredAt |-> order.deliveredAt, timedOut |-> TRUE]
  /\ UNCHANGED <<uploads, fenced, receipts, confirmation, outage, world, requests>>

\* The requester cancels, the courier gives up, or the requester confirms.
Close(from, status) ==
  /\ order.status = from
  /\ order' = [order EXCEPT !.status = status]
  /\ UNCHANGED <<uploads, fenced, receipts, confirmation, outage, world, requests>>

-----------------------------------------------------------------------------
(* The environment *)

\* A PUT begun under a URL may end at any later time. It never replaces bytes.
Put(p, content) ==
  /\ p \in granted /\ puts < MaxPuts /\ storage = "up"
  /\ puts' = puts + 1
  /\ objects' = [objects EXCEPT ![p] = IF @ = "none" THEN content ELSE @]
  /\ UNCHANGED <<table, clock, storage, granted, outages, faults, requests>>

StorageFails ==
  /\ storage = "up" /\ outages < MaxOutages
  /\ storage' = "down" /\ outages' = outages + 1
  /\ UNCHANGED <<table, clock, objects, granted, puts, faults, requests>>

StorageRecovers ==
  /\ storage = "down"
  /\ storage' = "up"
  /\ UNCHANGED <<table, clock, objects, granted, puts, outages, faults, requests>>

\* A worker stops: its process died, a transaction failed, or no verification
\* slot was free.
Crash(w) ==
  /\ work[w] # Idle /\ faults < MaxFaults
  /\ work' = [work EXCEPT ![w] = Idle]
  /\ faults' = faults + 1
  /\ UNCHANGED <<table, clock, storage, objects, granted, puts, outages,
                 signing, verifying, verified, seen, retiring, prober, down>>

Tick ==
  /\ clock < MaxTime
  /\ clock' = clock + 1
  /\ UNCHANGED <<table, storage, objects, granted, puts, outages, faults, requests>>

Step(w) ==
  \/ ReadEvidence(w) \/ Validate(w) \/ AttachRefused(w) \/ FinishRefused(w)
  \/ \E q \in Receipts : Attach(w, q)

Clean(p) == CleanOnce(p) \/ DeleteObject(p)

\* The requests of the courier.
CourierRequest ==
  \/ \E p \in Proofs, rotated \in BOOLEAN : \E lifetime \in 1..Lifetime :
       CreateUpload(p, rotated, lifetime)
  \/ \E s \in signing : GrantUpload(s[1], s[2])
  \/ \E p \in Proofs : AbandonUpload(p) \/ VerifyBegin(p) \/ VerifyObject(p) \/ VerifyFinish(p)
  \/ ReadOutage
  \/ \E w \in Workers, r \in Receipts, proofs \in Named : AdmitReceipt(w, r, proofs)

\* Run of the prober, every ten seconds in every replica.
Probing ==
  \/ \E q \in Probers, answer \in {"5xx", "ok", "unconfirmed", "refused"} :
       ProbeOnce(q, answer)
  \/ \E q \in Probers :
       DeleteProbe(q) \/ ReadServerTime(q) \/ Publish(q) \/ PublishFails(q) \/ ProberRestarts(q)

ProofNext ==
  \/ CourierRequest
  \/ \E w \in Workers, r \in Receipts : JoinReceipt(w, r)
  \/ \E w \in Workers : Step(w) \/ Crash(w)
  \/ \E p \in Proofs : Clean(p)
  \/ Probing
  \/ Timeout
  \/ Close("delivering", "cancelled") \/ Close("delivering", "failed")
  \/ Close("delivered", "completed")
  \/ \E p \in Proofs, content \in {"good", "bad"} : Put(p, content)
  \/ StorageFails \/ StorageRecovers \/ Tick

\* The loops run for ever, a handler that began ends, storage comes back and
\* time passes. Nothing is asked of the users.
ProofFairness ==
  /\ \A w \in Workers : WF_vars(Step(w))
  /\ WF_vars(\E w \in Workers, r \in Receipts : JoinReceipt(w, r))
  /\ \A p \in Proofs : WF_vars(Clean(p))
  /\ WF_vars(Timeout) /\ WF_vars(StorageRecovers \/ Tick)

ProofSpec == ProofInit /\ [][ProofNext]_vars /\ ProofFairness

-----------------------------------------------------------------------------
(* Properties *)

\* The rows and requests keep their shapes, and at most one receipt of the
\* order is pending (the unique index order_delivery_one_pending).
ProofTypeOK ==
  /\ clock \in 0..MaxTime /\ order \in OrderRow
  /\ uploads \in [Proofs -> UploadRow] /\ fenced \subseteq Proofs
  /\ receipts \in [Receipts -> ReceiptRow]
  /\ confirmation \in ConfirmationRow /\ outage \in OutageRow
  /\ storage \in {"up", "down"} /\ objects \in [Proofs -> {"none", "good", "bad"}]
  /\ granted \subseteq Proofs /\ puts \in Nat /\ outages \in Nat /\ faults \in Nat
  /\ signing \subseteq Proofs \X (0..MaxGenerations)
  /\ verifying \subseteq Proofs /\ verified \subseteq Proofs /\ retiring \subseteq Proofs
  /\ seen \subseteq OutageRow /\ down \subseteq 0..MaxTime
  /\ work \in [Workers -> WorkType] /\ prober \in [Probers -> ProberType]
  /\ \A r, s \in Receipts : Pending(r) /\ Pending(s) => r = s

\* What a courier was promised by an admitted receipt is kept: it is never
\* refused while the order waits for it, and the timer never closes an order
\* for which one was admitted in time, however long the validation takes.
ReceiptsKept ==
  \A r \in Receipts :
    receipts[r].state # "none" => receipts[r].state # "rejected" /\ ~order.timedOut

\* A retired identity cannot come back: it is not staged, accepted or named by
\* a receipt that may still be accepted, even if a request was under way.
FencesHold ==
  \A p \in fenced : uploads[p].state \in {"none", "deleting"} /\ ~Reserved(p)

\* A delivered order has one accepted receipt, from before the deadline, that
\* dates the delivery and names exactly the accepted evidence; an order closed
\* in another way has none, whoever processed the receipt and how often.
AcceptedOnce ==
  LET accepted == {r \in Receipts : receipts[r].state = "accepted"} IN
  IF order.status \in {"delivered", "completed"}
    THEN \E r \in Receipts :
           /\ accepted = {r} /\ \A s \in Receipts : ~Pending(s)
           /\ receipts[r].receivedAt = order.deliveredAt /\ order.deliveredAt \in 0..(Deadline - 1)
           /\ receipts[r].proofs = {p \in Proofs : uploads[p].state = "accepted"}
    ELSE accepted = {} /\ \A p \in Proofs : uploads[p].state # "accepted"

\* The evidence ForOrder shows to the participants was accepted and verified
\* no later than the delivery it proves, and its bytes stay in storage: the
\* cleaner never deletes them, so the view is never refused or empty.
EvidenceKept ==
  \A p \in Shown :
    /\ uploads[p].state = "accepted" /\ Decodes(p) /\ ~Fenced(p)
    /\ uploads[p].verifiedAt \in 0..order.deliveredAt

\* A receipt that is admitted keeps the order from timing out and is never
\* rejected; an identity the cleaner has retired cannot come back as staged,
\* as evidence or in a receipt, even if a request for it was under way.
AdmittedIsKept == ProofTypeOK /\ FencesHold /\ ReceiptsKept

\* However many receipts, repeats and workers there are, a delivered order has
\* one accepted receipt, from before the deadline, that dates the delivery and
\* names exactly the accepted evidence, which was verified before and stays in
\* storage, whatever the cleaner had claimed.
DeliveredOnce == AcceptedOnce /\ EvidenceKept

\* A delivery without a photograph is admitted only in an outage that is in
\* force at that moment and was met, as an explicit failure, not long before:
\* an outage lasts OutageAge from the server time that is read after the
\* probe, which the context of the probe keeps within ProbeTimeout of the
\* answer, also when probers publish out of order or fail to publish.
ExceptionIsCertified ==
  [][\A r \in Receipts :
       receipts[r].state = "none" /\ receipts'[r].state = "pending" /\ receipts'[r].proofs = {} =>
         /\ outage.active
         /\ \E t \in down : t <= clock /\ clock < t + ProbeTimeout + OutageAge]_vars

\* Storage holds something else than accepted evidence; a PUT may end after
\* its URL ran out and its object was deleted.
Orphaned == \E p \in Proofs : objects[p] # "none" /\ uploads[p].state # "accepted"
=============================================================================
