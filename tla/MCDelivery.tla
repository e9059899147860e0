----------------------------- MODULE MCDelivery -----------------------------
(***************************************************************************)
(* Delivery proofs and receipts, and what the readers show of an order, on *)
(* five small instances; the first state says which of them runs.          *)
(*  - one: a proof that is uploaded twice, storage that fails once, two    *)
(*    receipts and two workers, one of which may stall;                    *)
(*  - two: two proofs, in one receipt or one after the other, without      *)
(*    faults;                                                              *)
(*  - outage: no proof at all, two probers that certify the outage while   *)
(*    requests use what they read of it;                                   *)
(*  - pages: two orders, listed one by one by the requester, a courier,    *)
(*    who may be suspended, a stranger and an administrator;               *)
(*  - offers: one order with two couriers one after the other.             *)
(* The first three are scopes of one instance of DeliveryProof.            *)
(***************************************************************************)
EXTENDS DeliveryProof, Sequences, TLC

CONSTANTS p1, p2, w1, w2, q1, q2

VARIABLES
  part,
  rows, lapsed, call   \* Readers'

readerVars == <<rows, lapsed, call>>
deliveryVars == <<part, vars, readerVars>>

\* What each part has of the instance: how long before its first request the
\* order was picked up, and how many proofs, generations of a URL, bytes,
\* failures of the storage, probes and faults it meets.
Scope ==
  [one    |-> [begins |-> 1, proofs |-> 1, generations |-> 2, puts |-> 2, outages |-> 1,
               receipts |-> 2, publications |-> 0, faults |-> 1],
   two    |-> [begins |-> 2, proofs |-> 2, generations |-> 1, puts |-> 2, outages |-> 0,
               receipts |-> 2, publications |-> 0, faults |-> 0],
   outage |-> [begins |-> 0, proofs |-> 0, generations |-> 0, puts |-> 0, outages |-> 1,
               receipts |-> 1, publications |-> 3, faults |-> 1]]

InScope ==
  LET s == Scope[part] IN
  /\ Cardinality({p \in Proofs : uploads[p] # NoUpload \/ Fenced(p)}) <= s.proofs
  /\ \A p \in Proofs : uploads[p].generation <= s.generations
  /\ puts <= s.puts /\ outages <= s.outages /\ faults <= s.faults
  /\ \A r \in Receipts : r > s.receipts => receipts[r] = NoReceipt
  /\ outage.generation <= s.publications /\ Cardinality(seen) <= 1

User(id) == [id |-> id, admin |-> FALSE, suspended |-> FALSE]
Reading == {User(1), User(2), [User(2) EXCEPT !.suspended = TRUE], User(3), [User(4) EXCEPT !.admin = TRUE]}
Pages == INSTANCE Readers WITH
  Callers <- Reading, Requesters <- {1}, Couriers <- {2}, PageSize <- 1,
  Calls <- {[op |-> "get"], [op |-> "open"], [op |-> "mine", role |-> "any"],
            [op |-> "user", user |-> 2, role |-> "courier"]},
  MaxOrders <- 2, MaxEpisodes <- 1, MaxOvertakes <- 1
Offering == INSTANCE Readers WITH
  Callers <- Reading, Requesters <- {1}, Couriers <- {2, 3}, PageSize <- 1,
  Calls <- {[op |-> "get"], [op |-> "offers", status |-> "any"], [op |-> "offers", status |-> "open"]},
  MaxOrders <- 1, MaxEpisodes <- 2, MaxOvertakes <- 2

\* Probers matter while the order waits for its first receipt; what becomes of
\* it is followed from where they rest and the outage read is the last one.
ProbersMatter == part = "outage" /\ CanUpload(clock) /\ receipts[1] = NoReceipt
ReceiptMatters ==
  receipts[1] # NoReceipt /\ seen = {outage} /\ \A q \in Probers : prober[q].pc = "resting"

DeliveryInit ==
  /\ part \in DOMAIN Scope \cup {"pages", "offers"}
  /\ ProofInit /\ Pages!ReadersInit
Delivering ==
  /\ part \in DOMAIN Scope
  /\ clock < Scope[part].begins => Tick
  /\ part = "outage" => ProbersMatter \/ ReceiptMatters
  /\ ProofNext /\ UNCHANGED <<part, readerVars>>
  /\ InScope' /\ (ProbersMatter \/ UNCHANGED prober)
DeliveryNext ==
  \/ Delivering
  \/ part = "pages" /\ Pages!ReadersNext /\ UNCHANGED <<part, vars>>
  \/ part = "offers" /\ Offering!ReadersNext /\ UNCHANGED <<part, vars>>
DeliverySpec == DeliveryInit /\ [][DeliveryNext]_deliveryVars
DeliverySymmetry ==
  Permutations({w1, w2}) \cup Permutations({p1, p2}) \cup Permutations({q1, q2})

-----------------------------------------------------------------------------
(* Properties *)

\* What a caller reads of orders that change meanwhile is one state of them:
\* pages agree with their total and miss nothing of the caller's own, lists and
\* GetOrder show the same orders, and the destination, the images and the
\* offers reach only those who had a part in the order during the call.
ReadsAgree ==
  /\ part = "pages" =>
       Pages!ListedIsFound /\ Pages!PageAgreesWithTotal /\ Pages!ShownToParticipants /\ Pages!OwnPagesMissNothing
  /\ part = "offers" => Offering!ListedIsFound /\ Offering!ShownToParticipants /\ Offering!OffersReachTheirMaker
=============================================================================
