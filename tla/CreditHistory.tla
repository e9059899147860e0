--------------------------- MODULE CreditHistory ---------------------------
(***************************************************************************)
(* Proofs that the records of the credit service are a history: no outcome *)
(* of an operation, revision of a reservation or decision is rewritten,    *)
(* and a repeated call is answered with what the first one did. RecordsKept*)
(* relates the operations to the revisions they name. Then where credits   *)
(* come from and go: every balance is explained by grants and settlements  *)
(* (BooksBalance), and every step is one the escrow of module Escrow       *)
(* allows.                                                                 *)
(***************************************************************************)
EXTENDS CreditSafety

-----------------------------------------------------------------------------
(* What a step may write *)

\* The outcome of an operation is stored once, and never changed.
LEMMA OutcomesAreWrittenOnce ==
  ASSUME TypeOK, [Next]_vars, NEW k \in Keys, Recorded(k)
  PROVE  operations'[k] = operations[k]
<1>1. ASSUME NEW j \in Keys, NEW p, ~Recorded(j), SaveOperation(j, p) \/ SaveInsufficient(j, p)
      PROVE  operations'[k] = operations[k]
  BY <1>1 DEF TypeOK, Recorded, SaveOperation, SaveInsufficient
<1>2. ASSUME NEW u \in Users, OpenAccount(u) PROVE operations' = operations
  BY <1>2 DEF OpenAccount
<1>3. ASSUME NEW o \in Orders, NEW u \in Users, NEW amount \in Amounts, Reserve(o, u, amount)
      PROVE  operations'[k] = operations[k]
  BY <1>1, <1>3, KeyTypes DEF Reserve
<1>4. ASSUME NEW o \in Orders, NEW a \in Assignments, NEW c \in Users, NEW amount \in Amounts,
             AdjustReservation(o, a, c, amount)
      PROVE  operations'[k] = operations[k]
  BY <1>1, <1>4, KeyTypes DEF AdjustReservation
<1>5. ASSUME NEW o \in Orders, NEW a \in Assignments, RevertAdjustment(o, a)
      PROVE  operations'[k] = operations[k]
  BY <1>1, <1>5, KeyTypes DEF RevertAdjustment
<1>6. ASSUME NEW o \in Orders, NEW reason \in Reasons, ReleaseReservation(o, reason)
      PROVE  operations'[k] = operations[k]
  BY <1>1, <1>6, KeyTypes DEF ReleaseReservation
<1>7. ASSUME NEW o \in Orders, NEW u \in Users, NEW reason \in Reasons, ApplyRelease(o, u, reason)
      PROVE  operations' = operations
  BY <1>7 DEF ApplyRelease
<1>8. ASSUME NEW o \in Orders, NEW u \in Users, NEW c \in Users, NEW type \in PayoutTypes,
             NEW elapsed \in Elapsed, Settle(o, u, c, type, elapsed)
      PROVE  operations' = operations
  BY <1>8 DEF Settle
<1>9. CASE UNCHANGED vars
  BY <1>9 DEF vars
<1> QED
  BY <1>2, <1>3, <1>4, <1>5, <1>6, <1>7, <1>8, <1>9 DEF Next

\* The revisions of an order are a history: a step keeps every one and its number.
Keeps(old, new) ==
  /\ Len(old) <= Len(new)
  /\ \A n \in 1..Len(old) : new[n] = old[n]

\* Saving a reservation adds a revision and keeps those before it.
LEMMA AppendKeeps ==
  ASSUME TypeOK, NEW o \in Orders, NEW p \in Orders, NEW r \in ReservationType,
         SaveReservation(o, r)
  PROVE  /\ Keeps(revisions[p], revisions'[p])
         /\ Len(revisions'[o]) = Len(revisions[o]) + 1
         /\ revisions'[o][Len(revisions'[o])] = r
<1>1. revisions[p] \in Seq(ReservationType) /\ revisions[o] \in Seq(ReservationType)
  BY DEF TypeOK
<1>2. revisions'[p] = IF p = o THEN Append(revisions[o], r) ELSE revisions[p]
  BY DEF TypeOK, SaveReservation
<1>3. revisions'[o] = Append(revisions[o], r)
  BY DEF TypeOK, SaveReservation
<1> QED
  BY <1>1, <1>2, <1>3 DEF Keeps

\* Calls of different kinds, orders or assignments have different keys.
LEMMA KeysDiffer ==
  ASSUME NEW o \in Orders, NEW p \in Orders, NEW a \in Assignments, NEW b \in Assignments
  PROVE  /\ ReserveKey(o) = ReserveKey(p) => o = p
         /\ AdjustKey(o, a) = AdjustKey(p, b) => o = p /\ a = b
         /\ RevertKey(o, a) = RevertKey(p, b) => o = p /\ a = b
         /\ ReserveKey(o) # AdjustKey(p, b) /\ ReserveKey(o) # RevertKey(p, b)
         /\ ReserveKey(o) # ReleaseKey(p) /\ AdjustKey(o, a) # ReleaseKey(p)
         /\ AdjustKey(o, a) # RevertKey(p, b) /\ RevertKey(o, a) # ReleaseKey(p)
BY DEF ReserveKey, AdjustKey, RevertKey, ReleaseKey

\* Storing an outcome under one key leaves those of the others alone.
LEMMA SaveIsLocal ==
  ASSUME TypeOK, NEW k \in Keys, NEW j \in Keys, NEW p, j # k,
         SaveOperation(k, p) \/ SaveInsufficient(k, p)
  PROVE  operations'[j] = operations[j]
BY DEF TypeOK, SaveOperation, SaveInsufficient

-----------------------------------------------------------------------------
(* What a step may do to one order *)

Taken == {"HELD", "ASSIGNED", "SETTLED"}
HoldTaken(o) ==
  \E u \in Users, amount \in Amounts :
    Reserve(o, u, amount) /\ FirstReserve(o, u, amount) = "OK"
OfferTaken(o, a) ==
  \E c \in Users, amount \in Amounts :
    AdjustReservation(o, a, c, amount) /\ FirstAdjust(o, a, amount) = "OK"

\* The row of order o: an end is an end, a requester and an original amount
\* stay, and only a successful reserve makes a hold and a record of one.
RowStep(o) ==
  LET old == reservations[o]
      new == reservations'[o] IN
  /\ Terminal(o) => new = old
  /\ old.status # "NONE" =>
       new.status # "NONE" /\ new.requester = old.requester /\ new.original = old.original
  /\ Keeps(revisions[o], revisions'[o])
  /\ \/ HoldTaken(o)
     \/ /\ new.status \in Taken => old.status \in Taken
        /\ operations'[ReserveKey(o)].status = "DONE" =>
             operations[ReserveKey(o)].status = "DONE"

\* The offer of assignment a: its courier and its size stay, a revert stays,
\* and only a successful adjustment applies it and records that.
OfferStep(o, a) ==
  LET old == assignments[o][a]
      new == assignments'[o][a] IN
  /\ old.status # "NONE" =>
       new.status # "NONE" /\ new.courier = old.courier /\ new.offer = old.offer
  /\ old.status = "REVERTED" => new.status = "REVERTED"
  /\ \/ OfferTaken(o, a)
     \/ /\ new.status = "APPLIED" => old.status = "APPLIED"
        /\ operations'[AdjustKey(o, a)].status = "DONE" =>
             operations[AdjustKey(o, a)].status = "DONE"
  /\ operations'[RevertKey(o, a)].status = "DONE" =>
       new.status = "REVERTED" \/ operations[RevertKey(o, a)].status = "DONE"

\* A step that leaves the row of the order alone.
LEMMA SameRow ==
  ASSUME TypeOK, NEW o \in Orders,
         reservations'[o] = reservations[o], revisions'[o] = revisions[o],
         operations'[ReserveKey(o)].status = "DONE" =>
           operations[ReserveKey(o)].status = "DONE"
  PROVE  RowStep(o)
BY DEF RowStep, Keeps, TypeOK

\* A step that leaves the offer alone.
LEMMA SameOffer ==
  ASSUME NEW o \in Orders, NEW a \in Assignments,
         assignments'[o][a] = assignments[o][a],
         operations'[AdjustKey(o, a)].status = "DONE" =>
           operations[AdjustKey(o, a)].status = "DONE",
         operations'[RevertKey(o, a)] = operations[RevertKey(o, a)]
  PROVE  OfferStep(o, a)
BY DEF OfferStep

\* A row written over an open one, by a step that is no reserve.
LEMMA WrittenRow ==
  ASSUME TypeOK, NEW o \in Orders, NEW p \in Orders, NEW r \in ReservationType,
         SaveReservation(o, r), ~Terminal(o), r.status # "NONE",
         r.status \in Taken => reservations[o].status \in Taken,
         reservations[o].status # "NONE" =>
           r.requester = reservations[o].requester /\ r.original = reservations[o].original,
         operations'[ReserveKey(p)] = operations[ReserveKey(p)]
  PROVE  RowStep(p)
<1>1. Keeps(revisions[p], revisions'[p])
  BY AppendKeeps
<1>2. reservations'[p] = IF p = o THEN r ELSE reservations[p]
  BY DEF TypeOK, SaveReservation, UpdateReservation
<1> QED
  BY <1>1, <1>2 DEF RowStep

\* Every step treats the row of an order so.
LEMMA RowsAreOrderly ==
  ASSUME TypeOK, Owned, [Next]_vars, NEW o \in Orders
  PROVE  RowStep(o)
<1>k. ReserveKey(o) \in Keys
  BY KeyTypes
<1>t. \A p \in Orders : reservations[p] \in ReservationType
  BY DEF TypeOK
<1>1. ASSUME NEW u \in Users, OpenAccount(u) PROVE RowStep(o)
  BY <1>1, SameRow DEF OpenAccount
<1>2. ASSUME NEW p \in Orders, NEW u \in Users, NEW amount \in Amounts, Reserve(p, u, amount)
      PROVE  RowStep(o)
  <2> DEFINE row == OpenRow("HELD", u, amount, amount, NoAssignment)
  <2>1. CASE FirstReserve(p, u, amount) = "OK"
    <3>1. reservations[p].status = "NONE" /\ SaveReservation(p, row)
      BY <1>2, <2>1 DEF Reserve, FirstReserve
    <3>2. amount \in Int /\ row \in ReservationType /\ row.status = "HELD"
      BY AmountAssumption DEF OpenRow, ReservationType
    <3>3. Keeps(revisions[o], revisions'[o])
      BY <3>1, <3>2, AppendKeeps
    <3>4. CASE o = p
      <4>1. HoldTaken(o)
        BY <1>2, <2>1, <3>4 DEF HoldTaken
      <4> QED
        BY <3>1, <3>3, <3>4, <4>1 DEF RowStep, Terminal
    <3>5. CASE o # p
      <4>1. reservations'[o] = reservations[o] /\ revisions'[o] = revisions[o]
        BY <3>1, <3>5 DEF TypeOK, SaveReservation, UpdateReservation
      <4>2. operations'[ReserveKey(o)] = operations[ReserveKey(o)]
        BY <1>2, <1>k, <3>5, KeyTypes, SaveIsLocal DEF Reserve, ReserveKey
      <4> QED
        BY <4>1, <4>2, SameRow
    <3> QED
      BY <3>4, <3>5
  <2>2. CASE FirstReserve(p, u, amount) # "OK"
    <3>1. UNCHANGED <<reservations, revisions>> /\
          SaveInsufficient(ReserveKey(p), Payload(u, amount, "NONE"))
      BY <1>2, <2>2 DEF Reserve
    <3>2. operations'[ReserveKey(o)].status = "DONE" => operations[ReserveKey(o)].status = "DONE"
      BY <1>k, <3>1 DEF TypeOK, SaveInsufficient
    <3> QED
      BY <3>1, <3>2, SameRow
  <2> QED
    BY <2>1, <2>2
<1>3. ASSUME NEW p \in Orders, NEW a \in Assignments, NEW c \in Users, NEW amount \in Amounts,
             AdjustReservation(p, a, c, amount)
      PROVE  RowStep(o)
  <2> DEFINE r == reservations[p]
             row == OpenRow("ASSIGNED", r.requester, r.original, amount, a)
  <2>1. operations'[ReserveKey(o)] = operations[ReserveKey(o)]
    BY <1>3, <1>k, KeyTypes, KeysDiffer, SaveIsLocal DEF AdjustReservation
  <2>2. CASE FirstAdjust(p, a, amount) = "OK"
    <3>1. r.status = "HELD" /\ SaveReservation(p, row)
      BY <1>3, <1>t, <2>2 DEF AdjustReservation, FirstAdjust, ReservationType
    <3>2. /\ row \in ReservationType /\ row.status = "ASSIGNED"
          /\ row.requester = r.requester /\ row.original = r.original
      BY <1>t, AmountAssumption DEF OpenRow, ReservationType
    <3> HIDE DEF row
    <3> QED
      BY <2>1, <3>1, <3>2, WrittenRow DEF Taken, Terminal
  <2>3. CASE FirstAdjust(p, a, amount) # "OK"
    BY <1>3, <2>1, <2>3, SameRow DEF AdjustReservation
  <2> QED
    BY <2>2, <2>3
<1>4. ASSUME NEW p \in Orders, NEW a \in Assignments, RevertAdjustment(p, a)
      PROVE  RowStep(o)
  <2> DEFINE r == reservations[p]
             row == RevertedRow(r)
  <2>1. operations'[ReserveKey(o)] = operations[ReserveKey(o)]
    BY <1>4, <1>k, KeyTypes, KeysDiffer, SaveIsLocal DEF RevertAdjustment
  <2>2. CASE UNCHANGED <<reservations, revisions>>
    BY <2>1, <2>2, SameRow
  <2>3. CASE r.status = "ASSIGNED" /\ SaveReservation(p, row)
    <3>1. /\ row \in ReservationType /\ row.status = "HELD"
          /\ row.requester = r.requester /\ row.original = r.original
      BY <1>t DEF RevertedRow, OpenRow, ReservationType
    <3> HIDE DEF row
    <3> QED
      BY <2>1, <2>3, <3>1, WrittenRow DEF Taken, Terminal
  <2> QED
    BY <1>4, <2>2, <2>3 DEF RevertAdjustment
<1>5. ASSUME NEW p \in Orders, NEW reason \in Reasons, Release(p, reason),
             operations'[ReserveKey(o)] = operations[ReserveKey(o)]
      PROVE  RowStep(o)
  <2> DEFINE r == reservations[p]
             row == ClosedRow(r, "RELEASED", "RELEASED", reason, 0)
  <2>1. CASE Releasable(r) /\ SaveReservation(p, row)
    <3>1. /\ row \in ReservationType /\ row.status = "RELEASED"
          /\ row.requester = r.requester /\ row.original = r.original
      BY <1>t DEF ClosedRow, ReservationType
    <3> HIDE DEF row
    <3> QED
      BY <1>5, <2>1, <3>1, WrittenRow DEF Taken, Terminal, Releasable
  <2>2. CASE UNCHANGED <<reservations, revisions>>
    BY <1>5, <2>2, SameRow
  <2> QED
    BY <1>5, <2>1, <2>2 DEF Release
<1>6. ASSUME NEW p \in Orders, NEW reason \in Reasons, ReleaseReservation(p, reason)
      PROVE  RowStep(o)
  <2>1. operations'[ReserveKey(o)] = operations[ReserveKey(o)]
    BY <1>6, <1>k, KeyTypes, SaveIsLocal DEF ReleaseReservation, ReserveKey, ReleaseKey
  <2> QED
    BY <1>5, <1>6, <2>1 DEF ReleaseReservation
<1>7. ASSUME NEW p \in Orders, NEW u \in Users, NEW reason \in Reasons, ApplyRelease(p, u, reason)
      PROVE  RowStep(o)
  BY <1>5, <1>7 DEF ApplyRelease
<1>8. ASSUME NEW p \in Orders, NEW u \in Users, NEW c \in Users, NEW type \in PayoutTypes,
             NEW elapsed \in Elapsed, Settle(p, u, c, type, elapsed)
      PROVE  RowStep(o)
  <2> DEFINE r == reservations[p]
             n == LatenessPayout(assignments[p][r.assignment].offer, type, elapsed, Allowed)
             row == ClosedRow(r, "SETTLED", type, "NONE", n)
  <2>1. /\ r.status = "ASSIGNED" /\ n \in 0..r.reserved /\ SaveReservation(p, row)
        /\ operations' = operations
    BY <1>8 DEF Settle
  <2> HIDE DEF n
  <2>2. /\ row \in ReservationType /\ row.status = "SETTLED"
        /\ row.requester = r.requester /\ row.original = r.original
    BY <1>t, <2>1 DEF ClosedRow, ReservationType
  <2> HIDE DEF row
  <2> QED
    BY <2>1, <2>2, WrittenRow DEF Taken, Terminal
<1>9. CASE UNCHANGED vars
  BY <1>9, SameRow DEF vars
<1> QED
  BY <1>1, <1>2, <1>3, <1>4, <1>6, <1>7, <1>8, <1>9 DEF Next

\* Every step treats the offer of an assignment so.
LEMMA OffersAreOrderly ==
  ASSUME TypeOK, [Next]_vars, NEW o \in Orders, NEW a \in Assignments
  PROVE  OfferStep(o, a)
<1>k. AdjustKey(o, a) \in Keys /\ RevertKey(o, a) \in Keys
  BY KeyTypes
<1>t. \A p \in Orders, b \in Assignments : assignments[p][b] \in OfferType
  BY DEF TypeOK
<1>1. CASE /\ assignments' = assignments
           /\ operations'[AdjustKey(o, a)] = operations[AdjustKey(o, a)]
           /\ operations'[RevertKey(o, a)] = operations[RevertKey(o, a)]
  BY <1>1, SameOffer
<1>2. ASSUME NEW p \in Orders, NEW u \in Users, NEW amount \in Amounts, Reserve(p, u, amount)
      PROVE  OfferStep(o, a)
  <2>1. /\ operations'[AdjustKey(o, a)] = operations[AdjustKey(o, a)]
        /\ operations'[RevertKey(o, a)] = operations[RevertKey(o, a)]
    BY <1>2, <1>k, KeyTypes, KeysDiffer, SaveIsLocal DEF Reserve
  <2> QED
    BY <1>1, <1>2, <2>1 DEF Reserve
<1>3. ASSUME NEW p \in Orders, NEW b \in Assignments, NEW c \in Users, NEW amount \in Amounts,
             AdjustReservation(p, b, c, amount)
      PROVE  OfferStep(o, a)
  <2>1. operations'[RevertKey(o, a)] = operations[RevertKey(o, a)]
    BY <1>3, <1>k, KeyTypes, KeysDiffer, SaveIsLocal DEF AdjustReservation
  <2>2. CASE FirstAdjust(p, b, amount) = "OK" /\ o = p /\ a = b
    <3>1. OfferTaken(o, a)
      BY <1>3, <2>2 DEF OfferTaken
    <3>2. assignments[o][a].status = "NONE"
      BY <1>3, <2>2 DEF AdjustReservation, FirstAdjust, Reverted
    <3> QED
      BY <2>1, <3>1, <3>2 DEF OfferStep
  <2>3. CASE FirstAdjust(p, b, amount) = "OK" /\ (o # p \/ a # b)
    <3>1. operations'[AdjustKey(o, a)] = operations[AdjustKey(o, a)]
      BY <1>3, <1>k, <2>3, KeyTypes, KeysDiffer, SaveIsLocal DEF AdjustReservation
    <3>2. assignments'[o][a] = assignments[o][a]
      BY <1>3, <2>3 DEF AdjustReservation, SaveOffer, TypeOK
    <3> QED
      BY <2>1, <3>1, <3>2, SameOffer
  <2>4. CASE FirstAdjust(p, b, amount) # "OK"
    <3>1. /\ assignments' = assignments
          /\ SaveInsufficient(AdjustKey(p, b), Payload(c, amount, "NONE"))
      BY <1>3, <2>4 DEF AdjustReservation
    <3>2. operations'[AdjustKey(o, a)].status = "DONE" =>
            operations[AdjustKey(o, a)].status = "DONE"
      BY <1>k, <3>1 DEF SaveInsufficient, TypeOK
    <3> QED
      BY <2>1, <3>1, <3>2, SameOffer
  <2> QED
    BY <2>2, <2>3, <2>4
<1>4. ASSUME NEW p \in Orders, NEW b \in Assignments, RevertAdjustment(p, b)
      PROVE  OfferStep(o, a)
  <2>1. operations'[AdjustKey(o, a)] = operations[AdjustKey(o, a)]
    BY <1>4, <1>k, KeyTypes, KeysDiffer, SaveIsLocal DEF RevertAdjustment
  <2>2. CASE o = p /\ a = b
    <3>1. assignments'[o][a] = RevertedOffer(assignments[o][a])
      BY <1>4, <2>2 DEF RevertAdjustment, SaveOffer, TypeOK
    <3> QED
      BY <1>t, <2>1, <3>1 DEF OfferStep, RevertedOffer, Offer
  <2>3. CASE o # p \/ a # b
    <3>1. operations'[RevertKey(o, a)] = operations[RevertKey(o, a)]
      BY <1>4, <1>k, <2>3, KeyTypes, KeysDiffer, SaveIsLocal DEF RevertAdjustment
    <3>2. assignments'[o][a] = assignments[o][a]
      BY <1>4, <2>3 DEF RevertAdjustment, SaveOffer, TypeOK
    <3> QED
      BY <2>1, <3>1, <3>2, SameOffer
  <2> QED
    BY <2>2, <2>3
<1>5. ASSUME NEW p \in Orders, NEW reason \in Reasons, ReleaseReservation(p, reason)
      PROVE  OfferStep(o, a)
  <2>1. /\ operations'[AdjustKey(o, a)] = operations[AdjustKey(o, a)]
        /\ operations'[RevertKey(o, a)] = operations[RevertKey(o, a)]
    BY <1>5, <1>k, KeyTypes, KeysDiffer, SaveIsLocal DEF ReleaseReservation
  <2> QED
    BY <1>1, <1>5, <2>1 DEF ReleaseReservation
<1>6. ASSUME NEW u \in Users, OpenAccount(u) PROVE OfferStep(o, a)
  BY <1>1, <1>6 DEF OpenAccount
<1>7. ASSUME NEW p \in Orders, NEW u \in Users, NEW reason \in Reasons, ApplyRelease(p, u, reason)
      PROVE  OfferStep(o, a)
  BY <1>1, <1>7 DEF ApplyRelease
<1>8. ASSUME NEW p \in Orders, NEW u \in Users, NEW c \in Users, NEW type \in PayoutTypes,
             NEW elapsed \in Elapsed, Settle(p, u, c, type, elapsed)
      PROVE  OfferStep(o, a)
  BY <1>1, <1>8 DEF Settle
<1>9. CASE UNCHANGED vars
  BY <1>1, <1>9 DEF vars
<1> QED
  BY <1>2, <1>3, <1>4, <1>5, <1>6, <1>7, <1>8, <1>9 DEF Next

-----------------------------------------------------------------------------
(* What the records of calls say *)

\* A hold was reserved, and the record of that call shows the hold it made.
ReserveKept(o) ==
  LET k == operations[ReserveKey(o)]
      r == reservations[o] IN
  /\ r.status \in Taken => k.status = "DONE"
  /\ k.status = "DONE" =>
       /\ r.status # "NONE" /\ r.requester = k.payload.user /\ r.original = k.payload.amount
       /\ k.revision \in 1..Len(revisions[o])
       /\ revisions[o][k.revision].status = "HELD"
       /\ revisions[o][k.revision].requester = k.payload.user
       /\ revisions[o][k.revision].reserved = k.payload.amount

\* An applied offer was adjusted to, and the record shows that adjustment.
AdjustKept(o, a) ==
  LET k == operations[AdjustKey(o, a)]
      offer == assignments[o][a] IN
  /\ offer.status = "APPLIED" => k.status = "DONE"
  /\ k.status = "DONE" =>
       /\ offer.status # "NONE" /\ offer.courier = k.payload.user
       /\ offer.offer = k.payload.amount
       /\ k.revision \in 1..Len(revisions[o])
       /\ revisions[o][k.revision].status = "ASSIGNED"
       /\ revisions[o][k.revision].assignment = a
       /\ revisions[o][k.revision].reserved = k.payload.amount

\* An acknowledged revert has fenced its offer off.
RevertKept(o, a) ==
  operations[RevertKey(o, a)].status = "DONE" => assignments[o][a].status = "REVERTED"

\* With TypeInv and Books, the inductive invariant of the records.
RecordsKept ==
  \A o \in Orders :
    ReserveKept(o) /\ \A a \in Assignments : AdjustKept(o, a) /\ RevertKept(o, a)

\* A record of a reserve stays true, and a new one is true when it is written.
LEMMA ReserveStaysKept ==
  ASSUME TypeOK, Owned, TypeOK', [Next]_vars, NEW o \in Orders, ReserveKept(o)
  PROVE  ReserveKept(o)'
<1>1. RowStep(o)
  BY RowsAreOrderly
<1>2. ReserveKey(o) \in Keys
  BY KeyTypes
<1>3. CASE HoldTaken(o)
  <2>1. PICK u \in Users, amount \in Amounts :
          Reserve(o, u, amount) /\ FirstReserve(o, u, amount) = "OK"
    BY <1>3 DEF HoldTaken
  <2> DEFINE row == OpenRow("HELD", u, amount, amount, NoAssignment)
  <2>2. SaveReservation(o, row) /\ SaveOperation(ReserveKey(o), Payload(u, amount, "NONE"))
    BY <2>1 DEF Reserve
  <2>3. row \in ReservationType
    BY AmountAssumption DEF OpenRow, ReservationType
  <2>4. /\ row.status = "HELD" /\ row.requester = u /\ row.original = amount
        /\ row.reserved = amount
    BY DEF OpenRow
  <2>5. reservations'[o] = row
    BY <2>2 DEF SaveReservation, UpdateReservation, TypeOK
  <2>6. /\ operations'[ReserveKey(o)].status = "DONE"
        /\ operations'[ReserveKey(o)].payload = Payload(u, amount, "NONE")
        /\ operations'[ReserveKey(o)].revision = Len(revisions'[o])
    BY <1>2, <2>2, KeyTypes DEF SaveOperation, TypeOK
  <2>7. Len(revisions'[o]) \in 1..Len(revisions'[o]) /\ revisions'[o][Len(revisions'[o])] = row
    <3>1. Len(revisions[o]) \in Nat
      BY DEF TypeOK
    <3> QED
      BY <2>2, <2>3, <3>1, AppendKeeps
  <2>8. Payload(u, amount, "NONE").user = u /\ Payload(u, amount, "NONE").amount = amount
    BY DEF Payload
  <2> HIDE DEF row
  <2> QED
    BY <2>4, <2>5, <2>6, <2>7, <2>8 DEF ReserveKept
<1>4. CASE ~HoldTaken(o)
  <2>1. operations[ReserveKey(o)].status = "DONE" =>
          operations'[ReserveKey(o)] = operations[ReserveKey(o)]
    BY <1>2, OutcomesAreWrittenOnce DEF Recorded
  <2>2. Len(revisions[o]) \in Nat /\ Len(revisions'[o]) \in Nat
    BY DEF TypeOK
  <2>3. CASE operations'[ReserveKey(o)].status # "DONE"
    BY <1>1, <1>4, <2>1, <2>3 DEF ReserveKept, RowStep
  <2>4. CASE operations'[ReserveKey(o)].status = "DONE"
    <3>1. operations[ReserveKey(o)].status = "DONE"
      BY <1>1, <1>4, <2>4 DEF RowStep
    <3>2. PICK k : k = operations[ReserveKey(o)]
      OBVIOUS
    <3>3. operations'[ReserveKey(o)] = k /\ k.status = "DONE"
      BY <2>1, <3>1, <3>2
    <3>4. /\ reservations[o].status # "NONE" /\ reservations[o].requester = k.payload.user
          /\ reservations[o].original = k.payload.amount
          /\ k.revision \in 1..Len(revisions[o]) /\ revisions[o][k.revision].status = "HELD"
          /\ revisions[o][k.revision].requester = k.payload.user
          /\ revisions[o][k.revision].reserved = k.payload.amount
      BY <3>1, <3>2 DEF ReserveKept
    <3>5. /\ reservations'[o].status # "NONE" /\ reservations'[o].requester = reservations[o].requester
          /\ reservations'[o].original = reservations[o].original
      BY <1>1, <3>4 DEF RowStep
    <3>6. Keeps(revisions[o], revisions'[o])
      BY <1>1 DEF RowStep
    <3>7. k.revision \in 1..Len(revisions'[o]) /\ revisions'[o][k.revision] = revisions[o][k.revision]
      BY <2>2, <3>4, <3>6 DEF Keeps
    <3> QED
      BY <3>3, <3>4, <3>5, <3>7 DEF ReserveKept
  <2> QED
    BY <2>3, <2>4
<1> QED
  BY <1>3, <1>4

\* So do the records of an adjustment and of a revert.
LEMMA AdjustStaysKept ==
  ASSUME TypeOK, Owned, TypeOK', [Next]_vars, NEW o \in Orders, NEW a \in Assignments,
         AdjustKept(o, a)
  PROVE  AdjustKept(o, a)'
<1>1. OfferStep(o, a) /\ RowStep(o)
  BY OffersAreOrderly, RowsAreOrderly
<1>2. AdjustKey(o, a) \in Keys
  BY KeyTypes
<1>3. CASE OfferTaken(o, a)
  <2>1. PICK c \in Users, amount \in Amounts :
          AdjustReservation(o, a, c, amount) /\ FirstAdjust(o, a, amount) = "OK"
    BY <1>3 DEF OfferTaken
  <2> DEFINE r == reservations[o]
             row == OpenRow("ASSIGNED", r.requester, r.original, amount, a)
  <2>2. /\ SaveReservation(o, row) /\ SaveOffer(o, a, Offer("APPLIED", c, amount))
        /\ SaveOperation(AdjustKey(o, a), Payload(c, amount, "NONE"))
    BY <2>1 DEF AdjustReservation
  <2>3. row \in ReservationType
    BY AmountAssumption DEF OpenRow, ReservationType, TypeOK
  <2>4. row.status = "ASSIGNED" /\ row.assignment = a /\ row.reserved = amount
    BY DEF OpenRow
  <2>5. /\ assignments'[o][a].status = "APPLIED" /\ assignments'[o][a].courier = c
        /\ assignments'[o][a].offer = amount
    BY <2>2 DEF SaveOffer, Offer, TypeOK
  <2>6. /\ operations'[AdjustKey(o, a)].status = "DONE"
        /\ operations'[AdjustKey(o, a)].payload = Payload(c, amount, "NONE")
        /\ operations'[AdjustKey(o, a)].revision = Len(revisions'[o])
    BY <1>2, <2>2, KeyTypes DEF SaveOperation, TypeOK
  <2>7. Len(revisions'[o]) \in 1..Len(revisions'[o]) /\ revisions'[o][Len(revisions'[o])] = row
    <3>1. Len(revisions[o]) \in Nat
      BY DEF TypeOK
    <3> QED
      BY <2>2, <2>3, <3>1, AppendKeeps
  <2>8. Payload(c, amount, "NONE").user = c /\ Payload(c, amount, "NONE").amount = amount
    BY DEF Payload
  <2> HIDE DEF row
  <2> QED
    BY <2>4, <2>5, <2>6, <2>7, <2>8 DEF AdjustKept
<1>4. CASE ~OfferTaken(o, a)
  <2>1. operations[AdjustKey(o, a)].status = "DONE" =>
          operations'[AdjustKey(o, a)] = operations[AdjustKey(o, a)]
    BY <1>2, OutcomesAreWrittenOnce DEF Recorded
  <2>2. Len(revisions[o]) \in Nat /\ Len(revisions'[o]) \in Nat
    BY DEF TypeOK
  <2>3. CASE operations'[AdjustKey(o, a)].status # "DONE"
    BY <1>1, <1>4, <2>1, <2>3 DEF AdjustKept, OfferStep
  <2>4. CASE operations'[AdjustKey(o, a)].status = "DONE"
    <3>1. operations[AdjustKey(o, a)].status = "DONE"
      BY <1>1, <1>4, <2>4 DEF OfferStep
    <3>2. PICK k : k = operations[AdjustKey(o, a)]
      OBVIOUS
    <3>3. operations'[AdjustKey(o, a)] = k /\ k.status = "DONE"
      BY <2>1, <3>1, <3>2
    <3>4. /\ assignments[o][a].status # "NONE" /\ assignments[o][a].courier = k.payload.user
          /\ assignments[o][a].offer = k.payload.amount
          /\ k.revision \in 1..Len(revisions[o]) /\ revisions[o][k.revision].status = "ASSIGNED"
          /\ revisions[o][k.revision].assignment = a
          /\ revisions[o][k.revision].reserved = k.payload.amount
      BY <3>1, <3>2 DEF AdjustKept
    <3>5. /\ assignments'[o][a].status # "NONE" /\ assignments'[o][a].courier = assignments[o][a].courier
          /\ assignments'[o][a].offer = assignments[o][a].offer
      BY <1>1, <3>4 DEF OfferStep
    <3>6. Keeps(revisions[o], revisions'[o])
      BY <1>1 DEF RowStep
    <3>7. k.revision \in 1..Len(revisions'[o]) /\ revisions'[o][k.revision] = revisions[o][k.revision]
      BY <2>2, <3>4, <3>6 DEF Keeps
    <3> QED
      BY <3>3, <3>4, <3>5, <3>7 DEF AdjustKept
  <2> QED
    BY <2>3, <2>4
<1> QED
  BY <1>3, <1>4

\* The records of every call are right in every reachable state.
THEOREM RecordsHold == Spec => [](TypeInv /\ Books /\ RecordsKept)
<1>1. Init => RecordsKept
  <2> SUFFICES ASSUME Init, NEW o \in Orders
               PROVE  ReserveKept(o) /\ \A a \in Assignments : AdjustKept(o, a) /\ RevertKept(o, a)
    BY DEF RecordsKept
  <2>1. /\ operations[ReserveKey(o)].status = "NONE"
        /\ \A a \in Assignments : /\ operations[AdjustKey(o, a)].status = "NONE"
                                  /\ operations[RevertKey(o, a)].status = "NONE"
    BY KeyTypes DEF Init, NoOperation
  <2>2. /\ reservations[o].status = "NONE"
        /\ \A a \in Assignments : assignments[o][a].status = "NONE"
    BY DEF Init, NoReservation, OpenRow, NoOffer, Offer
  <2> QED
    BY <2>1, <2>2 DEF ReserveKept, AdjustKept, RevertKept, Taken
<1>2. TypeInv /\ TypeInv' /\ RecordsKept /\ [Next]_vars => RecordsKept'
  <2> SUFFICES ASSUME TypeOK, Owned, TypeOK', RecordsKept, [Next]_vars, NEW o \in Orders
               PROVE  /\ ReserveKept(o)'
                      /\ \A a \in Assignments : AdjustKept(o, a)' /\ RevertKept(o, a)'
    BY DEF TypeInv, RecordsKept
  <2>1. ReserveKept(o)'
    BY ReserveStaysKept DEF RecordsKept
  <2>2. ASSUME NEW a \in Assignments PROVE AdjustKept(o, a)'
    BY AdjustStaysKept DEF RecordsKept
  <2>3. ASSUME NEW a \in Assignments PROVE RevertKept(o, a)'
    <3>1. OfferStep(o, a) /\ RevertKept(o, a)
      BY OffersAreOrderly DEF RecordsKept
    <3> QED
      BY <3>1 DEF OfferStep, RevertKept
  <2> QED
    BY <2>1, <2>2, <2>3
<1> QED
  BY <1>1, <1>2, BooksHold, PTL DEF Spec

\* A call that is replayed with OK had its effect, in every reachable state:
\* what checkReplay answers from the record is what the first call did.
THEOREM Replays == Spec => []ReplayTruthful
<1>1. TypeInv /\ Books /\ RecordsKept => ReplayTruthful
  <2> SUFFICES ASSUME TypeOK, Books, RecordsKept,
                      NEW o \in Orders, NEW u \in Users, NEW amount \in Amounts
               PROVE  /\ Recorded(ReserveKey(o)) /\ ReserveAnswer(o, u, amount) = "OK" =>
                           LET r == revisions[o][operations[ReserveKey(o)].revision] IN
                           /\ r.status = "HELD" /\ r.requester = u /\ r.reserved = amount
                           /\ reservations[o].requester = u /\ reservations[o].original = amount
                      /\ \A a \in Assignments :
                           Recorded(AdjustKey(o, a)) /\ AdjustAnswer(o, a, u, amount) = "OK" =>
                             LET r == revisions[o][operations[AdjustKey(o, a)].revision] IN
                             /\ r.status = "ASSIGNED" /\ r.assignment = a /\ r.reserved = amount
                             /\ assignments[o][a] = Offer("APPLIED", u, amount)
                             /\ reservations[o].assignment = a
    BY DEF TypeInv, ReplayTruthful
  <2>1. ASSUME Recorded(ReserveKey(o)), ReserveAnswer(o, u, amount) = "OK"
        PROVE  /\ operations[ReserveKey(o)].status = "DONE"
               /\ operations[ReserveKey(o)].payload = Payload(u, amount, "NONE")
    <3>1. operations[ReserveKey(o)] \in OperationType
      BY KeyTypes DEF TypeOK
    <3> QED
      BY <2>1, <3>1 DEF ReserveAnswer, Answer, ReplayAnswer, Recorded, OperationType
  <2>2. ASSUME NEW a \in Assignments, Recorded(AdjustKey(o, a)),
               AdjustAnswer(o, a, u, amount) = "OK"
        PROVE  /\ operations[AdjustKey(o, a)].status = "DONE"
               /\ operations[AdjustKey(o, a)].payload = Payload(u, amount, "NONE")
               /\ reservations[o].status # "RELEASED" /\ assignments[o][a].status # "REVERTED"
    <3>1. operations[AdjustKey(o, a)] \in OperationType
      BY KeyTypes DEF TypeOK
    <3>2. AdjustKey(o, a)[1] = "ADJUST" /\ AdjustKey(o, a)[2] = o /\ AdjustKey(o, a)[3] = a
      BY DEF AdjustKey
    <3>3. ReplayAnswer(AdjustKey(o, a)) = "OK"
      BY <2>2 DEF AdjustAnswer, Answer
    <3> QED
      BY <2>2, <3>1, <3>2, <3>3
      DEF AdjustAnswer, Answer, ReplayAnswer, Reverted, Recorded, OperationType
  <2>3. Payload(u, amount, "NONE").user = u /\ Payload(u, amount, "NONE").amount = amount
    BY DEF Payload
  <2>4. ASSUME NEW a \in Assignments, operations[AdjustKey(o, a)].status = "DONE",
               reservations[o].status # "RELEASED", assignments[o][a].status # "REVERTED"
        PROVE  reservations[o].assignment = a /\ assignments[o][a].status = "APPLIED"
    <3>1. reservations[o] \in ReservationType /\ assignments[o][a] \in OfferType
      BY DEF TypeOK
    <3>2. assignments[o][a].status = "APPLIED"
      BY <2>4, <3>1 DEF RecordsKept, AdjustKept, OfferType
    <3>3. Agrees(reservations[o], assignments[o])
      BY AgreeIsPerOrder DEF Books
    <3>4. a \in {b \in Assignments : assignments[o][b].status = "APPLIED"}
      BY <3>2
    <3> QED
      BY <2>4, <3>1, <3>2, <3>3, <3>4 DEF Agrees, ReservationType
  <2>5. ASSUME NEW a \in Assignments, Recorded(AdjustKey(o, a)),
               AdjustAnswer(o, a, u, amount) = "OK"
        PROVE  assignments[o][a] = Offer("APPLIED", u, amount)
    <3>1. assignments[o][a] \in OfferType
      BY DEF TypeOK
    <3>2. /\ assignments[o][a].status = "APPLIED" /\ assignments[o][a].courier = u
          /\ assignments[o][a].offer = amount
      BY <2>2, <2>3, <2>4, <2>5 DEF RecordsKept, AdjustKept
    <3> QED
      BY <3>1, <3>2 DEF OfferType, Offer
  <2> QED
    BY <2>1, <2>2, <2>3, <2>4, <2>5 DEF RecordsKept, ReserveKept, AdjustKept
<1> QED
  BY <1>1, RecordsHold, PTL

-----------------------------------------------------------------------------
(* What Credit has decided *)

\* A refused reserve or adjustment is never carried out later: its record
\* stays, and no hold or offer exists without a record that says DONE.
THEOREM Refusals == Spec => RefusedStaysRefused
<1> DEFINE Inv == TypeInv /\ Books /\ RecordsKept
           Refused == \A o \in Orders :
             /\ operations[ReserveKey(o)].status = "INSUFFICIENT"
                  => reservations'[o].status \in {"NONE", "RELEASED"}
             /\ \A a \in Assignments :
                  operations[AdjustKey(o, a)].status = "INSUFFICIENT"
                    => assignments'[o][a].status # "APPLIED"
<1>1. Inv /\ Inv' /\ [Next]_vars => Refused
  <2> SUFFICES ASSUME TypeOK, TypeOK', RecordsKept', [Next]_vars, NEW o \in Orders
               PROVE  /\ operations[ReserveKey(o)].status = "INSUFFICIENT"
                           => reservations'[o].status \in {"NONE", "RELEASED"}
                      /\ \A a \in Assignments :
                           operations[AdjustKey(o, a)].status = "INSUFFICIENT"
                             => assignments'[o][a].status # "APPLIED"
    BY DEF TypeInv
  <2>1. ASSUME operations[ReserveKey(o)].status = "INSUFFICIENT"
        PROVE  reservations'[o].status \in {"NONE", "RELEASED"}
    <3>1. operations'[ReserveKey(o)].status = "INSUFFICIENT"
      BY <2>1, KeyTypes, OutcomesAreWrittenOnce DEF Recorded
    <3>2. reservations'[o] \in ReservationType
      BY DEF TypeOK
    <3> QED
      BY <3>1, <3>2 DEF RecordsKept, ReserveKept, Taken, ReservationType
  <2>2. ASSUME NEW a \in Assignments, operations[AdjustKey(o, a)].status = "INSUFFICIENT"
        PROVE  assignments'[o][a].status # "APPLIED"
    <3>1. operations'[AdjustKey(o, a)].status = "INSUFFICIENT"
      BY <2>2, KeyTypes, OutcomesAreWrittenOnce DEF Recorded
    <3> QED
      BY <3>1 DEF RecordsKept, AdjustKept
  <2> QED
    BY <2>1, <2>2
<1>2. RefusedStaysRefused <=> [][Refused]_vars
  BY DEF RefusedStaysRefused
<1> HIDE DEF Inv, Refused
<1> QED
  BY <1>1, <1>2, RecordsHold, PTL DEF Spec, Inv

\* No delayed call and no redelivered outcome changes an ended reservation.
THEOREM Endings == Spec => TerminalIsFinal
<1> DEFINE Ended == \A o \in Orders : Terminal(o) => reservations'[o] = reservations[o]
<1>1. TypeInv /\ [Next]_vars => Ended
  BY RowsAreOrderly DEF TypeInv, RowStep
<1>2. TerminalIsFinal <=> [][Ended]_vars
  BY DEF TerminalIsFinal
<1> HIDE DEF Ended
<1> QED
  BY <1>1, <1>2, Typing, PTL DEF Spec

\* A revert that was acknowledged holds, also when the adjustment it undoes
\* arrives after it: the offer is fenced off and the row names another one.
THEOREM Reverts == Spec => RevertIsFinal
<1> DEFINE Inv == TypeInv /\ Books /\ RecordsKept
           Fenced == \A o \in Orders, a \in Assignments :
             operations[RevertKey(o, a)].status = "DONE" =>
               /\ assignments'[o][a].status # "APPLIED"
               /\ reservations'[o].status = "ASSIGNED"
                    => reservations'[o].assignment # a
<1>1. Inv /\ Inv' /\ [Next]_vars => Fenced
  <2> SUFFICES ASSUME TypeOK, RecordsKept, OffersAgree', [Next]_vars,
                      NEW o \in Orders, NEW a \in Assignments,
                      operations[RevertKey(o, a)].status = "DONE"
               PROVE  /\ assignments'[o][a].status # "APPLIED"
                      /\ reservations'[o].status = "ASSIGNED"
                           => reservations'[o].assignment # a
    BY DEF TypeInv, Books
  <2>1. assignments'[o][a].status = "REVERTED"
    BY OffersAreOrderly DEF OfferStep, RecordsKept, RevertKept
  <2>2. a \notin {b \in Assignments : assignments'[o][b].status = "APPLIED"}
    BY <2>1
  <2>3. reservations'[o].status = "ASSIGNED" =>
          {b \in Assignments : assignments'[o][b].status = "APPLIED"}
            = {reservations'[o].assignment}
    BY DEF OffersAgree
  <2> QED
    BY <2>1, <2>2, <2>3
<1>2. RevertIsFinal <=> [][Fenced]_vars
  BY DEF RevertIsFinal
<1> HIDE DEF Inv, Fenced
<1> QED
  BY <1>1, <1>2, RecordsHold, PTL DEF Spec, Inv

\* The three together, as the runs check them.
THEOREM Decisions == Spec => DecisionsFinal
BY Refusals, Endings, Reverts, PTL DEF DecisionsFinal

-----------------------------------------------------------------------------
(* What settlements have moved *)

\* What user u has beyond the starting grant.
Moved(u) == balance[u] - Grant(u)

\* Opening accounts, each with its grant, moves nothing.
LEMMA GrantMovesNothing ==
  ASSUME TypeOK, NEW us, balance' = Granted(us), opened' = opened \cup us, NEW u \in Users
  PROVE  /\ Moved(u)' = Moved(u)
         /\ Moved(u) \in Int /\ Grant(u) \in Int /\ Grant(u)' \in Int
BY AmountAssumption DEF TypeOK, Granted, Moved, Grant

\* A step that settles nothing leaves what every order has moved.
LEMMA EarnedStays ==
  ASSUME TypeOK, Owned, OffersAgree, [Next]_vars, NEW o \in Orders, NEW u \in Users,
         reservations'[o].status = "SETTLED" => reservations[o].status = "SETTLED"
  PROVE  EarnedFrom(o, u)' = EarnedFrom(o, u)
<1>1. CASE reservations[o].status = "SETTLED"
  <2> DEFINE a == reservations[o].assignment
  <2>1. reservations'[o] = reservations[o]
    BY <1>1, RowsAreOrderly DEF RowStep, Terminal
  <2>2. {b \in Assignments : assignments[o][b].status = "APPLIED"} = {a}
    BY <1>1 DEF OffersAgree
  <2>3. a \in Assignments /\ assignments[o][a].status = "APPLIED"
    BY <2>2
  <2>4. assignments'[o][a].courier = assignments[o][a].courier
    BY <2>3, OffersAreOrderly DEF OfferStep
  <2> QED
    BY <2>1, <2>4 DEF EarnedFrom
<1>2. CASE reservations[o].status # "SETTLED"
  BY <1>2 DEF EarnedFrom
<1> QED
  BY <1>1, <1>2

\* An order has moved an amount of credits, whichever user one asks about.
LEMMA EarnedType ==
  ASSUME TypeOK, NEW o \in Orders, NEW u \in Users
  PROVE  EarnedFrom(o, u) \in Int
<1>1. reservations[o].paid \in Int
  BY DEF TypeOK, ReservationType
<1> QED
  BY <1>1 DEF EarnedFrom

\* With TypeInv and Books, the inductive invariant: no balance is unexplained
\* and settlements cancel out over all users.
Explained ==
  /\ \A u \in Users : Moved(u) = SumTo([o \in Orders |-> EarnedFrom(o, u)], OrderCount)
  /\ SumTo([u \in Users |-> Moved(u)], UserCount) = 0

\* Explained is BooksBalance, with the grants on the other side.
LEMMA ExplainedBalances ==
  ASSUME TypeOK, Explained
  PROVE  BooksBalance
<1>1. \A u \in Users : balance[u] \in Int /\ Grant(u) \in Int
  BY AmountAssumption DEF TypeOK, Grant
<1>2. ASSUME NEW u \in Users
      PROVE  balance[u] = Grant(u) + SumTo([o \in Orders |-> EarnedFrom(o, u)], OrderCount)
  <2> DEFINE s == SumTo([o \in Orders |-> EarnedFrom(o, u)], OrderCount)
  <2>1. balance[u] - Grant(u) = s
    BY DEF Explained, Moved
  <2> HIDE DEF s
  <2>2. balance[u] = Grant(u) + s
    BY <1>1, <2>1
  <2> QED
    BY <2>2 DEF s
<1>3. SumTo(balance, UserCount) = SumTo([u \in Users |-> Grant(u)], UserCount)
  <2> DEFINE g == [u \in Users |-> Grant(u)]
             d == [u \in 1..UserCount |-> balance[u] - g[u]]
  <2>1. balance \in [1..UserCount -> Int] /\ g \in [1..UserCount -> Int]
    BY <1>1 DEF TypeOK, Users
  <2>2. d = [u \in Users |-> Moved(u)]
    BY DEF Moved, Users
  <2>3. SumTo(d, UserCount) = 0
    BY <2>2 DEF Explained
  <2> HIDE DEF g
  <2>4. SumTo(d, UserCount) = SumTo(balance, UserCount) - SumTo(g, UserCount)
    BY <2>1, CountsAssumption, SumDifference
  <2>5. SumTo(balance, UserCount) \in Int /\ SumTo(g, UserCount) \in Int
    BY <2>1, CountsAssumption, SumType
  <2> HIDE DEF d
  <2>6. SumTo(balance, UserCount) = SumTo(g, UserCount)
    BY <2>3, <2>4, <2>5
  <2> QED
    BY <2>6 DEF g
<1> QED
  BY <1>2, <1>3 DEF BooksBalance, BalancesExplained, CreditsConserved

\* A step that opens accounts and settles nothing keeps the books explained.
LEMMA QuietStep ==
  ASSUME TypeOK, Owned, OffersAgree, Explained, [Next]_vars,
         NEW us, balance' = Granted(us), opened' = opened \cup us,
         \A o \in Orders :
           reservations'[o].status = "SETTLED" => reservations[o].status = "SETTLED"
  PROVE  Explained'
<1>1. \A u \in Users : Moved(u)' = Moved(u)
  BY GrantMovesNothing
<1>2. \A u \in Users, o \in Orders : EarnedFrom(o, u)' = EarnedFrom(o, u)
  BY EarnedStays
<1>3. [u \in Users |-> Moved(u)'] = [u \in Users |-> Moved(u)]
  BY <1>1
<1>4. \A u \in Users :
        [o \in Orders |-> EarnedFrom(o, u)'] = [o \in Orders |-> EarnedFrom(o, u)]
  BY <1>2
<1> QED
  BY <1>1, <1>3, <1>4 DEF Explained

\* A settlement moves its payment from the requester to the courier.
LEMMA SettleExplained ==
  ASSUME TypeOK, Owned, TypeOK', Books, Explained, [Next]_vars,
         NEW o \in Orders, NEW u \in Users, NEW c \in Users,
         NEW type \in PayoutTypes, NEW elapsed \in Elapsed, Settle(o, u, c, type, elapsed)
  PROVE  Explained'
<1> DEFINE r == reservations[o]
           q == r.requester
           n == LatenessPayout(assignments[o][r.assignment].offer, type, elapsed, Allowed)
           Part(x) == (IF x = c THEN n ELSE 0) - (IF x = q THEN n ELSE 0)
<1>1. /\ r.status = "ASSIGNED" /\ n \in 0..r.reserved /\ opened' = opened \cup {q, c}
      /\ balance' = SettledBalance(r, c, n)
      /\ SaveReservation(o, ClosedRow(r, "SETTLED", type, "NONE", n))
      /\ assignments' = assignments /\ assignments[o][r.assignment].courier = c
  BY DEF Settle
<1>2. q \in Users /\ n \in Int
  <2>1. r.reserved \in Int
    BY DEF TypeOK, ReservationType
  <2> QED
    BY <1>1, <2>1 DEF Owned
<1> HIDE DEF n
<1>3. ASSUME NEW x \in Users
      PROVE  Moved(x)' = Moved(x) + Part(x) /\ Moved(x) \in Int /\ Part(x) \in Int
  <2>1. /\ balance[x] \in Int /\ StartingCredits \in Int
        /\ Granted({q, c})[x] = balance[x] + (IF x \in {q, c} \ opened THEN StartingCredits ELSE 0)
    BY AmountAssumption DEF TypeOK, Granted
  <2>2. balance'[x] = Granted({q, c})[x] - (IF x = q THEN n ELSE 0) + (IF x = c THEN n ELSE 0)
    BY <1>1 DEF SettledBalance
  <2>3. /\ Grant(x) = (IF x \in opened THEN StartingCredits ELSE 0)
        /\ Grant(x)' = (IF x \in opened \/ x \in {q, c} THEN StartingCredits ELSE 0)
    BY <1>1 DEF Grant
  <2> HIDE DEF q
  <2> QED
    BY <1>2, <2>1, <2>2, <2>3 DEF Moved
<1>4. ASSUME NEW x \in Users
      PROVE  Moved(x)' = SumTo([p \in Orders |-> EarnedFrom(p, x)'], OrderCount)
  <2> DEFINE old == [p \in Orders |-> EarnedFrom(p, x)]
             new == [p \in Orders |-> EarnedFrom(p, x)']
  <2>1. old \in [1..OrderCount -> Int] /\ new \in [1..OrderCount -> Int]
    <3>1. \A p \in Orders : EarnedFrom(p, x) \in Int
      BY EarnedType
    <3>2. \A p \in Orders : EarnedFrom(p, x)' \in Int
      <4>1. ASSUME NEW p \in Orders PROVE reservations'[p].paid \in Int
        BY DEF TypeOK, ReservationType
      <4> QED
        BY <4>1 DEF EarnedFrom
    <3> QED
      BY <3>1, <3>2 DEF Orders
  <2>2. \A p \in 1..OrderCount : p # o => new[p] = old[p]
    <3>1. ASSUME NEW p \in Orders, p # o PROVE EarnedFrom(p, x)' = EarnedFrom(p, x)
      <4>1. reservations'[p] = reservations[p]
        BY <1>1, <3>1 DEF SaveReservation, UpdateReservation, TypeOK
      <4> QED
        BY <1>1, <4>1 DEF EarnedFrom
    <3> QED
      BY <3>1 DEF Orders
  <2>3. old[o] = 0 /\ new[o] = Part(x)
    <3>1. reservations'[o] = ClosedRow(r, "SETTLED", type, "NONE", n)
      BY <1>1 DEF SaveReservation, UpdateReservation, TypeOK
    <3>2. /\ reservations'[o].status = "SETTLED" /\ reservations'[o].paid = n
          /\ reservations'[o].requester = q /\ reservations'[o].assignment = r.assignment
      BY <3>1 DEF ClosedRow
    <3>3. EarnedFrom(o, x)' = Part(x)
      BY <1>1, <3>2 DEF EarnedFrom
    <3>4. EarnedFrom(o, x) = 0
      BY <1>1 DEF EarnedFrom
    <3> QED
      BY <3>3, <3>4
  <2>4. Moved(x) = SumTo(old, OrderCount)
    BY DEF Explained
  <2>5. o \in 1..OrderCount
    BY DEF Orders
  <2> HIDE DEF old, new, Part
  <2>6. SumTo(new, OrderCount) = SumTo(old, OrderCount) + new[o] - old[o]
    BY <2>1, <2>2, <2>5, CountsAssumption, SumUpdate
  <2>7. SumTo(new, OrderCount) = Moved(x) + Part(x)
    BY <1>3, <2>3, <2>4, <2>6
  <2>8. SumTo(new, OrderCount) = Moved(x)'
    BY <1>3, <2>7
  <2> QED
    BY <2>8 DEF new
<1>5. SumTo([x \in Users |-> Moved(x)'], UserCount) = 0
  <2> DEFINE m == [x \in Users |-> Moved(x)]
             paid == [x \in Users |-> Moved(x) - (IF x = q THEN n ELSE 0)]
             new == [x \in Users |-> Moved(x)']
  <2>1. /\ m \in [1..UserCount -> Int] /\ paid \in [1..UserCount -> Int]
        /\ new \in [1..UserCount -> Int]
    <3>1. \A x \in Users : Moved(x) \in Int /\ Moved(x)' \in Int
      BY <1>3
    <3> QED
      BY <1>2, <3>1 DEF Users
  <2>2. \A x \in 1..UserCount : x # q => paid[x] = m[x]
    BY <1>2, <1>3 DEF Users
  <2>3. \A x \in 1..UserCount : x # c => new[x] = paid[x]
    BY <1>2, <1>3 DEF Users
  <2>4. m[q] - n = paid[q] /\ paid[c] + n = new[c]
    BY <1>2, <1>3
  <2>5. q \in 1..UserCount /\ c \in 1..UserCount
    BY <1>2 DEF Users
  <2>6. SumTo(m, UserCount) = 0
    BY DEF Explained
  <2> HIDE DEF m, paid, new, q
  <2>7. SumTo(paid, UserCount) = SumTo(m, UserCount) + paid[q] - m[q]
    BY <2>1, <2>2, <2>5, CountsAssumption, SumUpdate
  <2>8. SumTo(new, UserCount) = SumTo(paid, UserCount) + new[c] - paid[c]
    BY <2>1, <2>3, <2>5, CountsAssumption, SumUpdate
  <2>9. /\ m[q] \in Int /\ paid[q] \in Int /\ paid[c] \in Int /\ new[c] \in Int
    BY <2>1, <2>5
  <2>10. SumTo(new, UserCount) = 0
    BY <1>2, <2>4, <2>6, <2>7, <2>8, <2>9
  <2> QED
    BY <2>10 DEF new
<1> QED
  BY <1>4, <1>5 DEF Explained

\* Only a settlement settles: every other step opens accounts at most.
LEMMA OthersAreQuiet ==
  ASSUME TypeOK, Owned, OffersAgree, Explained, [Next]_vars,
         ~ \E o \in Orders, u, c \in Users, type \in PayoutTypes, elapsed \in Elapsed :
             Settle(o, u, c, type, elapsed)
  PROVE  Explained'
<1>1. Granted({}) = balance
  BY AmountAssumption DEF Granted, TypeOK
<1>2. ASSUME NEW p \in Orders, NEW r, r.status # "SETTLED", NEW o \in Orders,
             SaveReservation(p, r)
      PROVE  reservations'[o].status = "SETTLED" => reservations[o].status = "SETTLED"
  BY <1>2 DEF TypeOK, SaveReservation, UpdateReservation
<1>3. ASSUME opened' = opened, balance' = balance,
             \A o \in Orders :
               reservations'[o].status = "SETTLED" => reservations[o].status = "SETTLED"
      PROVE  Explained'
  <2>1. opened' = opened \cup {} /\ balance' = Granted({})
    BY <1>1, <1>3
  <2> QED
    BY <1>3, <2>1, QuietStep
<1>4. ASSUME NEW u \in Users, OpenAccount(u) PROVE Explained'
  BY <1>4, QuietStep DEF OpenAccount
<1>5. ASSUME NEW p \in Orders, NEW u \in Users, NEW amount \in Amounts, Reserve(p, u, amount)
      PROVE  Explained'
  <2>1. OpenRow("HELD", u, amount, amount, NoAssignment).status # "SETTLED"
    BY DEF OpenRow
  <2>2. opened' = opened \cup {u} /\ balance' = Granted({u})
    BY <1>5 DEF Reserve
  <2>3. \A o \in Orders :
          reservations'[o].status = "SETTLED" => reservations[o].status = "SETTLED"
    BY <1>2, <1>5, <2>1 DEF Reserve
  <2> QED
    BY <2>2, <2>3, QuietStep
<1>6. ASSUME NEW p \in Orders, NEW a \in Assignments, NEW c \in Users, NEW amount \in Amounts,
             AdjustReservation(p, a, c, amount)
      PROVE  Explained'
  <2>1. OpenRow("ASSIGNED", reservations[p].requester, reservations[p].original, amount, a).status
          # "SETTLED"
    BY DEF OpenRow
  <2>2. \A o \in Orders :
          reservations'[o].status = "SETTLED" => reservations[o].status = "SETTLED"
    BY <1>2, <1>6, <2>1 DEF AdjustReservation
  <2> QED
    BY <1>3, <1>6, <2>2 DEF AdjustReservation
<1>7. ASSUME NEW p \in Orders, NEW a \in Assignments, RevertAdjustment(p, a) PROVE Explained'
  <2>1. RevertedRow(reservations[p]).status # "SETTLED"
    BY DEF RevertedRow, OpenRow
  <2>2. \A o \in Orders :
          reservations'[o].status = "SETTLED" => reservations[o].status = "SETTLED"
    BY <1>2, <1>7, <2>1 DEF RevertAdjustment
  <2> QED
    BY <1>3, <1>7, <2>2 DEF RevertAdjustment
<1>8. ASSUME NEW p \in Orders, NEW reason \in Reasons,
             ReleaseReservation(p, reason) \/ \E u \in Users : ApplyRelease(p, u, reason)
      PROVE  Explained'
  <2>1. ClosedRow(reservations[p], "RELEASED", "RELEASED", reason, 0).status # "SETTLED"
    BY DEF ClosedRow
  <2>2. Release(p, reason) /\ opened' = opened /\ balance' = balance
    BY <1>8 DEF ReleaseReservation, ApplyRelease
  <2>3. \A o \in Orders :
          reservations'[o].status = "SETTLED" => reservations[o].status = "SETTLED"
    BY <1>2, <2>1, <2>2 DEF Release
  <2> QED
    BY <1>3, <2>2, <2>3
<1>9. CASE UNCHANGED vars
  BY <1>3, <1>9 DEF vars, accountVars
<1> QED
  BY <1>4, <1>5, <1>6, <1>7, <1>8, <1>9 DEF Next

\* Every balance is its grant and what settlements moved, and together the
\* users have what they were granted, in every reachable state.
THEOREM Balances == Spec => []BooksBalance
<1>1. Init => Explained
  <2> SUFFICES ASSUME Init PROVE Explained
    OBVIOUS
  <2>1. \A u \in Users : Moved(u) = 0
    BY DEF Init, Moved, Grant
  <2>2. ASSUME NEW u \in Users
        PROVE  SumTo([o \in Orders |-> EarnedFrom(o, u)], OrderCount) = 0
    <3> DEFINE h == [o \in Orders |-> EarnedFrom(o, u)]
    <3>1. h \in [1..OrderCount -> Int] /\ \A i \in 1..OrderCount : h[i] = 0
      BY DEF Init, EarnedFrom, NoReservation, OpenRow, Orders
    <3> HIDE DEF h
    <3>2. SumTo(h, OrderCount) = 0
      BY <3>1, CountsAssumption, SumZero
    <3> QED
      BY <3>2 DEF h
  <2>3. SumTo([u \in Users |-> Moved(u)], UserCount) = 0
    <3> DEFINE h == [u \in Users |-> Moved(u)]
    <3>1. h \in [1..UserCount -> Int] /\ \A i \in 1..UserCount : h[i] = 0
      BY <2>1 DEF Users
    <3> HIDE DEF h
    <3>2. SumTo(h, UserCount) = 0
      BY <3>1, CountsAssumption, SumZero
    <3> QED
      BY <3>2 DEF h
  <2> QED
    BY <2>1, <2>2, <2>3 DEF Explained
<1>2. TypeInv /\ TypeInv' /\ Books /\ Explained /\ [Next]_vars => Explained'
  BY SettleExplained, OthersAreQuiet DEF TypeInv, Books
<1>3. TypeInv /\ Explained => BooksBalance
  BY ExplainedBalances DEF TypeInv
<1> QED
  BY <1>1, <1>2, <1>3, BooksHold, PTL DEF Spec

-----------------------------------------------------------------------------
(* The escrow *)

\* The pot that the escrow sees in a row.
RowPot(r) == [owner |-> r.requester, held |-> r.reserved,
              state |-> IF r.status \in {"RELEASED", "SETTLED"} THEN "closed" ELSE "open"]

\* The pot of every order is that of its row, and a stored row becomes the pot.
LEMMA PotOfRow ==
  ASSUME TypeOK
  PROVE  /\ \A o \in Orders : Pot[o] = RowPot(reservations[o])
         /\ \A o \in Orders : \A r : SaveReservation(o, r) => Pot' = [Pot EXCEPT ![o] = RowPot(r)]
         /\ reservations' = reservations => Pot' = Pot
<1>1. \A o \in Orders : Pot[o] = RowPot(reservations[o])
  BY DEF Pot, RowPot, Terminal
<1>2. ASSUME NEW o \in Orders, NEW r, SaveReservation(o, r)
      PROVE  Pot' = [Pot EXCEPT ![o] = RowPot(r)]
  <2>1. \A p \in Orders : reservations'[p] = IF p = o THEN r ELSE reservations[p]
    BY <1>2 DEF SaveReservation, UpdateReservation, TypeOK
  <2>2. \A p \in Orders : Pot'[p] = IF p = o THEN RowPot(r) ELSE Pot[p]
    BY <1>1, <2>1 DEF Pot, RowPot, Terminal
  <2>3. DOMAIN Pot' = Orders /\ DOMAIN Pot = Orders
    BY DEF Pot
  <2> QED
    BY <2>2, <2>3 DEF Pot
<1>3. reservations' = reservations => Pot' = Pot
  BY DEF Pot, Terminal
<1> QED
  BY <1>1, <1>2, <1>3

\* A purse is a number of credits; what Available says of the credits a
\* reserve may take is the purse with the grant a first call brings.
LEMMA PurseIs ==
  ASSUME TypeOK, NEW u \in Users
  PROVE  /\ Purse[u] \in Int /\ Purse[u] = balance[u] - reserved[u]
         /\ \A us : Promise!WithGrant(us)[u] = Granted(us)[u] - reserved[u]
         /\ Promise!WithGrant({u})[u] = Available(u)
         /\ Promise!WithGrant({u})[u] \in Int
<1>1. balance[u] \in Int /\ reserved[u] \in Int /\ StartingCredits \in Int
  BY AmountAssumption DEF TypeOK
<1>2. Purse[u] = balance[u] - reserved[u]
  BY DEF Purse
<1>3. ASSUME NEW us PROVE Promise!WithGrant(us)[u] = Granted(us)[u] - reserved[u]
  <2>1. Promise!WithGrant(us)[u] = Purse[u] + (IF u \in us \ opened THEN StartingCredits ELSE 0)
    BY DEF Promise!WithGrant, Promise!Members, Users
  <2>2. Granted(us)[u] = balance[u] + (IF u \in us \ opened THEN StartingCredits ELSE 0)
    BY DEF Granted
  <2> QED
    BY <1>1, <1>2, <2>1, <2>2
<1>4. Promise!WithGrant({u})[u] = Available(u)
  BY <1>3 DEF Available
<1>5. Available(u) \in Int
  BY AvailableIs
<1> QED
  BY <1>1, <1>2, <1>3, <1>4, <1>5

\* Opening an account is joining, with or without a grant.
LEMMA OpeningJoins ==
  ASSUME TypeOK, NEW u \in Users, opened' = opened \cup {u}, balance' = Granted({u}),
         UNCHANGED <<reserved, reservations>>
  PROVE  Promise!EscrowNext
<1>1. Pot' = Pot
  BY PotOfRow
<1>2. ASSUME NEW x \in Users PROVE Purse'[x] = Promise!WithGrant({u})[x]
  BY PurseIs DEF Purse
<1>3. Purse' = Promise!WithGrant({u})
  BY <1>2 DEF Purse, Promise!WithGrant, Promise!Members, Users
<1>4. Promise!Join(u)
  BY <1>1, <1>3 DEF Promise!Join
<1> QED
  BY <1>4 DEF Promise!EscrowNext, Promise!Members, Users

\* A step the escrow does not see.
LEMMA UnseenStep ==
  ASSUME UNCHANGED <<opened, balance, reserved, reservations>>
  PROVE  UNCHANGED Promise!escrowVars
BY DEF Promise!escrowVars, Purse, Pot, Terminal

\* A reserve that is granted takes a pot out of the requester's purse.
LEMMA ReserveTakes ==
  ASSUME TypeOK, Books, NEW o \in Orders, NEW u \in Users, NEW amount \in Amounts,
         Reserve(o, u, amount)
  PROVE  Promise!EscrowNext
<1> DEFINE r == reservations[o]
           row == OpenRow("HELD", u, amount, amount, NoAssignment)
<1>1. opened' = opened \cup {u} /\ balance' = Granted({u})
  BY DEF Reserve
<1>2. CASE FirstReserve(o, u, amount) = "OK"
  <2>1. amount \in Int /\ Available(u) \in Int
    BY AmountAssumption, AvailableIs
  <2>2. amount > 0 /\ r.status = "NONE" /\ amount <= Available(u)
    BY <1>2, <2>1 DEF FirstReserve
  <2>3. SaveReservation(o, row) /\ Hold(u, amount)
    BY <1>2 DEF Reserve
  <2>4. Pot[o] = Promise!NoPot
    <3>1. r.requester = 0 /\ r.reserved = 0
      BY <2>2 DEF Books, RowsSane, Sane, NoUser
    <3>2. Pot[o] = RowPot(r)
      BY PotOfRow
    <3> QED
      BY <2>2, <3>1, <3>2 DEF RowPot, Promise!NoPot, Promise!PotOf
  <2>5. Pot' = [Pot EXCEPT ![o] = Promise!PotOf(u, amount, "open")]
    <3>1. RowPot(row) = Promise!PotOf(u, amount, "open")
      BY DEF RowPot, OpenRow, Promise!PotOf
    <3> QED
      BY <2>3, <3>1, PotOfRow
  <2>6. ASSUME NEW x \in Users
        PROVE  Purse'[x] = [Promise!WithGrant({u}) EXCEPT ![u] = @ - amount][x]
    <3>1. Promise!WithGrant({u})[x] = Granted({u})[x] - reserved[x] /\ reserved[x] \in Int
          /\ Granted({u})[x] \in Int
      BY PurseIs, GrantedBounds DEF TypeOK
    <3>2. reserved'[x] = IF x = u THEN reserved[x] + amount ELSE reserved[x]
      BY <2>3 DEF Hold, TypeOK
    <3>3. Purse'[x] = Granted({u})[x] - reserved'[x]
      BY <1>1 DEF Purse
    <3>4. x \in DOMAIN Promise!WithGrant({u})
      BY DEF Promise!WithGrant, Promise!Members, Users
    <3> QED
      BY <2>1, <3>1, <3>2, <3>3, <3>4
  <2>7. Purse' = [Promise!WithGrant({u}) EXCEPT ![u] = @ - amount]
    BY <2>6 DEF Purse, Promise!WithGrant, Promise!Members, Users
  <2>8. amount \in 1..Promise!WithGrant({u})[u]
    BY <2>1, <2>2, PurseIs
  <2>9. Promise!TakePot(o, u, amount)
    BY <1>1, <2>4, <2>5, <2>7, <2>8 DEF Promise!TakePot
  <2> QED
    BY <2>8, <2>9 DEF Promise!EscrowNext, Promise!Members, Promise!Pots, Users, Orders
<1>3. CASE FirstReserve(o, u, amount) # "OK"
  BY <1>1, <1>3, OpeningJoins DEF Reserve
<1> QED
  BY <1>2, <1>3

\* The owner of an open pot is a user with an account, and its purse is not
\* negative: what Resize and ClosePot need of an open row.
LEMMA OpenPot ==
  ASSUME TypeOK, Books, NEW o \in Orders, reservations[o].status \in {"HELD", "ASSIGNED"}
  PROVE  LET r == reservations[o] IN
         /\ Pot[o].owner = r.requester /\ Pot[o].held = r.reserved /\ Pot[o].state = "open"
         /\ r.requester \in Users /\ r.requester \in opened /\ r.requester # 0
         /\ r.reserved \in Int /\ r.reserved > 0 /\ r.original \in Int /\ r.original > 0
         /\ Purse[r.requester] \in Int /\ Purse[r.requester] >= 0
         /\ Available(r.requester) = Purse[r.requester]
<1> DEFINE r == reservations[o]
           q == r.requester
<1>1. Pot[o] = RowPot(r)
  BY PotOfRow
<1>2. Pot[o].owner = q /\ Pot[o].held = r.reserved /\ Pot[o].state = "open"
  BY <1>1 DEF RowPot
<1>3. q \in Users /\ q \in opened /\ r.reserved > 0 /\ r.original > 0
  BY DEF Books, RowsSane, Sane, Funded
<1>4. q # 0
  BY <1>3 DEF Users
<1>5. r.reserved \in Int /\ r.original \in Int
  BY DEF TypeOK, ReservationType
<1>6. /\ Purse[q] = balance[q] - reserved[q] /\ Purse[q] \in Int
      /\ reserved[q] <= balance[q] /\ reserved[q] \in Int /\ balance[q] \in Int
  BY <1>3, PurseIs DEF Books, Covered, TypeOK
<1>7. Available(q) = balance[q] - reserved[q]
  BY <1>3, AvailableIs
<1> QED
  BY <1>2, <1>3, <1>4, <1>5, <1>6, <1>7

\* A new size of an open hold, out of or back into the requester's purse.
LEMMA HoldResizes ==
  ASSUME TypeOK, Books, NEW o \in Orders, NEW row, NEW n \in Int,
         reservations[o].status \in {"HELD", "ASSIGNED"},
         row.requester = reservations[o].requester, row.reserved = n,
         row.status \in {"HELD", "ASSIGNED"},
         n > 0, n - reservations[o].reserved <= Purse[reservations[o].requester],
         SaveReservation(o, row), Hold(reservations[o].requester, n - reservations[o].reserved),
         UNCHANGED <<opened, balance>>
  PROVE  Promise!EscrowNext
<1> DEFINE r == reservations[o]
           q == r.requester
<1>1. /\ Pot[o].owner = q /\ Pot[o].held = r.reserved /\ Pot[o].state = "open"
      /\ q \in Users /\ q # 0 /\ r.reserved \in Int /\ Purse[q] \in Int
  BY OpenPot
<1>2. Pot' = [Pot EXCEPT ![o] = Promise!PotOf(Pot[o].owner, n, "open")]
  <2>1. RowPot(row) = Promise!PotOf(Pot[o].owner, n, "open")
    BY <1>1 DEF RowPot, Promise!PotOf
  <2> QED
    BY <2>1, PotOfRow
<1>3. ASSUME NEW x \in Users
      PROVE  Purse'[x] = IF x = q THEN Purse[x] + r.reserved - n ELSE Purse[x]
  <2>1. reserved'[x] = IF x = q THEN reserved[x] + (n - r.reserved) ELSE reserved[x]
    BY DEF Hold, TypeOK
  <2>2. /\ Purse[x] = balance[x] - reserved[x] /\ Purse'[x] = balance[x] - reserved'[x]
        /\ reserved[x] \in Int /\ balance[x] \in Int
    BY DEF Purse, TypeOK
  <2> HIDE DEF q
  <2> QED
    BY <1>1, <2>1, <2>2
<1>4. Purse' = [Purse EXCEPT ![q] = @ + r.reserved - n]
  BY <1>3 DEF Purse
<1>5. n \in 1..(Pot[o].held + Purse[Pot[o].owner])
  BY <1>1
<1>6. Promise!Resize(o, n)
  BY <1>1, <1>2, <1>4, <1>5 DEF Promise!Resize
<1> QED
  BY <1>1, <1>5, <1>6 DEF Promise!EscrowNext, Promise!Pots, Orders

\* The end of an open hold: n to user c, the rest back to the requester.
LEMMA EndCloses ==
  ASSUME TypeOK, Books, NEW o \in Orders, NEW row, NEW c \in Users,
         reservations[o].status \in {"HELD", "ASSIGNED"},
         NEW n \in 0..reservations[o].reserved,
         row.requester = reservations[o].requester, row.reserved = 0,
         row.status \in {"RELEASED", "SETTLED"},
         SaveReservation(o, row), Hold(reservations[o].requester, -reservations[o].reserved),
         opened' = opened \cup {c},
         \A x \in Users : balance'[x] = Granted({c})[x]
                            - (IF x = reservations[o].requester THEN n ELSE 0)
                            + (IF x = c THEN n ELSE 0)
  PROVE  Promise!EscrowNext
<1> DEFINE r == reservations[o]
           q == r.requester
<1>1. /\ Pot[o].owner = q /\ Pot[o].held = r.reserved /\ Pot[o].state = "open"
      /\ q \in Users /\ q # 0 /\ r.reserved \in Int /\ n \in Int
  BY OpenPot
<1>2. Pot' = [Pot EXCEPT ![o] = Promise!PotOf(Pot[o].owner, 0, "closed")]
  <2>1. RowPot(row) = Promise!PotOf(Pot[o].owner, 0, "closed")
    BY <1>1 DEF RowPot, Promise!PotOf
  <2> QED
    BY <2>1, PotOfRow
<1> DEFINE New(x) == Promise!WithGrant({c})[x]
                       + (IF x = q THEN r.reserved - n ELSE 0) + (IF x = c THEN n ELSE 0)
<1>3. ASSUME NEW x \in Users PROVE Purse'[x] = New(x)
  <2>1. reserved'[x] = IF x = q THEN reserved[x] + (-r.reserved) ELSE reserved[x]
    BY DEF Hold, TypeOK
  <2>2. balance'[x] = Granted({c})[x] - (IF x = q THEN n ELSE 0) + (IF x = c THEN n ELSE 0)
    OBVIOUS
  <2>3. /\ Promise!WithGrant({c})[x] = Granted({c})[x] - reserved[x]
        /\ Granted({c})[x] \in Int /\ reserved[x] \in Int
        /\ Purse'[x] = balance'[x] - reserved'[x]
    BY PurseIs, GrantedBounds DEF Purse, TypeOK
  <2> HIDE DEF q, r
  <2> QED
    BY <1>1, <2>1, <2>2, <2>3
<1>4. Purse' = [x \in Users |-> New(x)]
  BY <1>3 DEF Purse
<1>5. Promise!ClosePot(o, c, n)
  BY <1>1, <1>2, <1>4 DEF Promise!ClosePot, Promise!Members, Users
<1>6. n \in 0..Pot[o].held
  BY <1>1
<1> QED
  BY <1>5, <1>6 DEF Promise!EscrowNext, Promise!Pots, Promise!Members, Orders, Users

\* Releasing closes the pot without a payment, or forbids one.
LEMMA ReleaseCloses ==
  ASSUME TypeOK, Books, NEW o \in Orders, NEW reason \in Reasons, Release(o, reason),
         UNCHANGED <<opened, balance>>
  PROVE  Promise!EscrowNext \/ UNCHANGED Promise!escrowVars
<1> DEFINE r == reservations[o]
           row == ClosedRow(r, "RELEASED", "RELEASED", reason, 0)
<1>1. row.requester = r.requester /\ row.reserved = 0 /\ row.status = "RELEASED"
  BY DEF ClosedRow
<1>2. CASE r.status = "RELEASED"
  <2>1. UNCHANGED <<reserved, reservations>>
    BY <1>2 DEF Release, Releasable
  <2> QED
    BY <2>1, UnseenStep
<1>3. CASE r.status = "NONE"
  <2>1. SaveReservation(o, row) /\ reserved' = reserved
    BY <1>3 DEF Release, Releasable
  <2>2. r.requester = 0 /\ r.reserved = 0
    BY <1>3 DEF Books, RowsSane, Sane, NoUser
  <2>3. Pot[o] = Promise!NoPot
    <3>1. Pot[o] = RowPot(r)
      BY PotOfRow
    <3> QED
      BY <1>3, <2>2, <3>1 DEF RowPot, Promise!NoPot, Promise!PotOf
  <2>4. RowPot(row) = Promise!PotOf(0, 0, "closed")
    BY <1>1, <2>2 DEF RowPot, Promise!PotOf
  <2>5. Pot' = [Pot EXCEPT ![o] = Promise!PotOf(0, 0, "closed")]
    BY <2>1, <2>4, PotOfRow
  <2>6. Purse' = Purse
    BY <2>1 DEF Purse
  <2>7. Promise!ForbidPot(o)
    BY <2>3, <2>5, <2>6 DEF Promise!ForbidPot
  <2> QED
    BY <2>7 DEF Promise!EscrowNext, Promise!Pots, Orders
<1>4. CASE r.status \in {"HELD", "ASSIGNED"}
  <2>1. SaveReservation(o, row) /\ Hold(r.requester, -r.reserved)
    BY <1>4 DEF Release, Releasable
  <2>2. r.requester \in Users /\ r.requester \in opened /\ r.reserved \in Int /\ r.reserved > 0
    BY <1>4, OpenPot
  <2>3. 0 \in 0..r.reserved
    BY <2>2
  <2>4. opened' = opened \cup {r.requester}
    BY <2>2
  <2>5. ASSUME NEW x \in Users
        PROVE  balance'[x] = Granted({r.requester})[x]
                 - (IF x = r.requester THEN 0 ELSE 0) + (IF x = r.requester THEN 0 ELSE 0)
    <3>1. Granted({r.requester})[x] = balance[x] /\ balance[x] \in Int
      <4>1. x \in {r.requester} \ opened <=> FALSE
        BY <2>2
      <4> QED
        BY <4>1, AmountAssumption DEF Granted, TypeOK
    <3> QED
      BY <3>1
  <2> HIDE DEF row
  <2> QED
    BY <1>1, <1>4, <2>1, <2>2, <2>3, <2>4, <2>5, EndCloses
<1>5. r.status # "SETTLED"
  BY DEF Release, Releasable
<1> QED
  BY <1>2, <1>3, <1>4, <1>5 DEF TypeOK, ReservationType

\* An applied offer resizes the pot within what the requester can add.
LEMMA AdjustResizes ==
  ASSUME TypeOK, Books, NEW o \in Orders, NEW a \in Assignments, NEW c \in Users,
         NEW amount \in Amounts, AdjustReservation(o, a, c, amount)
  PROVE  Promise!EscrowNext \/ UNCHANGED Promise!escrowVars
<1> DEFINE r == reservations[o]
           row == OpenRow("ASSIGNED", r.requester, r.original, amount, a)
<1>1. CASE FirstAdjust(o, a, amount) = "OK"
  <2>1. r \in ReservationType /\ amount \in Int
    BY AmountAssumption DEF TypeOK
  <2>2. amount > 0 /\ r.status = "HELD"
    BY <1>1, <2>1 DEF FirstAdjust, ReservationType
  <2>3. Available(r.requester) = Purse[r.requester] /\ Purse[r.requester] \in Int
        /\ r.reserved \in Int
    BY <2>2, OpenPot
  <2>4. amount - r.reserved <= Purse[r.requester]
    BY <1>1, <2>1, <2>2, <2>3 DEF FirstAdjust
  <2>5. row.requester = r.requester /\ row.reserved = amount /\ row.status = "ASSIGNED"
    BY DEF OpenRow
  <2>6. /\ SaveReservation(o, row) /\ Hold(r.requester, amount - r.reserved)
        /\ UNCHANGED <<opened, balance>>
    BY <1>1 DEF AdjustReservation
  <2> HIDE DEF row
  <2> QED
    BY <2>1, <2>2, <2>4, <2>5, <2>6, HoldResizes
<1>2. CASE FirstAdjust(o, a, amount) # "OK"
  BY <1>2, UnseenStep DEF AdjustReservation
<1> QED
  BY <1>1, <1>2

\* Reverting it gives back down to the original amount.
LEMMA RevertResizes ==
  ASSUME TypeOK, Books, NEW o \in Orders, NEW a \in Assignments, RevertAdjustment(o, a)
  PROVE  Promise!EscrowNext \/ UNCHANGED Promise!escrowVars
<1> DEFINE r == reservations[o]
           row == RevertedRow(r)
<1>1. CASE UNCHANGED <<reserved, reservations>>
  BY <1>1, UnseenStep DEF RevertAdjustment
<1>2. CASE r.status = "ASSIGNED" /\ SaveReservation(o, row)
           /\ Hold(r.requester, r.original - r.reserved)
  <2>1. /\ r.original \in Int /\ r.original > 0 /\ r.reserved \in Int
        /\ Purse[r.requester] \in Int /\ Purse[r.requester] >= 0
    BY <1>2, OpenPot
  <2>2. r.original <= r.reserved
    BY <1>2 DEF Books, OffersAgree
  <2>3. r.original - r.reserved <= Purse[r.requester]
    BY <2>1, <2>2
  <2>4. row.requester = r.requester /\ row.reserved = r.original /\ row.status = "HELD"
    BY DEF RevertedRow, OpenRow
  <2>5. UNCHANGED <<opened, balance>>
    BY DEF RevertAdjustment
  <2> HIDE DEF row
  <2> QED
    BY <1>2, <2>1, <2>3, <2>4, <2>5, HoldResizes
<1> QED
  BY <1>1, <1>2 DEF RevertAdjustment

\* A settlement closes the pot with the payment the lateness leaves.
LEMMA SettleCloses ==
  ASSUME TypeOK, Books, NEW o \in Orders, NEW u \in Users, NEW c \in Users,
         NEW type \in PayoutTypes, NEW elapsed \in Elapsed, Settle(o, u, c, type, elapsed)
  PROVE  Promise!EscrowNext
<1> DEFINE r == reservations[o]
           q == r.requester
           n == LatenessPayout(assignments[o][r.assignment].offer, type, elapsed, Allowed)
           row == ClosedRow(r, "SETTLED", type, "NONE", n)
<1>1. /\ r.status = "ASSIGNED" /\ n \in 0..r.reserved /\ opened' = opened \cup {q, c}
      /\ balance' = SettledBalance(r, c, n) /\ SettledHold(r, n) /\ SaveReservation(o, row)
  BY DEF Settle
<1> HIDE DEF n
<1>2. q \in Users /\ q \in opened /\ r.reserved \in Int
  BY <1>1, OpenPot
<1>3. opened' = opened \cup {c}
  BY <1>1, <1>2
<1>4. Hold(q, -r.reserved)
  <2>1. -n - (r.reserved - n) = -r.reserved
    BY <1>1, <1>2
  <2> QED
    BY <1>1, <2>1 DEF SettledHold
<1>5. ASSUME NEW x \in Users
      PROVE  balance'[x] = Granted({c})[x] - (IF x = q THEN n ELSE 0) + (IF x = c THEN n ELSE 0)
  <2>1. Granted({q, c})[x] = Granted({c})[x]
    <3>1. x \in {q, c} \ opened <=> x \in {c} \ opened
      BY <1>2
    <3> QED
      BY <3>1 DEF Granted
  <2> QED
    BY <1>1, <2>1 DEF SettledBalance
<1>6. row.requester = q /\ row.reserved = 0 /\ row.status = "SETTLED"
  BY DEF ClosedRow
<1> HIDE DEF row
<1> QED
  BY <1>1, <1>3, <1>4, <1>5, <1>6, EndCloses

\* Every step of the credit service, whatever call or event it handles and
\* however late or often, is a step of the escrow or changes nothing there.
THEOREM EscrowImplemented == Spec => ImplementsEscrow
<1>1. Init => Promise!EscrowInit
  <2> SUFFICES ASSUME Init PROVE Promise!EscrowInit
    OBVIOUS
  <2>1. Purse = [u \in Promise!Members |-> 0]
    BY DEF Init, Purse, Promise!Members, Users
  <2>2. Pot = [o \in Promise!Pots |-> Promise!NoPot]
    BY DEF Init, Pot, Promise!Pots, Orders, Terminal, NoReservation, OpenRow, NoUser,
       Promise!NoPot, Promise!PotOf
  <2> QED
    BY <2>1, <2>2 DEF Init, Promise!EscrowInit
<1>2. TypeInv /\ Books /\ [Next]_vars => [Promise!EscrowNext]_(Promise!escrowVars)
  <2> SUFFICES ASSUME TypeOK, Books, [Next]_vars
               PROVE  Promise!EscrowNext \/ UNCHANGED Promise!escrowVars
    BY DEF TypeInv
  <2>1. ASSUME NEW u \in Users, OpenAccount(u) PROVE Promise!EscrowNext
    BY <2>1, OpeningJoins DEF OpenAccount
  <2>2. ASSUME NEW o \in Orders, NEW reason \in Reasons,
               ReleaseReservation(o, reason) \/ \E u \in Users : ApplyRelease(o, u, reason)
        PROVE  Promise!EscrowNext \/ UNCHANGED Promise!escrowVars
    BY <2>2, ReleaseCloses DEF ReleaseReservation, ApplyRelease
  <2>3. CASE UNCHANGED vars
    BY <2>3, UnseenStep DEF vars, accountVars
  <2> QED
    BY <2>1, <2>2, <2>3, ReserveTakes, AdjustResizes, RevertResizes, SettleCloses DEF Next
<1> QED
  BY <1>1, <1>2, BooksHold, PTL DEF Spec, ImplementsEscrow, Promise!EscrowSpec
=============================================================================
