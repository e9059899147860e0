--------------------------- MODULE LifecycleProofs ---------------------------
(***************************************************************************)
(* Proofs about OrderLifecycle, for any assignments, users, amounts,       *)
(* workers and faults. Order and Credit agree although each knows the      *)
(* other only by calls that come late and by reads that are old when they  *)
(* are used. What makes an old read safe is that nothing it relies on can  *)
(* be undone meanwhile: an offer is reverted only by a call that Order     *)
(* sends once it has turned to the revert or the withdrawal, and only an   *)
(* acknowledged revert keeps a delayed adjustment from being applied.      *)
(***************************************************************************)
EXTENDS OrderLifecycle, TLAPS

-----------------------------------------------------------------------------
(* The inductive invariant *)

Row == reservations[This]
OfferAt(a) == assignments[This][a]
Applied(a) == OfferAt(a).status = "APPLIED"

\* Order has asked Credit, or may yet ask it, to revert the attempt.
Reverting(a) ==
  attempts[a].phase \in {"revert_pending", "rejected"} \/ withdrawals[a].status # "none"

\* The courier has the order, or had it when it was closed after the pickup.
Taken ==
  \/ order.status \in {"awaiting_pickup", "delivering", "delivered", "completed"}
  \/ outcome.type \in Bank!PayoutTypes

\* Credit has rows for the order and its attempts.
BankShape ==
  /\ This \in DOMAIN reservations /\ This \in DOMAIN assignments
  /\ DOMAIN assignments[This] = Assignments /\ DOMAIN operations = Bank!Keys
  /\ \A a \in Assignments : OfferAt(a).status \in {"NONE", "APPLIED", "REVERTED"}

\* The reservation: the requester's, of the first reward, held or assigned to
\* the one attempt whose offer is applied.
RowKept ==
  /\ Row.requester = Requester /\ Row.original = Reward
  /\ Row.status \in {"HELD", "ASSIGNED", "RELEASED", "SETTLED"}
  /\ Row.status = "HELD" => Row.reserved = Reward
  /\ Row.status \in {"ASSIGNED", "SETTLED"} => Row.assignment \in Assignments /\ Applied(Row.assignment)
  /\ Row.status = "ASSIGNED" => Row.reserved = attempts[Row.assignment].amount

\* It is closed only by the outcome.
OutcomeKept ==
  /\ outcome.type = "NONE" <=>
       order.status \in {"awaiting_courier", "awaiting_pickup", "delivering", "delivered"}
  /\ Row.status = "RELEASED" => outcome.type \in Bank!Reasons /\ Row.reason = outcome.type
  /\ Row.status = "SETTLED" => outcome.type \in Bank!PayoutTypes /\ Row.outcome = outcome.type

\* An attempt at Credit: its offer is applied to the reservation alone, and
\* reverted only when Order has turned to it.
AttemptKept(a) ==
  /\ Applied(a) => /\ Row.status # "HELD" /\ Row.assignment = a
                   /\ OfferAt(a).courier = attempts[a].courier
  /\ OfferAt(a).status # "NONE" => attempts[a].phase # "none"
  /\ Bank!Reverted(This, a) => Reverting(a)
  /\ operations[Bank!RevertKey(This, a)].status # "NONE" => Bank!Reverted(This, a)
  /\ attempts[a].phase # "none" => attempts[a].original = Reward
  /\ attempts[a].phase = "rejected" => Bank!Reverted(This, a)
  /\ attempts[a].phase = "succeeded" =>
       order.assignment = a \/ withdrawals[a].status = "succeeded"
  /\ withdrawals[a].status # "none" => attempts[a].phase = "succeeded"
  /\ withdrawals[a].status = "succeeded" => Bank!Reverted(This, a)

AttemptsKept == \A a \in Assignments : AttemptKept(a)

\* An open order offers what it held at first; a taken one is its attempt's,
\* and stays applied at Credit unless the courier withdraws.
OrderKept ==
  /\ order.status = "awaiting_courier" =>
       order.reward = Reward /\ order.held = Reward /\ order.assignment = NoAssignment
  /\ Taken =>
       /\ order.assignment \in Assignments
       /\ attempts[order.assignment].phase = "succeeded"
       /\ order.courier = attempts[order.assignment].courier
       /\ order.reward = attempts[order.assignment].amount /\ order.held = order.reward
       /\ withdrawals[order.assignment].status = IF order.withdrawing THEN "pending" ELSE "none"
       /\ ~order.withdrawing => Applied(order.assignment)
  /\ outcome.type \in Bank!PayoutTypes => outcome.courier = order.courier

\* An offer that is being accepted is the one its attempt is about.
OffersKept ==
  /\ OffersDecided
  /\ \A i \in DOMAIN offers : offers[i].status = "accepting" =>
       offers[i].attempt \in Assignments /\ attempts[offers[i].attempt].offer = i

\* A call is about an attempt, and a revert about one that is being reverted.
CallKept(call) ==
  /\ call[2] \in Assignments /\ attempts[call[2]].phase # "none"
  /\ call[1] # "ADJUST" => Reverting(call[2])

\* What a worker relies on. It reads behind a revert only once the offer is
\* fenced, and an assignment it has read was applied.
WorkerKept(p) ==
  p.pc # "idle" =>
    /\ CallKept(CallOf(p))
    /\ p.kind = "withdrawal" => p.phase # "adjustment_pending"
    /\ p.pc \in {"calling", "reading"} => p.view = Unknown
    /\ p.phase # "adjustment_pending" /\ (p.pc = "reading" \/ p.view.row.requester = Requester) =>
         Bank!Reverted(This, p.id)
    /\ p.view.row.status = "ASSIGNED" =>
         p.view.row.assignment \in Assignments /\ OfferAt(p.view.row.assignment).status # "NONE"

RunKept == (\A w \in Workers : WorkerKept(worker[w])) /\ (\A call \in sent : CallKept(call))

LifecycleHold ==
  /\ LifecycleTypeOK /\ BankShape /\ RowKept /\ OutcomeKept /\ AttemptsKept /\ OrderKept
  /\ OffersKept /\ RunKept

\* The part of the invariant that relates the order to Credit.
CoreHold == BankShape /\ RowKept /\ OutcomeKept /\ AttemptsKept /\ OrderKept

\* What nobody takes back: an attempt, its turn to the revert, its offer at
\* Credit and the fence.
Lasting ==
  \A a \in Assignments :
    /\ attempts[a].phase # "none" => attempts'[a].phase # "none"
    /\ Reverting(a) => Reverting(a)'
    /\ OfferAt(a).status # "NONE" => OfferAt(a)'.status # "NONE"
    /\ Bank!Reverted(This, a) => Bank!Reverted(This, a)'

\* The order and its requester exist at Credit.
LEMMA Exist ==
  /\ This \in Bank!Orders /\ Requester \in Bank!Users /\ Requester # Bank!NoUser
  /\ \A a \in Assignments : Bank!RevertKey(This, a) \in Bank!Keys /\ Bank!AdjustKey(This, a) \in Bank!Keys
BY CountsAssumption
DEF This, Requester, Bank!Orders, Bank!Users, Bank!NoUser, Bank!Keys, Bank!RevertKey, Bank!AdjustKey

\* The invariant contains what the runs check.
LEMMA HoldImplies ==
  ASSUME LifecycleHold
  PROVE  AssignmentsAgree /\ OutcomeAccepted
<1>1. AssignedIsFunded
  <2>1. SUFFICES ASSUME Committed
                 PROVE  /\ Row.status = "ASSIGNED" /\ Row.assignment = order.assignment
                        /\ OfferAt(Row.assignment).courier = order.courier
                        /\ Row.reserved = order.reward /\ order.held = order.reward
    BY DEF AssignedIsFunded, Row, OfferAt
  <2>2. Taken /\ ~order.withdrawing /\ outcome.type = "NONE"
    BY <2>1 DEF Committed, Taken, LifecycleHold, LifecycleTypeOK, OutcomeKept
  <2>3. /\ order.assignment \in Assignments /\ Applied(order.assignment)
        /\ order.courier = attempts[order.assignment].courier
        /\ order.reward = attempts[order.assignment].amount /\ order.held = order.reward
    BY <2>2 DEF LifecycleHold, OrderKept
  <2>4. AttemptKept(order.assignment)
    BY <2>3 DEF LifecycleHold, AttemptsKept
  <2>5. Row.status # "HELD" /\ Row.assignment = order.assignment
        /\ OfferAt(order.assignment).courier = order.courier
    BY <2>3, <2>4 DEF AttemptKept
  <2>6. Row.status = "ASSIGNED"
    BY <2>2, <2>5 DEF LifecycleHold, RowKept, OutcomeKept, Bank!Reasons, Bank!PayoutTypes
  <2> QED
    BY <2>3, <2>5, <2>6 DEF LifecycleHold, RowKept
<1>2. OpenIsFunded
  <2>1. SUFFICES ASSUME order.status = "awaiting_courier", \A a \in Assignments : ~Active(a)
                 PROVE  Row.status = "HELD" /\ Row.reserved = order.reward /\ order.held = order.reward
    BY DEF OpenIsFunded, Row
  <2>2. order.reward = Reward /\ order.held = Reward /\ order.assignment = NoAssignment
    BY <2>1 DEF LifecycleHold, OrderKept
  <2>3. ASSUME NEW a \in Assignments, Applied(a)
        PROVE  FALSE
    <3>1. AttemptKept(a) /\ ~Bank!Reverted(This, a)
      BY <2>3 DEF LifecycleHold, AttemptsKept, Applied, OfferAt, Bank!Reverted
    <3>2. attempts[a].phase \in {"succeeded", "rejected"}
      BY <2>1, <2>3, <3>1 DEF LifecycleHold, LifecycleTypeOK, Phases, AttemptKept, Applied, Active
    <3>3. a # NoAssignment
      BY AssignmentAssumption
    <3> QED
      BY <2>2, <3>1, <3>2, <3>3 DEF AttemptKept
  <2>4. Row.status = "HELD"
    BY <2>1, <2>3 DEF LifecycleHold, RowKept, OutcomeKept, Bank!Reasons, Bank!PayoutTypes
  <2> QED
    BY <2>2, <2>4 DEF LifecycleHold, RowKept
<1>3. RejectedIsFenced
  BY DEF LifecycleHold, AttemptsKept, AttemptKept, RejectedIsFenced
<1>4. OutcomeAccepted
  <2>1. ASSUME outcome.type \in Bank!Reasons
        PROVE  Row.status \in {"HELD", "ASSIGNED"} \/ (Row.status = "RELEASED" /\ Row.reason = outcome.type)
    BY <2>1 DEF LifecycleHold, RowKept, OutcomeKept, Bank!Reasons, Bank!PayoutTypes
  <2>2. ASSUME outcome.type \in Bank!PayoutTypes
        PROVE  /\ Row.status = "ASSIGNED" \/ (Row.status = "SETTLED" /\ Row.outcome = outcome.type)
               /\ OfferAt(Row.assignment).courier = outcome.courier
    <3>1. Taken /\ ~order.withdrawing
      BY <2>2 DEF Taken, LifecycleHold, LifecycleTypeOK, OutcomeKept, Bank!PayoutTypes
    <3>2. /\ order.assignment \in Assignments /\ Applied(order.assignment)
          /\ outcome.courier = attempts[order.assignment].courier
      BY <2>2, <3>1 DEF LifecycleHold, OrderKept
    <3>3. Row.status # "HELD" /\ Row.assignment = order.assignment
          /\ OfferAt(order.assignment).courier = attempts[order.assignment].courier
      BY <3>2 DEF LifecycleHold, AttemptsKept, AttemptKept
    <3> QED
      BY <2>2, <3>2, <3>3 DEF LifecycleHold, RowKept, OutcomeKept, Bank!Reasons, Bank!PayoutTypes
  <2> QED
    BY <2>1, <2>2 DEF OutcomeAccepted, Row, OfferAt
<1> QED
  BY <1>1, <1>2, <1>3, <1>4 DEF AssignmentsAgree, LifecycleHold, OffersKept

\* The order has just been opened, on the hold of its reward.
LEMMA InitHolds ==
  ASSUME LifecycleInit
  PROVE  LifecycleHold
<1>1. /\ DOMAIN operations = Bank!Keys /\ DOMAIN reservations = Bank!Orders
      /\ DOMAIN assignments = Bank!Orders /\ DOMAIN assignments[This] = Assignments
      /\ DOMAIN attempts = Assignments /\ DOMAIN withdrawals = Assignments
      /\ DOMAIN offers = Couriers \cup Assignments /\ DOMAIN worker = Workers
      /\ Row = Bank!OpenRow("HELD", Requester, Reward, Reward, NoAssignment)
  BY Exist DEF LifecycleInit, Row
<1>2. \A a \in Assignments :
        /\ attempts[a] = NoAttempt /\ OfferAt(a) = Bank!NoOffer
        /\ withdrawals[a] = Withdrawal("none", 0, FALSE)
  BY Exist DEF LifecycleInit, OfferAt
<1>3. \A a \in Assignments : operations[Bank!RevertKey(This, a)].status = "NONE"
  BY Exist DEF LifecycleInit, Bank!RevertKey, Bank!NoOperation
<1>4. \A w \in Workers : worker[w] = Idle
  BY DEF LifecycleInit
<1>5. /\ order = Order("awaiting_courier", Bank!NoUser, Reward, Reward, NoAssignment, FALSE)
      /\ outcome = NoOutcome /\ sent = {} /\ faults = 0
      /\ \A i \in DOMAIN offers : offers[i].status = "none"
  BY DEF LifecycleInit, OfferRow
<1>6. LifecycleTypeOK
  <2>1. \A a \in Assignments : attempts[a].phase = "none" /\ attempts[a].courier = Bank!NoUser
                               /\ withdrawals[a].status = "none"
    BY <1>2 DEF NoAttempt, Attempt, Withdrawal
  <2>2. \A w \in Workers : worker[w].pc = "idle"
    BY <1>4 DEF Idle, Processing
  <2>3. faults \in 0..MaxFaults
    BY <1>5, CountsAssumption
  <2> QED
    BY <1>1, <1>5, <2>1, <2>2, <2>3 DEF LifecycleTypeOK, Order, NoOutcome, Statuses, Phases
<1>7. BankShape
  <2>1. \A a \in Assignments : OfferAt(a).status = "NONE"
    <3>1. Bank!NoOffer.status = "NONE"
      BY DEF Bank!NoOffer, Bank!Offer
    <3> QED
      BY <1>2, <3>1
  <2>2. This \in DOMAIN reservations /\ This \in DOMAIN assignments
    BY <1>1, Exist
  <2> QED
    BY <1>1, <2>1, <2>2 DEF BankShape
<1>8. RowKept
  BY <1>1 DEF RowKept, Bank!OpenRow
<1>9. OutcomeKept
  BY <1>1, <1>5 DEF OutcomeKept, Order, NoOutcome, Bank!OpenRow
<1>10. ASSUME NEW a \in Assignments
       PROVE  AttemptKept(a)
  BY <1>2, <1>3 DEF AttemptKept, Applied, NoAttempt, Attempt, Withdrawal, Bank!NoOffer, Bank!Offer,
                    OfferAt, Bank!Reverted
<1>11. OrderKept
  BY <1>5 DEF OrderKept, Taken, Order, NoOutcome, Bank!PayoutTypes
<1>12. OffersKept
  BY <1>5 DEF OffersKept, OffersDecided
<1>13. RunKept
  BY <1>4, <1>5 DEF RunKept, WorkerKept, Idle, Processing
<1> QED
  BY <1>6, <1>7, <1>8, <1>9, <1>10, <1>11, <1>12, <1>13 DEF LifecycleHold, AttemptsKept

-----------------------------------------------------------------------------
(* Calls at Credit *)

\* A call that leaves the order's rows at Credit alone.
LEMMA BankUntouched ==
  ASSUME CoreHold, UNCHANGED localVars, Row' = Row, UNCHANGED <<assignments>>,
         This \in DOMAIN reservations', DOMAIN operations' = Bank!Keys,
         \A a \in Assignments :
           operations'[Bank!RevertKey(This, a)] = operations[Bank!RevertKey(This, a)]
  PROVE  CoreHold' /\ Lasting
<1>1. BankShape' /\ RowKept' /\ OutcomeKept' /\ OrderKept'
  BY DEF CoreHold, BankShape, RowKept, OutcomeKept, OrderKept, localVars, OfferAt, Applied, Taken
<1>2. ASSUME NEW a \in Assignments
      PROVE  AttemptKept(a)'
  BY DEF CoreHold, AttemptsKept, AttemptKept, localVars, OfferAt, Applied, Bank!Reverted, Reverting
<1> QED
  BY <1>1, <1>2 DEF CoreHold, AttemptsKept, Lasting, localVars, OfferAt, Bank!Reverted, Reverting

\* AdjustReservation applies the attempt's offer to a held reservation, or
\* records that credits are missing.
LEMMA AdjustHolds ==
  ASSUME CoreHold, UNCHANGED localVars, NEW a \in Assignments, attempts[a].phase # "none",
         Bank!AdjustReservation(This, a, attempts[a].courier, attempts[a].amount)
  PROVE  CoreHold' /\ Lasting
<1> DEFINE amount == attempts[a].amount
           courier == attempts[a].courier
<1>1. /\ DOMAIN operations' = Bank!Keys
      /\ \A b \in Assignments : operations'[Bank!RevertKey(This, b)] = operations[Bank!RevertKey(This, b)]
  <2>1. \E r : operations' = [operations EXCEPT ![Bank!AdjustKey(This, a)] = r]
    BY DEF Bank!AdjustReservation, Bank!SaveOperation, Bank!SaveInsufficient
  <2>2. \A b \in Assignments : Bank!RevertKey(This, b) # Bank!AdjustKey(This, a)
    BY DEF Bank!RevertKey, Bank!AdjustKey
  <2> QED
    BY <2>1, <2>2, Exist DEF CoreHold, BankShape
<1>2. CASE UNCHANGED <<reservations, assignments>>
  <2>1. Row' = Row /\ This \in DOMAIN reservations'
    BY <1>2 DEF Row, CoreHold, BankShape
  <2> QED
    BY <1>1, <1>2, <2>1, BankUntouched
<1>3. CASE /\ Bank!FirstAdjust(This, a, amount) = "OK"
           /\ assignments' = [assignments EXCEPT ![This][a] = Bank!Offer("APPLIED", courier, amount)]
           /\ reservations' = [reservations EXCEPT ![This] =
                Bank!OpenRow("ASSIGNED", Row.requester, Row.original, amount, a)]
  <2>1. Row.status = "HELD" /\ OfferAt(a).status = "NONE"
    BY <1>3 DEF CoreHold, RowKept, BankShape, Row, OfferAt, Bank!FirstAdjust, Bank!Reverted
  <2>2. Row' = Bank!OpenRow("ASSIGNED", Row.requester, Row.original, amount, a)
    BY <1>3 DEF CoreHold, BankShape, Row
  <2>3. /\ OfferAt(a)' = Bank!Offer("APPLIED", courier, amount)
        /\ \A b \in Assignments \ {a} : OfferAt(b)' = OfferAt(b)
        /\ DOMAIN assignments'[This] = Assignments
        /\ This \in DOMAIN reservations' /\ This \in DOMAIN assignments'
    BY <1>3 DEF CoreHold, BankShape, OfferAt
  <2>4. \A b \in Assignments : ~Applied(b)
    BY <2>1 DEF CoreHold, AttemptsKept, AttemptKept
  <2>5. BankShape'
    BY <1>1, <2>3 DEF CoreHold, BankShape, Bank!Offer
  <2>6. Applied(a)' /\ \A b \in Assignments \ {a} : ~Applied(b)'
    BY <2>3, <2>4 DEF Applied, Bank!Offer
  <2>7. RowKept'
    BY <2>2, <2>6 DEF CoreHold, RowKept, Bank!OpenRow, localVars
  <2>8. OutcomeKept'
    BY <2>2 DEF CoreHold, OutcomeKept, Bank!OpenRow, localVars
  <2>9. ASSUME NEW b \in Assignments
        PROVE  AttemptKept(b)'
    <3>1. Bank!Reverted(This, b)' <=> Bank!Reverted(This, b)
      BY <2>1, <2>3 DEF Bank!Reverted, OfferAt, Bank!Offer
    <3>2. AttemptKept(b)
      BY DEF CoreHold, AttemptsKept
    <3>3. Applied(b)' => Row'.status # "HELD" /\ Row'.assignment = b /\ OfferAt(b)'.courier = attempts'[b].courier
      BY <2>2, <2>3, <2>6 DEF Bank!OpenRow, Bank!Offer, localVars
    <3>4. OfferAt(b)'.status # "NONE" => attempts'[b].phase # "none"
      BY <2>3, <3>2 DEF AttemptKept, localVars
    <3> QED
      BY <1>1, <3>1, <3>2, <3>3, <3>4 DEF AttemptKept, localVars, Reverting
  <2>10. OrderKept'
    <3>1. Taken => order.withdrawing
      BY <2>4 DEF CoreHold, OrderKept
    <3> QED
      BY <3>1 DEF CoreHold, OrderKept, localVars, Taken
  <2>11. Lasting
    <3>1. \A b \in Assignments : Bank!Reverted(This, b) => Bank!Reverted(This, b)'
      BY <2>1, <2>3 DEF Bank!Reverted, OfferAt
    <3>2. \A b \in Assignments : OfferAt(b).status # "NONE" => OfferAt(b)'.status # "NONE"
      BY <2>1, <2>3
    <3> QED
      BY <3>1, <3>2 DEF Lasting, localVars, Reverting
  <2> QED
    BY <2>5, <2>7, <2>8, <2>9, <2>10, <2>11 DEF CoreHold, AttemptsKept
<1> QED
  BY <1>2, <1>3 DEF Bank!AdjustReservation, Bank!SaveOffer, Bank!SaveReservation, Bank!UpdateReservation, Row

\* RevertAdjustment fences the offer, and gives the hold back if it was applied.
LEMMA RevertHolds ==
  ASSUME CoreHold, UNCHANGED localVars, NEW a \in Assignments, attempts[a].phase # "none",
         Reverting(a), Bank!RevertAdjustment(This, a)
  PROVE  CoreHold' /\ Lasting /\ Bank!Reverted(This, a)'
<1>1. /\ assignments' = [assignments EXCEPT ![This][a] = Bank!RevertedOffer(OfferAt(a))]
      /\ \/ /\ Applied(a) /\ Row.status = "ASSIGNED" /\ Row.assignment = a
            /\ reservations' = [reservations EXCEPT ![This] = Bank!RevertedRow(Row)]
         \/ /\ ~(Applied(a) /\ Row.status = "ASSIGNED" /\ Row.assignment = a)
            /\ UNCHANGED reservations
  BY DEF Bank!RevertAdjustment, Bank!SaveOffer, Bank!SaveReservation, Bank!UpdateReservation,
         Row, OfferAt, Applied
<1>2. Row.status \in {"HELD", "ASSIGNED", "RELEASED"}
  BY DEF CoreHold, RowKept, Row, Bank!RevertAdjustment, Bank!FirstRevert
<1>3. /\ DOMAIN operations' = Bank!Keys
      /\ \A b \in Assignments \ {a} :
           operations'[Bank!RevertKey(This, b)] = operations[Bank!RevertKey(This, b)]
  <2>1. \E r : operations' = [operations EXCEPT ![Bank!RevertKey(This, a)] = r]
    BY DEF Bank!RevertAdjustment, Bank!SaveOperation
  <2>2. \A b \in Assignments \ {a} : Bank!RevertKey(This, b) # Bank!RevertKey(This, a)
    BY DEF Bank!RevertKey
  <2> QED
    BY <2>1, <2>2, Exist DEF CoreHold, BankShape
<1>4. /\ OfferAt(a)' = Bank!RevertedOffer(OfferAt(a))
      /\ \A b \in Assignments \ {a} : OfferAt(b)' = OfferAt(b)
      /\ DOMAIN assignments'[This] = Assignments
      /\ This \in DOMAIN reservations' /\ This \in DOMAIN assignments'
  BY <1>1 DEF CoreHold, BankShape, OfferAt
<1>5. OfferAt(a)'.status = "REVERTED" /\ Bank!Reverted(This, a)'
  BY <1>4 DEF Bank!RevertedOffer, Bank!Offer, Bank!Reverted, OfferAt
<1>6. \A b \in Assignments \ {a} : Bank!Reverted(This, b)' <=> Bank!Reverted(This, b)
  BY <1>4 DEF Bank!Reverted, OfferAt
<1>7. ~Applied(a)' /\ \A b \in Assignments \ {a} : Applied(b)' <=> Applied(b)
  BY <1>4, <1>5 DEF Applied
<1>8. BankShape'
  BY <1>3, <1>4, <1>5 DEF CoreHold, BankShape
<1>9. \/ Row' = Bank!RevertedRow(Row) /\ Row.assignment = a /\ Row.status = "ASSIGNED" /\ Applied(a)
      \/ Row' = Row /\ (Row.status = "ASSIGNED" => Row.assignment # a)
  <2>1. CASE Applied(a) /\ Row.status = "ASSIGNED" /\ Row.assignment = a
    BY <1>1, <2>1 DEF CoreHold, BankShape, Row
  <2>2. CASE ~(Applied(a) /\ Row.status = "ASSIGNED" /\ Row.assignment = a)
    <3>1. Row' = Row
      BY <1>1, <2>2 DEF Row
    <3> QED
      BY <2>2, <3>1 DEF CoreHold, RowKept
  <2> QED
    BY <2>1, <2>2
<1>10. RowKept'
  <2>1. CASE Row' = Bank!RevertedRow(Row)
    BY <2>1 DEF CoreHold, RowKept, Bank!RevertedRow, Bank!OpenRow
  <2>2. CASE Row' = Row /\ (Row.status = "ASSIGNED" => Row.assignment # a)
    BY <1>2, <1>7, <2>2 DEF CoreHold, RowKept, localVars
  <2> QED
    BY <1>9, <2>1, <2>2
<1>11. OutcomeKept'
  BY <1>9 DEF CoreHold, OutcomeKept, Bank!RevertedRow, Bank!OpenRow, localVars
<1>12. ASSUME NEW b \in Assignments
       PROVE  AttemptKept(b)'
  <2>1. AttemptKept(b) /\ AttemptKept(a)
    BY DEF CoreHold, AttemptsKept
  <2>2. Applied(b)' => Row'.status # "HELD" /\ Row'.assignment = b /\ OfferAt(b)'.courier = attempts'[b].courier
    <3>1. SUFFICES ASSUME Applied(b)'
                   PROVE  Row' = Row /\ b # a /\ Applied(b) /\ OfferAt(b)' = OfferAt(b)
      BY <2>1 DEF AttemptKept, localVars
    <3>2. b # a /\ Applied(b) /\ OfferAt(b)' = OfferAt(b)
      BY <1>4, <1>7, <3>1
    <3>3. Row.assignment # a
      BY <2>1, <3>2 DEF AttemptKept
    <3> QED
      BY <1>9, <3>2, <3>3
  <2>3. OfferAt(b)'.status # "NONE" => attempts'[b].phase # "none"
    BY <1>4, <2>1 DEF AttemptKept, localVars
  <2>4. Bank!Reverted(This, b)' => Reverting(b)'
    BY <1>6, <2>1 DEF AttemptKept, localVars, Reverting
  <2>5. operations'[Bank!RevertKey(This, b)].status # "NONE" => Bank!Reverted(This, b)'
    BY <1>3, <1>5, <1>6, <2>1 DEF AttemptKept
  <2>6. Bank!Reverted(This, b) => Bank!Reverted(This, b)'
    BY <1>5, <1>6
  <2> QED
    BY <2>1, <2>2, <2>3, <2>4, <2>5, <2>6 DEF AttemptKept, localVars
<1>13. OrderKept'
  <2>1. ASSUME Taken, ~order.withdrawing
        PROVE  Applied(order.assignment)'
    <3>1. /\ order.assignment \in Assignments /\ attempts[order.assignment].phase = "succeeded"
          /\ withdrawals[order.assignment].status = "none" /\ Applied(order.assignment)
      BY <2>1 DEF CoreHold, OrderKept
    <3>2. order.assignment # a
      BY <3>1 DEF Reverting
    <3> QED
      BY <1>7, <3>1, <3>2 DEF localVars
  <2> QED
    BY <2>1 DEF CoreHold, OrderKept, localVars, Taken
<1>14. Lasting
  BY <1>4, <1>5, <1>6 DEF Lasting, localVars, Reverting
<1> QED
  BY <1>5, <1>8, <1>10, <1>11, <1>12, <1>13, <1>14 DEF CoreHold, AttemptsKept

\* A call does what Credit finds to do. A revert that is acknowledged, for the
\* first time or again, has fenced the offer.
LEMMA DeliverHolds ==
  ASSUME CoreHold, UNCHANGED localVars, NEW call, CallKept(call), Deliver(call)
  PROVE  /\ CoreHold' /\ Lasting
         /\ call[1] = "REVERT" /\ AnswerOf(call) = "OK" => Bank!Reverted(This, call[2])'
<1> DEFINE a == call[2]
<1>1. a \in Assignments /\ attempts[a].phase # "none" /\ AttemptKept(a)
  BY DEF CallKept, CoreHold, AttemptsKept
<1>2. CASE call[1] = "ADJUST" /\ Bank!AdjustReservation(This, a, attempts[a].courier, attempts[a].amount)
  BY <1>1, <1>2, AdjustHolds
<1>3. CASE call[1] = "REVERT" /\ Bank!RevertAdjustment(This, a)
  <2>1. Reverting(a)
    BY <1>3 DEF CallKept
  <2> QED
    BY <1>1, <1>3, <2>1, RevertHolds
<1>4. CASE UNCHANGED bankVars
  <2>1. Row' = Row /\ This \in DOMAIN reservations' /\ DOMAIN operations' = Bank!Keys
        /\ UNCHANGED <<assignments, operations>>
    BY <1>4 DEF bankVars, Row, CoreHold, BankShape
  <2>2. CoreHold' /\ Lasting
    BY <2>1, BankUntouched
  <2>3. ASSUME call[1] = "REVERT", AnswerOf(call) = "OK",
               Bank!NoEffect(Bank!RevertKey(This, a), Bank!FirstRevert(This))
        PROVE  Bank!Reverted(This, a)'
    <3>1. Bank!Recorded(Bank!RevertKey(This, a))
      BY <2>3 DEF AnswerOf, Bank!RevertAnswer, Bank!Answer, Bank!NoEffect
    <3>2. Bank!Reverted(This, a)
      BY <1>1, <3>1 DEF AttemptKept, Bank!Recorded
    <3> QED
      BY <2>1, <3>2 DEF Bank!Reverted
  <2>4. call[1] = "REVERT" =>
          \/ Bank!RevertAdjustment(This, a)
          \/ Bank!NoEffect(Bank!RevertKey(This, a), Bank!FirstRevert(This))
    BY DEF Deliver
  <2> QED
    BY <1>3, <2>2, <2>3, <2>4
<1>5. Bank!NoEffect(Bank!AdjustKey(This, a), Bank!FirstAdjust(This, a, attempts[a].amount)) => UNCHANGED bankVars
  BY DEF Bank!NoEffect, Bank!vars, Bank!accountVars, bankVars
<1>6. Bank!NoEffect(Bank!RevertKey(This, a), Bank!FirstRevert(This)) => UNCHANGED bankVars
  BY DEF Bank!NoEffect, Bank!vars, Bank!accountVars, bankVars
<1> QED
  BY <1>2, <1>3, <1>4, <1>5, <1>6 DEF Deliver

\* The outcome releases or settles the reservation, once.
LEMMA OutcomeHolds ==
  ASSUME CoreHold, ApplyOutcome
  PROVE  CoreHold' /\ Lasting
<1>1. UNCHANGED localVars /\ UNCHANGED <<assignments, operations>>
  BY DEF ApplyOutcome, Bank!ApplyRelease, Bank!Settle
<1>2. \/ /\ outcome.type \in Bank!Reasons
         /\ Row' = Bank!ClosedRow(Row, "RELEASED", "RELEASED", outcome.type, 0)
      \/ /\ outcome.type \in Bank!PayoutTypes /\ Row.status = "ASSIGNED"
         /\ \E paid : Row' = Bank!ClosedRow(Row, "SETTLED", outcome.type, "NONE", paid)
  <2>1. CASE outcome.type \in Bank!Reasons /\ Bank!ApplyRelease(This, Requester, outcome.type)
    <3>1. reservations' = [reservations EXCEPT ![This] =
            Bank!ClosedRow(Row, "RELEASED", "RELEASED", outcome.type, 0)]
      BY <2>1 DEF Bank!ApplyRelease, Bank!Release, Bank!Releasable, Bank!SaveReservation,
                  Bank!UpdateReservation, Row
    <3> QED
      BY <2>1, <3>1 DEF CoreHold, BankShape, Row
  <2>2. CASE /\ outcome.type \in Bank!PayoutTypes
             /\ \E elapsed \in Elapsed :
                  Bank!Settle(This, Requester, outcome.courier, outcome.type, elapsed)
    <3>1. Row.status = "ASSIGNED" /\ \E paid : reservations' = [reservations EXCEPT ![This] =
            Bank!ClosedRow(Row, "SETTLED", outcome.type, "NONE", paid)]
      BY <2>2 DEF Bank!Settle, Bank!SaveReservation, Bank!UpdateReservation, Row
    <3> QED
      BY <2>2, <3>1 DEF CoreHold, BankShape, Row
  <2> QED
    BY <2>1, <2>2 DEF ApplyOutcome
<1>3. This \in DOMAIN reservations'
  BY DEF CoreHold, BankShape, ApplyOutcome, Bank!ApplyRelease, Bank!Release, Bank!Settle,
         Bank!SaveReservation, Bank!UpdateReservation
<1>4. /\ Row'.requester = Row.requester /\ Row'.original = Row.original
      /\ Row'.assignment = Row.assignment
      /\ \/ /\ outcome.type \in Bank!Reasons
            /\ Row'.status = "RELEASED" /\ Row'.reason = outcome.type
         \/ /\ outcome.type \in Bank!PayoutTypes /\ Row.status = "ASSIGNED"
            /\ Row'.status = "SETTLED" /\ Row'.outcome = outcome.type
  BY <1>2 DEF Bank!ClosedRow
<1>5. BankShape' /\ OrderKept' /\ RowKept' /\ OutcomeKept'
  <2>1. BankShape' /\ OrderKept'
    BY <1>1, <1>3 DEF CoreHold, BankShape, OrderKept, OfferAt, Applied, Taken, localVars
  <2>2. \A a : Applied(a)' <=> Applied(a)
    BY <1>1 DEF Applied, OfferAt
  <2> QED
    BY <1>1, <1>4, <2>1, <2>2 DEF CoreHold, RowKept, OutcomeKept, localVars
<1>6. ASSUME NEW a \in Assignments
      PROVE  AttemptKept(a)'
  <2>1. AttemptKept(a) /\ (Applied(a)' <=> Applied(a)) /\ OfferAt(a)' = OfferAt(a)
        /\ (Bank!Reverted(This, a)' <=> Bank!Reverted(This, a))
    BY <1>1 DEF CoreHold, AttemptsKept, Applied, OfferAt, Bank!Reverted
  <2>2. Row'.assignment = Row.assignment /\ Row'.status # "HELD"
    BY <1>4
  <2> QED
    BY <1>1, <2>1, <2>2 DEF AttemptKept, localVars, Reverting
<1> QED
  BY <1>1, <1>5, <1>6 DEF CoreHold, AttemptsKept, Lasting, localVars, OfferAt, Bank!Reverted, Reverting

-----------------------------------------------------------------------------
(* What the workers rely on lasts *)

\* A call that is about an attempt stays about it.
LEMMA CallLasts ==
  ASSUME Lasting, NEW CONSTANT call, CallKept(call)
  PROVE  CallKept(call)'
BY DEF Lasting, CallKept

\* What a worker relies on is not undone by others.
LEMMA WorkerLasts ==
  ASSUME Lasting, NEW CONSTANT p, WorkerKept(p)
  PROVE  WorkerKept(p)'
<1>1. SUFFICES ASSUME p.pc # "idle"
               PROVE  WorkerKept(p)'
  BY DEF WorkerKept
<1>2. CallKept(CallOf(p))'
  <2>1. CallKept(CallOf(p))
    BY <1>1 DEF WorkerKept
  <2> QED
    BY <2>1 DEF Lasting, CallKept, CallOf
<1>3. p.id \in Assignments
  BY <1>1 DEF WorkerKept, CallKept, CallOf
<1> QED
  BY <1>1, <1>2, <1>3 DEF WorkerKept, Lasting, OfferAt

\* A step that no worker takes.
LEMMA RunLasts ==
  ASSUME RunKept, Lasting, UNCHANGED <<worker, sent>>
  PROVE  RunKept'
<1>1. ASSUME NEW w \in Workers
      PROVE  WorkerKept(worker[w])'
  <2>1. PICK p : p = worker[w]
    OBVIOUS
  <2>2. WorkerKept(p)'
    BY <2>1, WorkerLasts DEF RunKept
  <2>3. worker'[w] = p
    BY <2>1
  <2> QED
    BY <2>2, <2>3
<1>2. ASSUME NEW call \in sent
      PROVE  CallKept(call)'
  BY <1>2, CallLasts DEF RunKept
<1> QED
  BY <1>1, <1>2 DEF RunKept

\* A step of one worker, which may leave its call behind.
LEMMA WorkerStep ==
  ASSUME RunKept, Lasting, DOMAIN worker = Workers, NEW CONSTANT w \in Workers, NEW CONSTANT q,
         worker' = [worker EXCEPT ![w] = q], WorkerKept(q)',
         sent' = sent \/ (sent' = sent \cup {CallOf(worker[w])} /\ worker[w].pc # "idle")
  PROVE  RunKept'
<1>1. ASSUME NEW v \in Workers
      PROVE  WorkerKept(worker[v])'
  <2>1. CASE v = w
    <3>1. worker'[v] = q
      BY <2>1
    <3> QED
      BY <3>1
  <2>2. CASE v # w
    <3>1. PICK p : p = worker[v]
      OBVIOUS
    <3>2. WorkerKept(p)'
      BY <3>1, WorkerLasts DEF RunKept
    <3>3. worker'[v] = p
      BY <2>2, <3>1
    <3> QED
      BY <3>2, <3>3
  <2> QED
    BY <2>1, <2>2
<1>2. ASSUME NEW call \in sent'
      PROVE  CallKept(call)'
  <2>1. CallKept(call)
    BY <1>2 DEF RunKept, WorkerKept
  <2> QED
    BY <2>1, CallLasts
<1> QED
  BY <1>1, <1>2 DEF RunKept

-----------------------------------------------------------------------------
(* Steps of the order's own tables *)

\* Whom and what an attempt is about stays.
Carried ==
  \A a \in Assignments : attempts[a].phase # "none" =>
    /\ attempts'[a].phase # "none" /\ attempts'[a].courier = attempts[a].courier
    /\ attempts'[a].amount = attempts[a].amount /\ attempts'[a].original = attempts[a].original
    /\ attempts'[a].offer = attempts[a].offer

\* A local step leaves Credit's rows alone.
LEMMA RowLasts ==
  ASSUME CoreHold, UNCHANGED bankVars, Carried
  PROVE  BankShape' /\ RowKept'
<1>1. BankShape'
  BY DEF CoreHold, BankShape, bankVars, OfferAt
<1>2. Row' = Row /\ \A a : Applied(a)' <=> Applied(a)
  BY DEF bankVars, Row, Applied, OfferAt
<1>3. Row.status = "ASSIGNED" => attempts'[Row.assignment].amount = attempts[Row.assignment].amount
  <2>1. SUFFICES ASSUME Row.status = "ASSIGNED"
                 PROVE  attempts'[Row.assignment].amount = attempts[Row.assignment].amount
    OBVIOUS
  <2>2. Row.assignment \in Assignments /\ Applied(Row.assignment)
    BY <2>1 DEF CoreHold, RowKept
  <2>3. attempts[Row.assignment].phase # "none"
    BY <2>2 DEF CoreHold, AttemptsKept, AttemptKept, Applied
  <2> QED
    BY <2>2, <2>3 DEF Carried
<1>4. RowKept'
  BY <1>2, <1>3 DEF CoreHold, RowKept
<1> QED
  BY <1>1, <1>4

\* An attempt that a local step leaves in its phase.
LEMMA AttemptLasts ==
  ASSUME CoreHold, UNCHANGED bankVars, Carried, NEW CONSTANT a \in Assignments,
         attempts'[a].phase = attempts[a].phase, withdrawals'[a].status = withdrawals[a].status,
         attempts[a].phase = "succeeded" => order'.assignment = order.assignment \/ order.assignment # a
  PROVE  AttemptKept(a)'
<1>1. AttemptKept(a)
  BY DEF CoreHold, AttemptsKept
<1>2. /\ Row' = Row /\ (Applied(a)' <=> Applied(a)) /\ OfferAt(a)' = OfferAt(a)
      /\ (Bank!Reverted(This, a)' <=> Bank!Reverted(This, a))
      /\ operations'[Bank!RevertKey(This, a)] = operations[Bank!RevertKey(This, a)]
  BY DEF bankVars, Row, Applied, OfferAt, Bank!Reverted, Bank!RevertKey
<1>3. Reverting(a)' <=> Reverting(a)
  BY DEF Reverting
<1>4. Applied(a) => attempts[a].phase # "none"
  BY <1>1 DEF AttemptKept, Applied
<1>5. attempts[a].phase # "none" =>
        attempts'[a].courier = attempts[a].courier /\ attempts'[a].original = attempts[a].original
  BY DEF Carried
<1> QED
  BY <1>1, <1>2, <1>3, <1>4, <1>5 DEF AttemptKept

\* A local step that takes no turn back.
LEMMA LocalLasts ==
  ASSUME UNCHANGED bankVars, Carried, \A a \in Assignments : Reverting(a) => Reverting(a)'
  PROVE  Lasting
BY DEF Lasting, Carried, bankVars, OfferAt, Bank!Reverted

\* A step of the order, its outcome and its offers alone.
LEMMA OrderStep ==
  ASSUME LifecycleHold, UNCHANGED <<bankVars, attempts, withdrawals, worker, sent>>,
         order'.assignment = order.assignment,
         OutcomeKept', OrderKept', OffersKept', LifecycleTypeOK'
  PROVE  LifecycleHold'
<1>1. CoreHold /\ RunKept
  BY DEF LifecycleHold, CoreHold
<1>2. Carried
  BY DEF Carried
<1>3. BankShape' /\ RowKept'
  BY <1>1, <1>2, RowLasts
<1>4. ASSUME NEW CONSTANT a \in Assignments
      PROVE  AttemptKept(a)'
  BY <1>1, <1>2, AttemptLasts
<1>5. Lasting
  BY <1>2, LocalLasts DEF Reverting
<1>6. RunKept'
  BY <1>1, <1>5, RunLasts
<1> QED
  BY <1>3, <1>4, <1>6 DEF LifecycleHold, AttemptsKept

\* MakeOffer: only while nothing is being accepted.
LEMMA MakeOfferHolds ==
  ASSUME LifecycleHold, NEW c \in Couriers, NEW credits \in Amounts, MakeOffer(c, credits)
  PROVE  LifecycleHold'
<1>1. order.status = "awaiting_courier" /\ UNCHANGED <<bankVars, order, attempts, withdrawals, outcome, runVars>>
  BY DEF MakeOffer, CanPropose, Available
<1>2. /\ DOMAIN offers' = DOMAIN offers
      /\ \A i \in DOMAIN offers : offers'[i] = offers[i] \/ offers'[i].status = "open"
  BY DEF MakeOffer, OfferRow, LifecycleHold, LifecycleTypeOK
<1>3. LifecycleTypeOK'
  BY <1>1, <1>2 DEF LifecycleHold, LifecycleTypeOK, runVars
<1>4. OffersKept'
  BY <1>1, <1>2 DEF LifecycleHold, OffersKept, OffersDecided, Active
<1>5. OutcomeKept'
  BY <1>1 DEF LifecycleHold, OutcomeKept, bankVars, Row
<1>6. OrderKept'
  BY <1>1 DEF LifecycleHold, OrderKept, bankVars, Applied, OfferAt, Taken
<1> QED
  BY <1>1, <1>3, <1>4, <1>5, <1>6, OrderStep DEF runVars

\* ConfirmPickup and ConfirmDelivery: the courier keeps the order.
LEMMA ProgressHolds ==
  ASSUME LifecycleHold, ConfirmPickup \/ ConfirmDelivery
  PROVE  LifecycleHold'
<1>1. /\ UNCHANGED <<bankVars, expired, attempts, offers, withdrawals, outcome, runVars>>
      /\ order.status \in {"awaiting_pickup", "delivering"} /\ ~order.withdrawing
      /\ \/ order' = OrderIn("delivering")
         \/ order' = OrderIn("delivered")
  BY DEF ConfirmPickup, PickupAllowed, ConfirmDelivery, LifecycleHold, LifecycleTypeOK
<1>2. /\ order'.status \in {"delivering", "delivered"} /\ order'.withdrawing = FALSE
      /\ order'.assignment = order.assignment /\ order'.courier = order.courier
      /\ order'.reward = order.reward /\ order'.held = order.held
  BY <1>1 DEF OrderIn, Order
<1>3. LifecycleTypeOK'
  BY <1>1, <1>2 DEF LifecycleHold, LifecycleTypeOK, runVars, Statuses
<1>4. OffersKept'
  BY <1>1, <1>2 DEF LifecycleHold, OffersKept, OffersDecided, Active
<1>5. OutcomeKept'
  BY <1>1, <1>2 DEF LifecycleHold, OutcomeKept, bankVars, Row
<1>6. OrderKept'
  <2>1. Taken /\ \A a : Applied(a)' <=> Applied(a)
    BY <1>1 DEF Taken, bankVars, Applied, OfferAt
  <2> QED
    BY <1>1, <1>2, <2>1 DEF LifecycleHold, OrderKept
<1> QED
  BY <1>1, <1>2, <1>3, <1>4, <1>5, <1>6, OrderStep DEF runVars

\* An order that is closed, with its outcome, by whoever may do so.
LEMMA CloseHolds ==
  ASSUME LifecycleHold, CourierCancel \/ Timeout \/ ConfirmReceipt \/ Expire
  PROVE  LifecycleHold'
<1>1. /\ UNCHANGED <<bankVars, expired, attempts, withdrawals, runVars>>
      /\ order.status \in {"awaiting_courier", "delivering", "delivered"} /\ ~order.withdrawing
      /\ \/ order.status = "delivering" /\ Close("failed") /\ UNCHANGED offers
         \/ order.status = "delivered" /\ Close("completed") /\ UNCHANGED offers
         \/ order.status = "awaiting_courier" /\ Close("expired") /\ offers' = VoidedOffers
  BY DEF CourierCancel, Timeout, ConfirmReceipt, Expire, LifecycleHold, LifecycleTypeOK
<1>2. /\ order'.status \in {"failed", "completed", "expired"} /\ order'.withdrawing = FALSE
      /\ order'.assignment = order.assignment /\ order'.courier = order.courier
      /\ order'.reward = order.reward /\ order'.held = order.held
      /\ outcome'.courier = order.courier
      /\ \/ /\ order'.status \in {"failed", "expired"}
            /\ outcome'.type \in Bank!Reasons /\ outcome'.type \notin Bank!PayoutTypes
         \/ /\ order.status = "delivered" /\ order'.status = "completed"
            /\ outcome'.type \in Bank!PayoutTypes
  BY <1>1 DEF Close, OutcomeType, OrderIn, Order, Bank!Reasons, Bank!PayoutTypes
<1>3. /\ DOMAIN offers' = DOMAIN offers
      /\ \/ UNCHANGED offers /\ order.status # "awaiting_courier"
         \/ \A i \in DOMAIN offers :
              offers'[i].status \in {"none", "accepted", "void"}
  BY <1>1 DEF VoidedOffers, OfferIn, OfferRow, LifecycleHold, LifecycleTypeOK
<1>4. LifecycleTypeOK'
  BY <1>1, <1>2, <1>3 DEF LifecycleHold, LifecycleTypeOK, runVars, Statuses
<1>5. OffersKept'
  BY <1>1, <1>2, <1>3 DEF LifecycleHold, OffersKept, OffersDecided, Active
<1>6. OutcomeKept'
  <2>1. outcome.type = "NONE"
    BY <1>1 DEF LifecycleHold, OutcomeKept
  <2>2. Row' = Row /\ Row.status \notin {"RELEASED", "SETTLED"}
    BY <1>1, <2>1 DEF LifecycleHold, OutcomeKept, bankVars, Row, Bank!Reasons, Bank!PayoutTypes
  <2> QED
    BY <1>2, <2>2 DEF OutcomeKept, Bank!Reasons, Bank!PayoutTypes
<1>7. OrderKept'
  <2>1. \A a : Applied(a)' <=> Applied(a)
    BY <1>1 DEF bankVars, Applied, OfferAt
  <2>2. Taken' => Taken
    BY <1>2 DEF Taken
  <2> QED
    BY <1>1, <1>2, <2>1, <2>2 DEF LifecycleHold, OrderKept
<1> QED
  BY <1>1, <1>2, <1>4, <1>5, <1>6, <1>7, OrderStep DEF runVars

\* Cancel: an attempt under way is turned to its revert, a withdrawal superseded.
LEMMA CancelHolds ==
  ASSUME LifecycleHold, Cancel
  PROVE  LifecycleHold'
<1>1. CoreHold /\ RunKept /\ UNCHANGED <<bankVars, expired, runVars>>
  BY DEF LifecycleHold, CoreHold, Cancel
<1>2. /\ order.status \in {"awaiting_courier", "awaiting_pickup", "delivering"}
      /\ order'.status = "cancelled" /\ order'.withdrawing = FALSE
      /\ order'.assignment = order.assignment /\ order'.courier = order.courier
      /\ order'.reward = order.reward /\ order'.held = order.held
      /\ outcome'.courier = order.courier
      /\ IF order.status = "delivering" THEN outcome'.type \in Bank!PayoutTypes
                                        ELSE outcome'.type \in Bank!Reasons
  BY DEF Cancel, Close, OutcomeType, OrderIn, Order, Bank!Reasons, Bank!PayoutTypes
<1>3. /\ DOMAIN offers' = DOMAIN offers
      /\ \A i \in DOMAIN offers : offers'[i].status \in {"none", "accepted", "void"}
  BY DEF Cancel, VoidedOffers, OfferIn, OfferRow, LifecycleHold, LifecycleTypeOK
<1>4. /\ DOMAIN withdrawals' = Assignments
      /\ \A a \in Assignments :
           IF order.withdrawing /\ a = order.assignment
             THEN withdrawals'[a].status = "superseded"
             ELSE withdrawals'[a].status = withdrawals[a].status
  BY DEF Cancel, Withdrawal
<1>5. /\ DOMAIN attempts' = Assignments
      /\ \A a \in Assignments :
           /\ attempts'[a].phase = IF Active(a) THEN "revert_pending" ELSE attempts[a].phase
           /\ attempts'[a].courier = attempts[a].courier /\ attempts'[a].offer = attempts[a].offer
           /\ attempts'[a].amount = attempts[a].amount /\ attempts'[a].original = attempts[a].original
  BY DEF Cancel, Advanced
<1>6. Carried
  BY <1>5 DEF Carried
<1>7. BankShape' /\ RowKept'
  BY <1>1, <1>6, RowLasts
<1>8. order.withdrawing =>
        order.assignment \in Assignments /\ withdrawals[order.assignment].status = "pending"
  BY DEF LifecycleHold, LifecycleTypeOK, OrderKept, Taken
<1>9. ASSUME NEW CONSTANT a \in Assignments
      PROVE  AttemptKept(a)'
  <2>1. AttemptKept(a)
    BY <1>1 DEF CoreHold, AttemptsKept
  <2>2. CASE Active(a) \/ (order.withdrawing /\ a = order.assignment)
    <3>1. /\ Row' = Row /\ (Applied(a)' <=> Applied(a)) /\ OfferAt(a)' = OfferAt(a)
          /\ (Bank!Reverted(This, a)' <=> Bank!Reverted(This, a))
          /\ operations'[Bank!RevertKey(This, a)] = operations[Bank!RevertKey(This, a)]
      BY <1>1 DEF bankVars, Row, Applied, OfferAt, Bank!Reverted, Bank!RevertKey
    <3>2. Reverting(a)'
      BY <1>4, <1>5, <2>2 DEF Reverting
    <3> QED
      BY <1>2, <1>4, <1>5, <1>8, <2>1, <2>2, <3>1, <3>2 DEF AttemptKept, Active
  <2>3. CASE ~Active(a) /\ ~(order.withdrawing /\ a = order.assignment)
    BY <1>1, <1>2, <1>4, <1>5, <1>6, <2>3, AttemptLasts
  <2> QED
    BY <2>2, <2>3
<1>10. RunKept'
  <2>1. \A a \in Assignments : Reverting(a) => Reverting(a)'
    BY <1>4, <1>5 DEF Reverting, Active
  <2>2. Lasting
    BY <1>1, <1>6, <2>1, LocalLasts
  <2> QED
    BY <1>1, <2>2, RunLasts DEF runVars
<1>11. LifecycleTypeOK'
  <2>1. \A a \in Assignments :
          /\ attempts'[a].phase \in Phases /\ attempts'[a].courier \in Couriers \cup {Bank!NoUser}
          /\ attempts'[a].phase # "none" => attempts'[a].offer \in Couriers \cup Assignments
          /\ withdrawals'[a].status \in {"none", "pending", "succeeded", "superseded"}
    BY <1>4, <1>5 DEF LifecycleHold, LifecycleTypeOK, Active, Phases
  <2> QED
    BY <1>1, <1>2, <1>3, <1>4, <1>5, <2>1 DEF LifecycleHold, LifecycleTypeOK, runVars, Statuses
<1>12. OffersKept'
  BY <1>3 DEF OffersKept, OffersDecided
<1>13. OutcomeKept'
  <2>1. outcome.type = "NONE"
    BY <1>2 DEF LifecycleHold, OutcomeKept
  <2>2. Row' = Row /\ Row.status \notin {"RELEASED", "SETTLED"}
    BY <1>1, <2>1 DEF LifecycleHold, OutcomeKept, bankVars, Row, Bank!Reasons, Bank!PayoutTypes
  <2> QED
    BY <1>2, <2>2 DEF OutcomeKept, Bank!Reasons, Bank!PayoutTypes
<1>14. OrderKept'
  <2>1. \A a : Applied(a)' <=> Applied(a)
    BY <1>1 DEF bankVars, Applied, OfferAt
  <2>2. Taken' => order.status = "delivering" /\ Taken /\ ~order.withdrawing
    BY <1>2 DEF Taken, Bank!Reasons, Bank!PayoutTypes, LifecycleHold, LifecycleTypeOK
  <2>3. SUFFICES ASSUME Taken'
                 PROVE  OrderKept'
    BY <1>2 DEF OrderKept, Taken
  <2>4. /\ order.assignment \in Assignments /\ attempts[order.assignment].phase = "succeeded"
        /\ order.courier = attempts[order.assignment].courier
        /\ order.reward = attempts[order.assignment].amount /\ order.held = order.reward
        /\ withdrawals[order.assignment].status = "none" /\ Applied(order.assignment)
    BY <2>2, <2>3 DEF LifecycleHold, OrderKept
  <2> QED
    BY <1>2, <1>4, <1>5, <2>1, <2>2, <2>3, <2>4 DEF OrderKept, Active
<1> QED
  BY <1>7, <1>9, <1>10, <1>11, <1>12, <1>13, <1>14 DEF LifecycleHold, AttemptsKept

\* BeginWithdrawal: the courier keeps the order until Credit has reverted it.
LEMMA BeginWithdrawalHolds ==
  ASSUME LifecycleHold, BeginWithdrawal
  PROVE  LifecycleHold'
<1>1. /\ CoreHold /\ RunKept /\ order.status = "awaiting_pickup" /\ ~order.withdrawing
      /\ UNCHANGED <<bankVars, expired, attempts, offers, outcome, runVars>>
  BY DEF LifecycleHold, CoreHold, BeginWithdrawal
<1>2. /\ order'.status = order.status /\ order'.withdrawing = TRUE
      /\ order'.assignment = order.assignment /\ order'.courier = order.courier
      /\ order'.reward = order.reward /\ order'.held = order.held
  BY DEF BeginWithdrawal, Order
<1>3. /\ Taken /\ order.assignment \in Assignments
      /\ attempts[order.assignment].phase = "succeeded"
  BY <1>1 DEF Taken, CoreHold, OrderKept
<1>4. /\ DOMAIN withdrawals' = Assignments /\ withdrawals'[order.assignment].status = "pending"
      /\ \A a \in Assignments \ {order.assignment} : withdrawals'[a] = withdrawals[a]
  BY <1>3 DEF BeginWithdrawal, Withdrawal, LifecycleHold, LifecycleTypeOK
<1>5. Carried
  BY <1>1 DEF Carried
<1>6. BankShape' /\ RowKept'
  BY <1>1, <1>5, RowLasts
<1>7. ASSUME NEW CONSTANT a \in Assignments
      PROVE  AttemptKept(a)'
  <2>1. CASE a # order.assignment
    BY <1>1, <1>2, <1>4, <1>5, <2>1, AttemptLasts
  <2>2. CASE a = order.assignment
    <3>1. AttemptKept(a)
      BY <1>1 DEF CoreHold, AttemptsKept
    <3>2. /\ Row' = Row /\ (Applied(a)' <=> Applied(a)) /\ OfferAt(a)' = OfferAt(a)
          /\ (Bank!Reverted(This, a)' <=> Bank!Reverted(This, a))
          /\ operations'[Bank!RevertKey(This, a)] = operations[Bank!RevertKey(This, a)]
      BY <1>1 DEF bankVars, Row, Applied, OfferAt, Bank!Reverted, Bank!RevertKey
    <3>3. Reverting(a)' /\ attempts'[a] = attempts[a] /\ withdrawals'[a].status = "pending"
      BY <1>1, <1>4, <2>2 DEF Reverting
    <3> QED
      BY <1>2, <1>3, <2>2, <3>1, <3>2, <3>3 DEF AttemptKept
  <2> QED
    BY <2>1, <2>2
<1>8. RunKept'
  <2>1. \A a \in Assignments : Reverting(a) => Reverting(a)'
    BY <1>1, <1>4 DEF Reverting
  <2>2. Lasting
    BY <1>1, <1>5, <2>1, LocalLasts
  <2> QED
    BY <1>1, <2>2, RunLasts DEF runVars
<1>9. LifecycleTypeOK'
  BY <1>1, <1>2, <1>4 DEF LifecycleHold, LifecycleTypeOK, runVars
<1>10. OffersKept'
  BY <1>1, <1>2 DEF LifecycleHold, OffersKept, OffersDecided, Active
<1>11. OutcomeKept'
  BY <1>1, <1>2 DEF CoreHold, OutcomeKept, bankVars, Row
<1>12. OrderKept'
  <2>1. Taken'
    BY <1>1, <1>2 DEF Taken
  <2> QED
    BY <1>1, <1>2, <1>3, <1>4, <2>1 DEF CoreHold, OrderKept
<1> QED
  BY <1>6, <1>7, <1>8, <1>9, <1>10, <1>11, <1>12 DEF LifecycleHold, AttemptsKept

\* AcceptOrder and AcceptOffer: an attempt begins, the only active one.
LEMMA AcceptHolds ==
  ASSUME LifecycleHold, NEW CONSTANT c \in Couriers, NEW CONSTANT a \in Assignments,
         AcceptOrder(c, a) \/ AcceptOffer(c, a)
  PROVE  LifecycleHold'
<1>1. /\ CoreHold /\ RunKept /\ order.status = "awaiting_courier"
      /\ UNCHANGED <<bankVars, order, expired, withdrawals, outcome, runVars>>
      /\ attempts[a] = NoAttempt /\ \A b \in Assignments : ~Active(b)
  BY DEF LifecycleHold, CoreHold, AcceptOrder, AcceptOffer, CanPropose, Available
<1>2. PICK i, amount :
        /\ i \in Couriers \cup Assignments
        /\ attempts' = [attempts EXCEPT ![a] = Attempt("adjustment_pending", c, amount, order.held, i)]
        /\ offers' = [offers EXCEPT ![i] = OfferRow("accepting", c, amount, a)]
  BY DEF AcceptOrder, AcceptOffer
<1>3. /\ attempts[a].phase = "none" /\ DOMAIN attempts' = Assignments
      /\ attempts'[a].phase = "adjustment_pending" /\ attempts'[a].courier = c
      /\ attempts'[a].original = order.held /\ attempts'[a].offer = i
      /\ \A b \in Assignments \ {a} : attempts'[b] = attempts[b]
  BY <1>1, <1>2 DEF LifecycleHold, LifecycleTypeOK, NoAttempt, Attempt
<1>4. /\ DOMAIN offers' = DOMAIN offers /\ i \in DOMAIN offers
      /\ offers'[i].status = "accepting" /\ offers'[i].attempt = a
      /\ \A j \in DOMAIN offers \ {i} : offers'[j] = offers[j]
  BY <1>2 DEF LifecycleHold, LifecycleTypeOK, OfferRow
<1>5. Carried
  BY <1>3 DEF Carried
<1>6. BankShape' /\ RowKept'
  BY <1>1, <1>5, RowLasts
<1>7. ASSUME NEW CONSTANT b \in Assignments
      PROVE  AttemptKept(b)'
  <2>1. CASE b # a
    BY <1>1, <1>3, <1>5, <2>1, AttemptLasts
  <2>2. CASE b = a
    <3>1. AttemptKept(a)
      BY <1>1 DEF CoreHold, AttemptsKept
    <3>2. /\ OfferAt(a).status = "NONE" /\ withdrawals[a].status = "none"
          /\ operations[Bank!RevertKey(This, a)].status = "NONE"
      BY <1>3, <3>1 DEF AttemptKept, OfferAt, Bank!Reverted
    <3>3. /\ OfferAt(a)'.status = "NONE" /\ withdrawals'[a].status = "none"
          /\ operations'[Bank!RevertKey(This, a)].status = "NONE"
      BY <1>1, <3>2 DEF bankVars, OfferAt, Bank!RevertKey
    <3>4. ~Applied(a)' /\ ~Bank!Reverted(This, a)'
      BY <3>3 DEF Applied, Bank!Reverted, OfferAt
    <3>5. attempts'[a].original = Reward
      BY <1>1, <1>3 DEF CoreHold, OrderKept
    <3> QED
      BY <1>3, <2>2, <3>3, <3>4, <3>5 DEF AttemptKept
  <2> QED
    BY <2>1, <2>2
<1>8. RunKept'
  <2>1. \A b \in Assignments : Reverting(b) => Reverting(b)'
    BY <1>1, <1>3 DEF Reverting
  <2>2. Lasting
    BY <1>1, <1>5, <2>1, LocalLasts
  <2> QED
    BY <1>1, <2>2, RunLasts DEF runVars
<1>9. LifecycleTypeOK'
  <2>1. \A b \in Assignments :
          /\ attempts'[b].phase \in Phases /\ attempts'[b].courier \in Couriers \cup {Bank!NoUser}
          /\ attempts'[b].phase # "none" => attempts'[b].offer \in Couriers \cup Assignments
    BY <1>2, <1>3 DEF LifecycleHold, LifecycleTypeOK, Phases
  <2>2. \A j \in DOMAIN offers' : offers'[j].status \in {"none", "open", "accepting", "accepted", "void"}
    BY <1>4 DEF LifecycleHold, LifecycleTypeOK
  <2> QED
    BY <1>1, <1>3, <1>4, <2>1, <2>2 DEF LifecycleHold, LifecycleTypeOK, runVars
<1>10. OffersKept'
  <2>1. \A j \in DOMAIN offers : offers[j].status # "accepting"
    BY <1>1 DEF LifecycleHold, OffersKept, OffersDecided
  <2> QED
    BY <1>1, <1>3, <1>4, <2>1 DEF OffersKept, OffersDecided, Active
<1>11. OutcomeKept'
  BY <1>1 DEF CoreHold, OutcomeKept, bankVars, Row
<1>12. OrderKept'
  <2>1. ~Taken' /\ outcome' = outcome /\ outcome.type \notin Bank!PayoutTypes
    BY <1>1 DEF Taken, CoreHold, OutcomeKept, Bank!PayoutTypes
  <2> QED
    BY <1>1, <2>1 DEF CoreHold, OrderKept
<1> QED
  BY <1>6, <1>7, <1>8, <1>9, <1>10, <1>11, <1>12 DEF LifecycleHold, AttemptsKept

-----------------------------------------------------------------------------
(* Steps of the workers *)

\* Nothing has been read yet.
LEMMA UnknownView == Unknown.row.requester # Requester /\ Unknown.row.status # "ASSIGNED"
BY DEF Unknown, View, Requester, Bank!NoReservation, Bank!OpenRow, Bank!NoUser

\* A claim, a call, a read: Order's rows keep their phases.
LEMMA ObserveStep ==
  ASSUME LifecycleHold, CoreHold', Lasting, NEW CONSTANT w \in Workers, NEW CONSTANT q,
         worker' = [worker EXCEPT ![w] = q], WorkerKept(q)',
         q.pc \in {"idle", "calling", "reading", "finishing"},
         q.pc # "idle" => q.id \in Assignments,
         sent' = sent \/ (sent' = sent \cup {CallOf(worker[w])} /\ worker[w].pc # "idle"),
         faults' \in 0..MaxFaults, UNCHANGED <<order, offers, outcome>>,
         DOMAIN attempts' = Assignments, DOMAIN withdrawals' = Assignments,
         \A a \in Assignments :
           /\ attempts'[a].offer = attempts[a].offer /\ attempts'[a].courier = attempts[a].courier
           /\ Active(a) => Active(a)'
           /\ attempts'[a].phase = attempts[a].phase \/ (Active(a) /\ Active(a)')
           /\ withdrawals'[a].status = withdrawals[a].status
  PROVE  LifecycleHold'
<1>1. RunKept'
  BY WorkerStep DEF LifecycleHold, LifecycleTypeOK
<1>2. OffersKept'
  BY DEF LifecycleHold, OffersKept, OffersDecided
<1>3. LifecycleTypeOK'
  <2>1. \A a \in Assignments :
          /\ attempts'[a].phase \in Phases /\ attempts'[a].courier \in Couriers \cup {Bank!NoUser}
          /\ attempts'[a].phase # "none" => attempts'[a].offer \in Couriers \cup Assignments
          /\ withdrawals'[a].status \in {"none", "pending", "succeeded", "superseded"}
    BY DEF LifecycleHold, LifecycleTypeOK, Active, Phases
  <2>2. /\ DOMAIN worker' = Workers
        /\ \A v \in Workers :
             /\ worker'[v].pc \in {"idle", "calling", "reading", "finishing"}
             /\ worker'[v].pc # "idle" => worker'[v].id \in Assignments
    BY DEF LifecycleHold, LifecycleTypeOK
  <2>3. sent' \subseteq {"ADJUST", "REVERT"} \X Assignments
    <3>1. worker[w].pc # "idle" => CallOf(worker[w]) \in {"ADJUST", "REVERT"} \X Assignments
      BY DEF LifecycleHold, LifecycleTypeOK, CallOf
    <3> QED
      BY <3>1 DEF LifecycleHold, LifecycleTypeOK
  <2> QED
    BY <2>1, <2>2, <2>3 DEF LifecycleHold, LifecycleTypeOK
<1> QED
  BY <1>1, <1>2, <1>3 DEF LifecycleHold, CoreHold

\* ClaimAttempt: the call that follows is the one of the phase it leaves.
LEMMA ClaimAttemptHolds ==
  ASSUME LifecycleHold, NEW CONSTANT w \in Workers, NEW CONSTANT a \in Assignments, ClaimAttempt(w, a)
  PROVE  LifecycleHold'
<1>1. /\ CoreHold /\ RunKept /\ Active(a) /\ faults \in 0..MaxFaults
      /\ UNCHANGED <<bankVars, order, expired, offers, withdrawals, outcome, sent, faults>>
  BY DEF LifecycleHold, LifecycleTypeOK, CoreHold, ClaimAttempt, Due
<1>2. PICK t : t = Claimed(a)
  OBVIOUS
<1>3. /\ t.phase \in {"adjustment_pending", "revert_pending"}
      /\ attempts[a].phase = "revert_pending" => t.phase = "revert_pending"
      /\ t.courier = attempts[a].courier /\ t.amount = attempts[a].amount
      /\ t.original = attempts[a].original /\ t.offer = attempts[a].offer
  BY <1>1, <1>2 DEF Claimed, Advanced, Active
<1>4. DOMAIN attempts' = Assignments /\ attempts'[a] = t
      /\ \A b \in Assignments \ {a} : attempts'[b] = attempts[b]
  BY <1>2 DEF ClaimAttempt, LifecycleHold, LifecycleTypeOK
<1>5. Carried
  BY <1>3, <1>4 DEF Carried
<1>6. \A b \in Assignments : Reverting(b) => Reverting(b)'
  BY <1>1, <1>3, <1>4 DEF Reverting, Active
<1>7. Lasting
  BY <1>1, <1>5, <1>6, LocalLasts
<1>8. CoreHold'
  <2>1. BankShape' /\ RowKept'
    BY <1>1, <1>5, RowLasts
  <2>2. ASSUME NEW CONSTANT b \in Assignments
        PROVE  AttemptKept(b)'
    <3>1. CASE b # a
      BY <1>1, <1>4, <1>5, <3>1, AttemptLasts
    <3>2. CASE b = a
      <4>1. AttemptKept(a)
        BY <1>1 DEF CoreHold, AttemptsKept
      <4>2. /\ Row' = Row /\ (Applied(a)' <=> Applied(a)) /\ OfferAt(a)' = OfferAt(a)
            /\ (Bank!Reverted(This, a)' <=> Bank!Reverted(This, a))
            /\ operations'[Bank!RevertKey(This, a)] = operations[Bank!RevertKey(This, a)]
        BY <1>1 DEF bankVars, Row, Applied, OfferAt, Bank!Reverted, Bank!RevertKey
      <4>3. Reverting(a) => Reverting(a)'
        BY <1>6
      <4> QED
        BY <1>1, <1>3, <1>4, <3>2, <4>1, <4>2, <4>3 DEF AttemptKept, Active
    <3> QED
      BY <3>1, <3>2
  <2>3. OutcomeKept'
    BY <1>1 DEF CoreHold, OutcomeKept, bankVars, Row
  <2>4. OrderKept'
    <3>1. Taken => order.assignment # a
      BY <1>1 DEF CoreHold, OrderKept, Active
    <3>2. \A b : Applied(b)' <=> Applied(b)
      BY <1>1 DEF bankVars, Applied, OfferAt
    <3>3. Taken' <=> Taken
      BY <1>1 DEF Taken
    <3> QED
      BY <1>1, <1>4, <3>1, <3>2, <3>3 DEF CoreHold, OrderKept
  <2> QED
    BY <2>1, <2>2, <2>3, <2>4 DEF CoreHold, AttemptsKept
<1>9. PICK q : q = Processing("calling", "attempt", a, t.phase, t.generation, FALSE, Unknown)
  OBVIOUS
<1>10. /\ worker' = [worker EXCEPT ![w] = q] /\ q.pc = "calling" /\ q.id = a /\ q.kind = "attempt"
       /\ q.phase = t.phase /\ q.view = Unknown
  BY <1>2, <1>9 DEF ClaimAttempt, Processing
<1>11. WorkerKept(q)'
  <2>1. CallKept(CallOf(q))'
    BY <1>3, <1>4, <1>10 DEF CallKept, CallOf, Reverting
  <2>2. q.view.row.requester # Requester /\ q.view.row.status # "ASSIGNED"
    BY <1>10, UnknownView
  <2> QED
    BY <1>10, <2>1, <2>2 DEF WorkerKept
<1>12. \A b \in Assignments :
         /\ attempts'[b].offer = attempts[b].offer /\ attempts'[b].courier = attempts[b].courier
         /\ Active(b) => Active(b)'
         /\ attempts'[b].phase = attempts[b].phase \/ (Active(b) /\ Active(b)')
         /\ withdrawals'[b].status = withdrawals[b].status
  BY <1>1, <1>3, <1>4 DEF Active
<1>13. DOMAIN withdrawals' = Assignments
  BY <1>1 DEF LifecycleHold, LifecycleTypeOK
<1> QED
  BY <1>1, <1>4, <1>7, <1>8, <1>10, <1>11, <1>12, <1>13, ObserveStep

\* A step that changes neither Credit nor a phase, nor the order.
LEMMA StillHolds ==
  ASSUME LifecycleHold, UNCHANGED <<bankVars, order, outcome>>, Carried,
         \A a \in Assignments :
           attempts'[a].phase = attempts[a].phase /\ withdrawals'[a].status = withdrawals[a].status
  PROVE  CoreHold' /\ Lasting
<1>1. CoreHold
  BY DEF LifecycleHold, CoreHold
<1>2. BankShape' /\ RowKept'
  BY <1>1, RowLasts
<1>3. ASSUME NEW CONSTANT a \in Assignments
      PROVE  AttemptKept(a)'
  BY <1>1, AttemptLasts
<1>4. OutcomeKept'
  BY <1>1 DEF CoreHold, OutcomeKept, bankVars, Row
<1>5. OrderKept'
  <2>1. (Taken' <=> Taken) /\ \A a : Applied(a)' <=> Applied(a)
    BY DEF Taken, bankVars, Applied, OfferAt
  <2> QED
    BY <1>1, <2>1 DEF CoreHold, OrderKept, Carried
<1>6. Lasting
  BY LocalLasts DEF Reverting
<1> QED
  BY <1>2, <1>3, <1>4, <1>5, <1>6 DEF CoreHold, AttemptsKept

\* ClaimWithdrawal: it calls only for the revert.
LEMMA ClaimWithdrawalHolds ==
  ASSUME LifecycleHold, NEW CONSTANT w \in Workers, NEW CONSTANT a \in Assignments, ClaimWithdrawal(w, a)
  PROVE  LifecycleHold'
<1>1. /\ withdrawals[a].status = "pending" /\ faults' \in 0..MaxFaults
      /\ UNCHANGED <<bankVars, order, attempts, offers, outcome, sent>>
  BY DEF LifecycleHold, LifecycleTypeOK, ClaimWithdrawal, DueWithdrawal
<1>2. /\ DOMAIN withdrawals' = Assignments /\ DOMAIN attempts' = Assignments
      /\ \A b \in Assignments : withdrawals'[b].status = withdrawals[b].status
  BY <1>1 DEF ClaimWithdrawal, Withdrawal, LifecycleHold, LifecycleTypeOK
<1>3. Carried
  BY <1>1 DEF Carried
<1>4. CoreHold' /\ Lasting
  BY <1>1, <1>2, <1>3, StillHolds
<1>5. PICK q : q = Processing("calling", "withdrawal", a, "pending", withdrawals[a].generation + 1, FALSE, Unknown)
  OBVIOUS
<1>6. /\ worker' = [worker EXCEPT ![w] = q] /\ q.pc = "calling" /\ q.id = a
      /\ q.phase = "pending" /\ q.view = Unknown
  BY <1>5 DEF ClaimWithdrawal, Processing
<1>7. WorkerKept(q)'
  <2>1. attempts[a].phase = "succeeded"
    BY <1>1 DEF LifecycleHold, AttemptsKept, AttemptKept
  <2>2. CallKept(CallOf(q))'
    BY <1>1, <1>2, <1>6, <2>1 DEF CallKept, CallOf, Reverting
  <2>3. q.view.row.requester # Requester /\ q.view.row.status # "ASSIGNED"
    BY <1>6, UnknownView
  <2> QED
    BY <1>6, <2>2, <2>3 DEF WorkerKept
<1>8. \A b \in Assignments :
        /\ attempts'[b].offer = attempts[b].offer /\ attempts'[b].courier = attempts[b].courier
        /\ Active(b) => Active(b)'
        /\ attempts'[b].phase = attempts[b].phase \/ (Active(b) /\ Active(b)')
        /\ withdrawals'[b].status = withdrawals[b].status
  BY <1>1, <1>2 DEF Active
<1> QED
  BY <1>1, <1>2, <1>4, <1>6, <1>7, <1>8, ObserveStep

\* A worker goes on to the next step of what it has claimed.
LEMMA NextObservation ==
  ASSUME LifecycleHold, CoreHold', Lasting, UNCHANGED localVars, NEW CONSTANT w \in Workers,
         NEW CONSTANT q, worker' = [worker EXCEPT ![w] = q], WorkerKept(q)',
         q.pc \in {"idle", "calling", "reading", "finishing"},
         q.pc # "idle" => q.id \in Assignments,
         sent' = sent \/ (sent' = sent \cup {CallOf(worker[w])} /\ worker[w].pc # "idle"),
         faults' \in 0..MaxFaults
  PROVE  LifecycleHold'
<1>1. /\ UNCHANGED <<order, offers, outcome, attempts, withdrawals>>
      /\ DOMAIN attempts' = Assignments /\ DOMAIN withdrawals' = Assignments
  BY DEF localVars, LifecycleHold, LifecycleTypeOK
<1>2. \A a \in Assignments :
        /\ attempts'[a].offer = attempts[a].offer /\ attempts'[a].courier = attempts[a].courier
        /\ Active(a) => Active(a)'
        /\ attempts'[a].phase = attempts[a].phase \/ (Active(a) /\ Active(a)')
        /\ withdrawals'[a].status = withdrawals[a].status
  BY <1>1 DEF Active
<1> QED
  BY <1>1, <1>2, ObserveStep

\* A fault is counted within its bound.
LEMMA FaultCounted ==
  ASSUME LifecycleTypeOK, faults < MaxFaults
  PROVE  faults + 1 \in 0..MaxFaults
BY CountsAssumption DEF LifecycleTypeOK

\* What a worker goes on with after a call: it reads behind an adjustment that
\* was not refused, and behind a revert that is acknowledged.
LEMMA ObservedHolds ==
  ASSUME LifecycleHold, CoreHold', Lasting, UNCHANGED localVars, NEW CONSTANT w \in Workers,
         NEW CONSTANT p, p = worker[w], p.pc = "calling", NEW CONSTANT answer, Observed(w, answer),
         CallOf(p)[1] = "REVERT" /\ answer = "OK" => Bank!Reverted(This, p.id)',
         sent' = sent \/ sent' = sent \cup {CallOf(worker[w])}, faults' \in 0..MaxFaults
  PROVE  LifecycleHold'
<1>1. PICK q : q = Observing(p, IF Reads(CallOf(p), answer) THEN "reading" ELSE "finishing",
                             CallOf(p)[1] = "ADJUST" /\ answer = "INSUFFICIENT_CREDITS", p.view)
  OBVIOUS
<1>2. /\ worker' = [worker EXCEPT ![w] = q] /\ q.kind = p.kind /\ q.id = p.id /\ q.phase = p.phase
      /\ q.view = p.view
      /\ q.pc = IF Reads(CallOf(p), answer) THEN "reading" ELSE "finishing"
  BY <1>1 DEF Observed, Observing, Processing
<1>3. WorkerKept(p) /\ p.pc = "calling" /\ p.id \in Assignments
  BY DEF LifecycleHold, LifecycleTypeOK, RunKept
<1>4. WorkerKept(p)'
  BY <1>3, WorkerLasts
<1>5. WorkerKept(q)'
  <2>1. CallOf(q) = CallOf(p)
    BY <1>2 DEF CallOf
  <2>2. CallKept(CallOf(q))' /\ (q.kind = "withdrawal" => q.phase # "adjustment_pending") /\ q.view = Unknown
    BY <1>2, <1>3, <1>4, <2>1 DEF WorkerKept
  <2>3. q.phase # "adjustment_pending" /\ q.pc = "reading" => Bank!Reverted(This, q.id)'
    BY <1>2 DEF Reads, CallOf
  <2>4. q.view.row.requester # Requester /\ q.view.row.status # "ASSIGNED"
    BY <2>2, UnknownView
  <2> QED
    BY <2>2, <2>3, <2>4 DEF WorkerKept
<1>6. q.pc \in {"idle", "calling", "reading", "finishing"} /\ q.id \in Assignments
  BY <1>2, <1>3
<1>7. worker[w].pc # "idle"
  OBVIOUS
<1> QED
  BY <1>2, <1>5, <1>6, <1>7, NextObservation

\* CallAnswered.
LEMMA CallAnsweredHolds ==
  ASSUME LifecycleHold, NEW CONSTANT w \in Workers, CallAnswered(w)
  PROVE  LifecycleHold'
<1>1. /\ UNCHANGED localVars /\ sent' = sent /\ faults' \in 0..MaxFaults /\ CoreHold
  BY DEF CallAnswered, LifecycleHold, LifecycleTypeOK, CoreHold
<1>2. PICK p : p = worker[w]
  OBVIOUS
<1>3. PICK call : call = CallOf(p)
  OBVIOUS
<1>4. p.pc = "calling" /\ WorkerKept(p)
  BY <1>2 DEF CallAnswered, LifecycleHold, RunKept
<1>5. CallKept(call) /\ Deliver(call) /\ call[2] = p.id
  BY <1>2, <1>3, <1>4 DEF WorkerKept, CallAnswered, CallOf
<1>6. /\ CoreHold' /\ Lasting
      /\ call[1] = "REVERT" /\ AnswerOf(call) = "OK" => Bank!Reverted(This, call[2])'
  BY <1>1, <1>5, DeliverHolds
<1>7. PICK answer : answer = AnswerOf(call)
  OBVIOUS
<1>8. Observed(w, answer)
  BY <1>2, <1>3, <1>7 DEF CallAnswered
<1>9. CallOf(p)[1] = "REVERT" /\ answer = "OK" => Bank!Reverted(This, p.id)'
  BY <1>3, <1>5, <1>6, <1>7
<1> QED
  BY <1>1, <1>2, <1>4, <1>6, <1>8, <1>9, ObservedHolds

\* CallUnanswered: an adjustment is read after it, a revert is not.
LEMMA CallUnansweredHolds ==
  ASSUME LifecycleHold, NEW CONSTANT w \in Workers, CallUnanswered(w)
  PROVE  LifecycleHold'
<1>1. /\ UNCHANGED <<bankVars, localVars>> /\ Observed(w, "UNAVAILABLE")
      /\ sent' = sent \cup {CallOf(worker[w])}
  BY DEF CallUnanswered
<1>2. faults' \in 0..MaxFaults
  BY FaultCounted DEF CallUnanswered, LifecycleHold
<1>3. PICK p : p = worker[w]
  OBVIOUS
<1>4. p.pc = "calling"
  BY <1>3 DEF CallUnanswered
<1>5. CoreHold' /\ Lasting
  BY <1>1, StillHolds DEF localVars, Carried
<1> QED
  BY <1>1, <1>2, <1>3, <1>4, <1>5, ObservedHolds

\* ArriveLate: a call that was given up is still about its attempt.
LEMMA ArriveLateHolds ==
  ASSUME LifecycleHold, NEW CONSTANT call \in sent, ArriveLate(call)
  PROVE  LifecycleHold'
<1>1. CoreHold /\ CallKept(call) /\ Deliver(call) /\ UNCHANGED <<localVars, runVars>>
  BY DEF LifecycleHold, CoreHold, RunKept, ArriveLate
<1>2. CoreHold' /\ Lasting
  BY <1>1, DeliverHolds
<1>3. RunKept'
  BY <1>1, <1>2, RunLasts DEF LifecycleHold, runVars
<1>4. OffersKept' /\ LifecycleTypeOK'
  BY <1>1 DEF LifecycleHold, OffersKept, OffersDecided, Active, LifecycleTypeOK, localVars, runVars
<1> QED
  BY <1>2, <1>3, <1>4 DEF LifecycleHold, CoreHold

\* ApplyOutcome changes Credit alone.
LEMMA ApplyOutcomeHolds ==
  ASSUME LifecycleHold, ApplyOutcome
  PROVE  LifecycleHold'
<1>1. CoreHold /\ UNCHANGED <<localVars, runVars>>
  BY DEF LifecycleHold, CoreHold, ApplyOutcome
<1>2. CoreHold' /\ Lasting
  BY <1>1, OutcomeHolds
<1>3. RunKept'
  BY <1>1, <1>2, RunLasts DEF LifecycleHold, runVars
<1>4. OffersKept' /\ LifecycleTypeOK'
  BY <1>1 DEF LifecycleHold, OffersKept, OffersDecided, Active, LifecycleTypeOK, localVars, runVars
<1> QED
  BY <1>2, <1>3, <1>4 DEF LifecycleHold, CoreHold

\* Read and ReadFails: an assignment that is read has been applied.
LEMMA ReadHolds ==
  ASSUME LifecycleHold, NEW CONSTANT w \in Workers, Read(w) \/ ReadFails(w)
  PROVE  LifecycleHold'
<1>1. UNCHANGED <<bankVars, localVars, sent>>
  BY DEF Read, ReadFails
<1>2. faults' \in 0..MaxFaults
  <2>1. CASE Read(w)
    BY <2>1 DEF Read, LifecycleHold, LifecycleTypeOK
  <2>2. CASE ReadFails(w)
    BY <2>2, FaultCounted DEF ReadFails, LifecycleHold
  <2> QED
    BY <2>1, <2>2
<1>3. CoreHold' /\ Lasting
  BY <1>1, StillHolds DEF localVars, Carried
<1>4. PICK p : p = worker[w]
  OBVIOUS
<1>5. p.pc = "reading" /\ WorkerKept(p)
  BY <1>4 DEF Read, ReadFails, LifecycleHold, RunKept
<1>6. PICK view :
        /\ worker' = [worker EXCEPT ![w] = Observing(p, "finishing", p.refused, view)]
        /\ view.row.status = "ASSIGNED" =>
             view.row.assignment \in Assignments /\ OfferAt(view.row.assignment).status # "NONE"
  <2>1. CASE Read(w)
    <3> DEFINE seen == CASE Row.status = "ASSIGNED" -> View(Row, assignments[This][Row.assignment].courier)
                         [] Row.status \in {"HELD", "RELEASED"} -> View(Row, Bank!NoUser)
                         [] OTHER -> Unknown
    <3>1. PICK view :
            /\ worker' = [worker EXCEPT ![w] = Observing(p, "finishing", p.refused, view)]
            /\ view.row = Row \/ view = Unknown
      <4>1. worker' = [worker EXCEPT ![w] = Observing(p, "finishing", p.refused, seen)]
        BY <1>4, <2>1 DEF Read, Row
      <4>2. seen.row = Row \/ seen = Unknown
        BY DEF View
      <4> QED
        BY <4>1, <4>2
    <3>2. Row.status = "ASSIGNED" => Row.assignment \in Assignments /\ OfferAt(Row.assignment).status # "NONE"
      BY DEF LifecycleHold, RowKept, Applied
    <3> QED
      BY <3>1, <3>2, UnknownView
  <2>2. CASE ReadFails(w)
    <3>1. p.view = Unknown
      BY <1>5 DEF WorkerKept
    <3> QED
      BY <1>4, <2>2, <3>1, UnknownView DEF ReadFails
  <2> QED
    BY <2>1, <2>2
<1>7. PICK q : q = Observing(p, "finishing", p.refused, view)
  OBVIOUS
<1>8. /\ worker' = [worker EXCEPT ![w] = q] /\ q.kind = p.kind /\ q.id = p.id /\ q.phase = p.phase
      /\ q.view = view /\ q.pc = "finishing"
  BY <1>6, <1>7 DEF Observing, Processing
<1>9. WorkerKept(p)' /\ p.id \in Assignments
  BY <1>3, <1>4, <1>5, WorkerLasts DEF LifecycleHold, LifecycleTypeOK
<1>10. WorkerKept(q)'
  <2>1. CallOf(q) = CallOf(p)
    BY <1>8 DEF CallOf
  <2>2. CallKept(CallOf(q))' /\ (q.kind = "withdrawal" => q.phase # "adjustment_pending")
    BY <1>5, <1>8, <1>9, <2>1 DEF WorkerKept
  <2>3. q.phase # "adjustment_pending" => Bank!Reverted(This, q.id)'
    BY <1>5, <1>8, <1>9 DEF WorkerKept
  <2>4. q.view.row.status = "ASSIGNED" =>
          q.view.row.assignment \in Assignments /\ OfferAt(q.view.row.assignment)'.status # "NONE"
    BY <1>3, <1>6, <1>8 DEF Lasting
  <2> QED
    BY <1>8, <2>2, <2>3, <2>4 DEF WorkerKept
<1>11. q.pc \in {"idle", "calling", "reading", "finishing"} /\ q.id \in Assignments
  BY <1>8, <1>9
<1>12. UNCHANGED localVars /\ sent' = sent
  BY <1>1
<1> QED
  BY <1>2, <1>3, <1>8, <1>10, <1>11, <1>12, NextObservation

\* Nothing is asked of an idle worker.
LEMMA IdleKept == Idle.pc = "idle" /\ WorkerKept(Idle)'
BY DEF Idle, Processing, WorkerKept

\* Crash: the worker forgets its claim; its call may still arrive.
LEMMA CrashHolds ==
  ASSUME LifecycleHold, NEW CONSTANT w \in Workers, Crash(w)
  PROVE  LifecycleHold'
<1>1. /\ UNCHANGED <<bankVars, localVars>> /\ worker' = [worker EXCEPT ![w] = Idle]
      /\ sent' = sent \/ (sent' = sent \cup {CallOf(worker[w])} /\ worker[w].pc # "idle")
  BY DEF Crash
<1>2. faults' \in 0..MaxFaults
  BY FaultCounted DEF Crash, LifecycleHold
<1>3. CoreHold' /\ Lasting
  BY <1>1, StillHolds DEF localVars, Carried
<1> QED
  BY <1>1, <1>2, <1>3, IdleKept, NextObservation

\* Deadline and LeaseRunsOut: no phase changes.
LEMMA TimeHolds ==
  ASSUME LifecycleHold, Deadline \/ \E a \in Assignments : LeaseRunsOut(a)
  PROVE  LifecycleHold'
<1>1. UNCHANGED <<bankVars, order, offers, outcome, worker, sent>>
  BY DEF Deadline, LeaseRunsOut, runVars
<1>2. /\ DOMAIN attempts' = Assignments /\ DOMAIN withdrawals' = Assignments
      /\ \A a \in Assignments :
           /\ attempts'[a].phase = attempts[a].phase /\ attempts'[a].courier = attempts[a].courier
           /\ attempts'[a].amount = attempts[a].amount /\ attempts'[a].original = attempts[a].original
           /\ attempts'[a].offer = attempts[a].offer /\ withdrawals'[a].status = withdrawals[a].status
  <2>1. CASE Deadline
    BY <2>1 DEF Deadline, LifecycleHold, LifecycleTypeOK
  <2>2. ASSUME NEW a \in Assignments, LeaseRunsOut(a)
        PROVE  <1>2!:
    BY <2>2 DEF LeaseRunsOut, Advanced, Withdrawal, LifecycleHold, LifecycleTypeOK
  <2> QED
    BY <2>1, <2>2
<1>3. faults' \in 0..MaxFaults
  <2>1. faults' = faults \/ (faults < MaxFaults /\ faults' = faults + 1)
    BY DEF Deadline, LeaseRunsOut, Stalled, runVars
  <2>2. LifecycleTypeOK /\ faults \in 0..MaxFaults
    BY DEF LifecycleHold, LifecycleTypeOK
  <2> QED
    BY <2>1, <2>2, FaultCounted
<1>4. Carried
  BY <1>2 DEF Carried
<1>5. CoreHold' /\ Lasting
  BY <1>1, <1>2, <1>4, StillHolds
<1>6. RunKept'
  BY <1>1, <1>5, RunLasts DEF LifecycleHold
<1>7. OffersKept'
  BY <1>1, <1>2 DEF LifecycleHold, OffersKept, OffersDecided, Active
<1>8. LifecycleTypeOK'
  BY <1>1, <1>2, <1>3 DEF LifecycleHold, LifecycleTypeOK
<1> QED
  BY <1>5, <1>6, <1>7, <1>8 DEF LifecycleHold, CoreHold

\* A second transaction: the worker is done with its claim.
LEMMA FinishStep ==
  ASSUME LifecycleHold, NEW CONSTANT w \in Workers, worker' = [worker EXCEPT ![w] = Idle],
         UNCHANGED <<bankVars, outcome, sent, faults>>, Carried, OutcomeKept', OrderKept',
         \A a \in Assignments : (Reverting(a) => Reverting(a)') /\ AttemptKept(a)',
         OffersKept',
         /\ order'.status \in Statuses /\ order'.courier \in Couriers \cup {Bank!NoUser}
         /\ order'.assignment \in Assignments \cup {NoAssignment}
         /\ order'.withdrawing => order'.status = "awaiting_pickup",
         DOMAIN attempts' = Assignments, DOMAIN withdrawals' = Assignments,
         DOMAIN offers' = DOMAIN offers,
         \A a \in Assignments :
           /\ attempts'[a].phase \in Phases
           /\ attempts'[a].courier = attempts[a].courier /\ attempts'[a].offer = attempts[a].offer
           /\ attempts'[a].phase # "none" => attempts[a].phase # "none"
           /\ withdrawals'[a].status \in {"none", "pending", "succeeded", "superseded"},
         \A i \in DOMAIN offers : offers'[i].status \in {"none", "open", "accepting", "accepted", "void"}
  PROVE  LifecycleHold'
<1>1. CoreHold /\ RunKept /\ DOMAIN worker = Workers
  BY DEF LifecycleHold, LifecycleTypeOK, CoreHold
<1>2. BankShape' /\ RowKept'
  BY <1>1, RowLasts
<1>3. Lasting
  BY LocalLasts
<1>4. RunKept'
  BY <1>1, <1>3, IdleKept, WorkerStep
<1>5. LifecycleTypeOK'
  <2>1. /\ DOMAIN worker' = Workers
        /\ \A v \in Workers :
             /\ worker'[v].pc \in {"idle", "calling", "reading", "finishing"}
             /\ worker'[v].pc # "idle" => worker'[v].id \in Assignments
    BY IdleKept DEF LifecycleHold, LifecycleTypeOK
  <2> QED
    BY <2>1 DEF LifecycleHold, LifecycleTypeOK
<1> QED
  BY <1>2, <1>4, <1>5 DEF LifecycleHold, AttemptsKept

\* An attempt that is finished: its own row advances, others stay.
LEMMA Resolved ==
  ASSUME LifecycleHold, UNCHANGED bankVars, NEW CONSTANT a \in Assignments, NEW phase, NEW rejection,
         Active(a), Resolve(a, phase, rejection), phase \in Phases \ {"none"}
  PROVE  /\ Carried /\ DOMAIN attempts' = Assignments /\ attempts'[a].phase = phase
         /\ \A b \in Assignments \ {a} : attempts'[b] = attempts[b]
         /\ \A b \in Assignments :
              /\ attempts'[b].phase \in Phases
              /\ attempts'[b].courier = attempts[b].courier /\ attempts'[b].offer = attempts[b].offer
              /\ attempts'[b].amount = attempts[b].amount /\ attempts'[b].original = attempts[b].original
              /\ attempts'[b].phase # "none" => attempts[b].phase # "none"
<1>1. /\ DOMAIN attempts' = Assignments
      /\ attempts'[a] = Advanced(attempts[a], phase, rejection, attempts[a].generation, FALSE)
      /\ \A b \in Assignments \ {a} : attempts'[b] = attempts[b]
  BY DEF Resolve, LifecycleHold, LifecycleTypeOK
<1>2. /\ attempts'[a].phase = phase /\ attempts'[a].courier = attempts[a].courier
      /\ attempts'[a].offer = attempts[a].offer /\ attempts'[a].amount = attempts[a].amount
      /\ attempts'[a].original = attempts[a].original /\ attempts[a].phase # "none"
  BY <1>1 DEF Advanced, Active
<1>3. \A b \in Assignments : attempts[b].phase \in Phases
  BY DEF LifecycleHold, LifecycleTypeOK
<1> QED
  BY <1>1, <1>2, <1>3 DEF Carried

\* The attempt a worker finishes, in its current claim.
LEMMA Current ==
  ASSUME LifecycleHold, NEW CONSTANT w \in Workers, NEW CONSTANT p, p = worker[w],
         p.pc = "finishing", CurrentAttempt(p)
  PROVE  /\ p.id \in Assignments /\ attempts[p.id].phase = p.phase /\ AttemptKept(p.id)
         /\ WorkerKept(p) /\ attempts[p.id].phase # "none"
<1>1. p.id \in Assignments /\ WorkerKept(p) /\ attempts[p.id].phase = p.phase
  BY DEF LifecycleHold, LifecycleTypeOK, RunKept, CurrentAttempt
<1>2. AttemptKept(p.id)
  BY <1>1 DEF LifecycleHold, AttemptsKept
<1>3. attempts[p.id].phase # "none"
  BY <1>1 DEF WorkerKept, CallKept, CallOf
<1> QED
  BY <1>1, <1>2, <1>3

\* The claim of a finished attempt is given back, or it turns to the revert.
LEMMA TurnHolds ==
  ASSUME LifecycleHold, NEW CONSTANT w \in Workers, worker' = [worker EXCEPT ![w] = Idle],
         UNCHANGED <<bankVars, order, offers, withdrawals, outcome, sent, faults>>,
         NEW CONSTANT a \in Assignments, NEW phase, NEW rejection, Active(a),
         phase = attempts[a].phase \/ phase = "revert_pending",
         Resolve(a, phase, rejection)
  PROVE  LifecycleHold'
<1>1. CoreHold /\ phase \in Phases \ {"none"} /\ phase \in {"adjustment_pending", "revert_pending"}
  BY DEF LifecycleHold, CoreHold, Phases, Active
<1>2. /\ Carried /\ DOMAIN attempts' = Assignments /\ attempts'[a].phase = phase
      /\ \A b \in Assignments \ {a} : attempts'[b] = attempts[b]
      /\ \A b \in Assignments :
           /\ attempts'[b].phase \in Phases
           /\ attempts'[b].courier = attempts[b].courier /\ attempts'[b].offer = attempts[b].offer
           /\ attempts'[b].amount = attempts[b].amount /\ attempts'[b].original = attempts[b].original
           /\ attempts'[b].phase # "none" => attempts[b].phase # "none"
  BY <1>1, Resolved
<1>3. \A b \in Assignments : Reverting(b) => Reverting(b)'
  BY <1>1, <1>2 DEF Reverting, Active
<1>4. ASSUME NEW CONSTANT b \in Assignments
      PROVE  AttemptKept(b)'
  <2>1. CASE b # a
    BY <1>1, <1>2, <2>1, AttemptLasts
  <2>2. CASE b = a
    <3>1. AttemptKept(a)
      BY <1>1 DEF CoreHold, AttemptsKept
    <3>2. /\ Row' = Row /\ (Applied(a)' <=> Applied(a)) /\ OfferAt(a)' = OfferAt(a)
          /\ (Bank!Reverted(This, a)' <=> Bank!Reverted(This, a))
          /\ operations'[Bank!RevertKey(This, a)] = operations[Bank!RevertKey(This, a)]
      BY DEF bankVars, Row, Applied, OfferAt, Bank!Reverted, Bank!RevertKey
    <3>3. (Reverting(a) => Reverting(a)') /\ withdrawals[a].status = "none"
      BY <1>3, <3>1 DEF AttemptKept, Active
    <3> QED
      BY <1>1, <1>2, <2>2, <3>1, <3>2, <3>3 DEF AttemptKept, Active
  <2> QED
    BY <2>1, <2>2
<1>5. OutcomeKept'
  BY <1>1 DEF CoreHold, OutcomeKept, bankVars, Row
<1>6. OrderKept'
  <2>1. (Taken' <=> Taken) /\ \A b : Applied(b)' <=> Applied(b)
    BY DEF Taken, bankVars, Applied, OfferAt
  <2>2. Taken => order.assignment # a
    BY <1>1 DEF CoreHold, OrderKept, Active
  <2> QED
    BY <1>1, <1>2, <2>1, <2>2 DEF CoreHold, OrderKept
<1>7. OffersKept'
  <2>1. \A b \in Assignments : Active(b) => Active(b)'
    BY <1>1, <1>2 DEF Active
  <2> QED
    BY <1>2, <2>1 DEF LifecycleHold, OffersKept, OffersDecided
<1>8. \A i \in DOMAIN offers : offers'[i].status \in {"none", "open", "accepting", "accepted", "void"}
  BY DEF LifecycleHold, LifecycleTypeOK
<1>9. /\ order'.status \in Statuses /\ order'.courier \in Couriers \cup {Bank!NoUser}
      /\ order'.assignment \in Assignments \cup {NoAssignment}
      /\ order'.withdrawing => order'.status = "awaiting_pickup"
  BY DEF LifecycleHold, LifecycleTypeOK
<1>10. /\ DOMAIN withdrawals' = Assignments
       /\ \A b \in Assignments : withdrawals'[b].status \in {"none", "pending", "succeeded", "superseded"}
  BY DEF LifecycleHold, LifecycleTypeOK
<1> QED
  BY <1>2, <1>3, <1>4, <1>5, <1>6, <1>7, <1>8, <1>9, <1>10, FinishStep

\* A rejection: only once Credit has fenced the attempt, whatever was read.
LEMMA RejectHolds ==
  ASSUME LifecycleHold, NEW CONSTANT w \in Workers, worker' = [worker EXCEPT ![w] = Idle],
         UNCHANGED <<bankVars, order, withdrawals, outcome, sent, faults>>,
         NEW CONSTANT a \in Assignments, NEW rejection, attempts[a].phase = "revert_pending",
         Bank!Reverted(This, a), Resolve(a, "rejected", rejection), offers' = ResolvedOffer(a)
  PROVE  LifecycleHold'
<1>1. CoreHold /\ Active(a) /\ "rejected" \in Phases \ {"none"}
  BY DEF LifecycleHold, CoreHold, Phases, Active
<1>2. /\ Carried /\ DOMAIN attempts' = Assignments /\ attempts'[a].phase = "rejected"
      /\ \A b \in Assignments \ {a} : attempts'[b] = attempts[b]
      /\ \A b \in Assignments :
           /\ attempts'[b].phase \in Phases
           /\ attempts'[b].courier = attempts[b].courier /\ attempts'[b].offer = attempts[b].offer
           /\ attempts'[b].amount = attempts[b].amount /\ attempts'[b].original = attempts[b].original
           /\ attempts'[b].phase # "none" => attempts[b].phase # "none"
  BY <1>1, Resolved
<1>3. \A b \in Assignments : Reverting(b) => Reverting(b)'
  BY <1>2 DEF Reverting
<1>4. ASSUME NEW CONSTANT b \in Assignments
      PROVE  AttemptKept(b)'
  <2>1. CASE b # a
    BY <1>1, <1>2, <2>1, AttemptLasts
  <2>2. CASE b = a
    <3>1. AttemptKept(a)
      BY <1>1 DEF CoreHold, AttemptsKept
    <3>2. /\ Row' = Row /\ (Applied(a)' <=> Applied(a)) /\ OfferAt(a)' = OfferAt(a)
          /\ Bank!Reverted(This, a)'
          /\ operations'[Bank!RevertKey(This, a)] = operations[Bank!RevertKey(This, a)]
      BY DEF bankVars, Row, Applied, OfferAt, Bank!Reverted, Bank!RevertKey
    <3>3. Reverting(a)' /\ withdrawals[a].status = "none"
      BY <1>2, <3>1 DEF AttemptKept, Reverting
    <3> QED
      BY <1>2, <2>2, <3>1, <3>2, <3>3 DEF AttemptKept
  <2> QED
    BY <2>1, <2>2
<1>5. OutcomeKept'
  BY <1>1 DEF CoreHold, OutcomeKept, bankVars, Row
<1>6. OrderKept'
  <2>1. (Taken' <=> Taken) /\ \A b : Applied(b)' <=> Applied(b)
    BY DEF Taken, bankVars, Applied, OfferAt
  <2>2. Taken => order.assignment # a
    BY <1>1 DEF CoreHold, OrderKept
  <2> QED
    BY <1>1, <1>2, <2>1, <2>2 DEF CoreHold, OrderKept
<1>7. PICK i : i = attempts[a].offer /\ i \in DOMAIN offers
  BY DEF LifecycleHold, LifecycleTypeOK
<1>8. /\ DOMAIN offers' = DOMAIN offers
      /\ \A j \in DOMAIN offers \ {i} : offers'[j] = offers[j]
      /\ offers'[i].status = "void" \/ (offers'[i].status = "open" /\ order.status = "awaiting_courier")
  BY <1>7 DEF ResolvedOffer, OfferIn, OfferRow, Available
<1>9. OffersKept'
  <2>1. ASSUME NEW j \in DOMAIN offers, offers'[j].status = "accepting"
        PROVE  /\ offers'[j].attempt \in Assignments /\ attempts'[offers'[j].attempt].offer = j
               /\ Active(offers[j].attempt)'
    <3>1. j # i /\ offers'[j] = offers[j]
      BY <1>8, <2>1
    <3>2. PICK b \in Assignments : b = offers[j].attempt /\ attempts[b].offer = j /\ Active(b)
      BY <2>1, <3>1 DEF LifecycleHold, OffersKept, OffersDecided
    <3>3. b # a
      BY <1>7, <3>1, <3>2
    <3>4. attempts'[b] = attempts[b] /\ offers'[j].attempt = b
      BY <1>2, <3>1, <3>2, <3>3
    <3> QED
      BY <3>2, <3>4 DEF Active
  <2>2. \A j \in DOMAIN offers : offers'[j].status = "open" => order'.status = "awaiting_courier"
    BY <1>8 DEF LifecycleHold, OffersKept, OffersDecided
  <2> QED
    BY <1>8, <2>1, <2>2 DEF OffersKept, OffersDecided
<1>10. \A j \in DOMAIN offers : offers'[j].status \in {"none", "open", "accepting", "accepted", "void"}
  BY <1>8 DEF LifecycleHold, LifecycleTypeOK
<1>11. /\ order'.status \in Statuses /\ order'.courier \in Couriers \cup {Bank!NoUser}
       /\ order'.assignment \in Assignments \cup {NoAssignment}
       /\ order'.withdrawing => order'.status = "awaiting_pickup"
  BY DEF LifecycleHold, LifecycleTypeOK
<1>12. /\ DOMAIN withdrawals' = Assignments
       /\ \A b \in Assignments : withdrawals'[b].status \in {"none", "pending", "succeeded", "superseded"}
  BY DEF LifecycleHold, LifecycleTypeOK
<1> QED
  BY <1>2, <1>3, <1>4, <1>5, <1>6, <1>8, <1>9, <1>10, <1>11, <1>12, FinishStep

\* An assignment: what was read is still so, for Order has asked for no revert.
LEMMA AssignHolds ==
  ASSUME LifecycleHold, NEW CONSTANT w \in Workers, worker' = [worker EXCEPT ![w] = Idle],
         UNCHANGED <<bankVars, withdrawals, outcome, sent, faults>>,
         NEW CONSTANT a \in Assignments, attempts[a].phase = "adjustment_pending", Available,
         OfferAt(a).status # "NONE", Resolve(a, "succeeded", "none"),
         order' = Order("awaiting_pickup", attempts[a].courier, attempts[a].amount,
                        attempts[a].amount, a, FALSE),
         offers' = Accepted(attempts[a].offer)
  PROVE  LifecycleHold'
<1>1. CoreHold /\ Active(a) /\ "succeeded" \in Phases \ {"none"} /\ order.status = "awaiting_courier"
  BY DEF LifecycleHold, CoreHold, Phases, Active, Available
<1>2. /\ Carried /\ DOMAIN attempts' = Assignments /\ attempts'[a].phase = "succeeded"
      /\ \A b \in Assignments \ {a} : attempts'[b] = attempts[b]
      /\ \A b \in Assignments :
           /\ attempts'[b].phase \in Phases
           /\ attempts'[b].courier = attempts[b].courier /\ attempts'[b].offer = attempts[b].offer
           /\ attempts'[b].amount = attempts[b].amount /\ attempts'[b].original = attempts[b].original
           /\ attempts'[b].phase # "none" => attempts[b].phase # "none"
  BY <1>1, Resolved
<1>3. /\ order'.status = "awaiting_pickup" /\ order'.courier = attempts[a].courier
      /\ order'.reward = attempts[a].amount /\ order'.held = attempts[a].amount
      /\ order'.assignment = a /\ order'.withdrawing = FALSE
  BY DEF Order
<1>4. /\ withdrawals[a].status = "none" /\ ~Bank!Reverted(This, a) /\ Applied(a)
  <2>1. AttemptKept(a)
    BY <1>1 DEF CoreHold, AttemptsKept
  <2>2. withdrawals[a].status = "none" /\ ~Bank!Reverted(This, a)
    BY <2>1 DEF AttemptKept, Reverting
  <2> QED
    BY <2>2 DEF Applied, Bank!Reverted, OfferAt, LifecycleHold, BankShape
<1>5. \A b \in Assignments : Reverting(b) => Reverting(b)'
  BY <1>2, <1>4 DEF Reverting
<1>6. ASSUME NEW CONSTANT b \in Assignments
      PROVE  AttemptKept(b)'
  <2>1. CASE b # a
    <3>1. order.assignment # b
      BY <1>1, AssignmentAssumption DEF CoreHold, OrderKept
    <3> QED
      BY <1>1, <1>2, <2>1, <3>1, AttemptLasts
  <2>2. CASE b = a
    <3>1. AttemptKept(a)
      BY <1>1 DEF CoreHold, AttemptsKept
    <3>2. /\ Row' = Row /\ (Applied(a)' <=> Applied(a)) /\ OfferAt(a)' = OfferAt(a)
          /\ (Bank!Reverted(This, a)' <=> Bank!Reverted(This, a))
          /\ operations'[Bank!RevertKey(This, a)] = operations[Bank!RevertKey(This, a)]
      BY DEF bankVars, Row, Applied, OfferAt, Bank!Reverted, Bank!RevertKey
    <3> QED
      BY <1>2, <1>3, <1>4, <2>2, <3>1, <3>2 DEF AttemptKept
  <2> QED
    BY <2>1, <2>2
<1>7. OutcomeKept'
  BY <1>1, <1>3 DEF CoreHold, OutcomeKept, bankVars, Row
<1>8. OrderKept'
  <2>1. Applied(a)' /\ withdrawals'[a].status = "none"
    BY <1>4 DEF bankVars, Applied, OfferAt
  <2>2. outcome'.type \notin Bank!PayoutTypes
    BY <1>1 DEF CoreHold, OutcomeKept, Bank!PayoutTypes
  <2> QED
    BY <1>2, <1>3, <2>1, <2>2 DEF OrderKept
<1>9. PICK i : i = attempts[a].offer /\ i \in DOMAIN offers
  BY DEF LifecycleHold, LifecycleTypeOK
<1>10. /\ DOMAIN offers' = DOMAIN offers
       /\ \A j \in DOMAIN offers :
            /\ offers'[j].attempt = offers[j].attempt
            /\ offers'[j].status = IF j = i THEN "accepted"
                                   ELSE IF offers[j].status = "open" THEN "void" ELSE offers[j].status
  BY <1>9 DEF Accepted, OfferIn, OfferRow
<1>11. OffersKept'
  <2>1. ASSUME NEW j \in DOMAIN offers, offers'[j].status = "accepting"
        PROVE  /\ offers'[j].attempt \in Assignments /\ attempts'[offers'[j].attempt].offer = j
               /\ Active(offers[j].attempt)'
    <3>1. j # i /\ offers[j].status = "accepting" /\ offers'[j].attempt = offers[j].attempt
      BY <1>10, <2>1
    <3>2. PICK b \in Assignments : b = offers[j].attempt /\ attempts[b].offer = j /\ Active(b)
      BY <3>1 DEF LifecycleHold, OffersKept, OffersDecided
    <3>3. b # a
      BY <1>9, <3>1, <3>2
    <3>4. attempts'[b] = attempts[b] /\ offers'[j].attempt = b
      BY <1>2, <3>1, <3>2, <3>3
    <3> QED
      BY <3>2, <3>4 DEF Active
  <2>2. \A j \in DOMAIN offers : offers'[j].status # "open"
    BY <1>10
  <2> QED
    BY <1>10, <2>1, <2>2 DEF OffersKept, OffersDecided
<1>12. \A j \in DOMAIN offers : offers'[j].status \in {"none", "open", "accepting", "accepted", "void"}
  BY <1>10 DEF LifecycleHold, LifecycleTypeOK
<1>13. /\ order'.status \in Statuses /\ order'.courier \in Couriers \cup {Bank!NoUser}
       /\ order'.assignment \in Assignments \cup {NoAssignment}
       /\ order'.withdrawing => order'.status = "awaiting_pickup"
  BY <1>3 DEF LifecycleHold, LifecycleTypeOK, Statuses
<1>14. /\ DOMAIN withdrawals' = Assignments
       /\ \A b \in Assignments : withdrawals'[b].status \in {"none", "pending", "succeeded", "superseded"}
  BY DEF LifecycleHold, LifecycleTypeOK
<1> QED
  BY <1>2, <1>5, <1>6, <1>7, <1>8, <1>10, <1>11, <1>12, <1>13, <1>14, FinishStep

\* A worker that is no longer current writes nothing.
LEMMA StaleHolds ==
  ASSUME LifecycleHold, NEW CONSTANT w \in Workers, worker' = [worker EXCEPT ![w] = Idle],
         UNCHANGED <<bankVars, localVars, sent, faults>>
  PROVE  LifecycleHold'
<1>1. CoreHold' /\ Lasting
  BY StillHolds DEF localVars, Carried
<1>2. faults' \in 0..MaxFaults
  BY DEF LifecycleHold, LifecycleTypeOK
<1> QED
  BY <1>1, <1>2, IdleKept, NextObservation

\* FinishAttempt.
LEMMA FinishAttemptHolds ==
  ASSUME LifecycleHold, NEW CONSTANT w \in Workers, FinishAttempt(w)
  PROVE  LifecycleHold'
<1>1. PICK p : p = worker[w]
  OBVIOUS
<1>2. /\ p.pc = "finishing" /\ worker' = [worker EXCEPT ![w] = Idle]
      /\ UNCHANGED <<bankVars, expired, withdrawals, outcome, sent, faults>>
      /\ \/ CurrentAttempt(p) /\ AttemptStep(p)
         \/ ~CurrentAttempt(p) /\ UNCHANGED <<attempts, order, offers>>
  BY <1>1 DEF FinishAttempt
<1>3. CASE ~CurrentAttempt(p) /\ UNCHANGED <<attempts, order, offers>>
  BY <1>2, <1>3, StaleHolds DEF localVars
<1>4. CASE CurrentAttempt(p) /\ AttemptStep(p)
  <2>1. PICK a \in Assignments : a = p.id
    BY <1>1, <1>2, <1>4, Current
  <2>2. /\ attempts[a].phase = p.phase /\ AttemptKept(a) /\ WorkerKept(p) /\ attempts[a].phase # "none"
    BY <1>1, <1>2, <1>4, <2>1, Current
  <2>3. CASE /\ attempts[a].phase = "revert_pending" /\ ConfirmsRevert(p.view, a)
             /\ Resolve(a, "rejected", attempts[a].rejection)
             /\ offers' = ResolvedOffer(a) /\ UNCHANGED order
    <3>1. Bank!Reverted(This, a)
      BY <1>2, <2>1, <2>2, <2>3 DEF WorkerKept, ConfirmsRevert
    <3> QED
      BY <1>2, <2>3, <3>1, RejectHolds
  <2>4. CASE /\ attempts[a].phase = "adjustment_pending" /\ (~Available \/ p.refused)
             /\ Resolve(a, "revert_pending",
                        IF Available THEN "insufficient_credits" ELSE "order_unavailable")
             /\ UNCHANGED <<order, offers>>
    <3>1. Active(a)
      BY <2>4 DEF Active
    <3> QED
      BY <1>2, <2>4, <3>1, TurnHolds
  <2>5. CASE /\ attempts[a].phase = "adjustment_pending" /\ Available /\ ConfirmsAdjustment(p.view, a)
             /\ Resolve(a, "succeeded", "none")
             /\ order' = Order("awaiting_pickup", attempts[a].courier, attempts[a].amount,
                               attempts[a].amount, a, FALSE)
             /\ offers' = Accepted(attempts[a].offer)
    <3>1. OfferAt(a).status # "NONE"
      BY <1>2, <2>2, <2>5 DEF WorkerKept, ConfirmsAdjustment
    <3> QED
      BY <1>2, <2>5, <3>1, AssignHolds
  <2>6. CASE /\ Resolve(a, attempts[a].phase, attempts[a].rejection)
             /\ UNCHANGED <<order, offers>>
    <3>1. CASE Active(a)
      BY <1>2, <2>6, <3>1, TurnHolds
    <3>2. CASE ~Active(a)
      <4>1. /\ DOMAIN attempts' = Assignments
            /\ attempts'[a] = Advanced(attempts[a], attempts[a].phase, attempts[a].rejection,
                                       attempts[a].generation, FALSE)
            /\ \A b \in Assignments \ {a} : attempts'[b] = attempts[b]
        BY <2>6 DEF Resolve, LifecycleHold, LifecycleTypeOK
      <4>2. \A b \in Assignments :
              /\ attempts'[b].phase = attempts[b].phase /\ attempts'[b].courier = attempts[b].courier
              /\ attempts'[b].amount = attempts[b].amount /\ attempts'[b].original = attempts[b].original
              /\ attempts'[b].offer = attempts[b].offer
        BY <4>1 DEF Advanced
      <4>3. Carried
        BY <4>2 DEF Carried
      <4>4. CoreHold' /\ Lasting
        BY <1>2, <2>6, <4>2, <4>3, StillHolds
      <4>5. \A b \in Assignments : Active(b) <=> Active(b)'
        BY <4>2 DEF Active
      <4>6. DOMAIN withdrawals' = Assignments /\ faults' \in 0..MaxFaults
        BY <1>2 DEF LifecycleHold, LifecycleTypeOK
      <4> QED
        BY <1>2, <2>6, <4>1, <4>2, <4>4, <4>5, <4>6, IdleKept, ObserveStep
    <3> QED
      BY <3>1, <3>2
  <2> QED
    BY <1>4, <2>1, <2>3, <2>4, <2>5, <2>6 DEF AttemptStep
<1> QED
  BY <1>2, <1>3, <1>4

\* A confirmed withdrawal opens the order again, on the hold it had at first.
LEMMA ReopenHolds ==
  ASSUME LifecycleHold, NEW CONSTANT w \in Workers, worker' = [worker EXCEPT ![w] = Idle],
         UNCHANGED <<bankVars, attempts, offers, outcome, sent, faults>>,
         NEW CONSTANT a \in Assignments, NEW generation, MatchesWithdrawal(a), Bank!Reverted(This, a),
         order' = Order("awaiting_courier", Bank!NoUser, attempts[a].original, attempts[a].original,
                        NoAssignment, FALSE),
         withdrawals' = [withdrawals EXCEPT ![a] = Withdrawal("succeeded", generation, FALSE)]
  PROVE  LifecycleHold'
<1>1. /\ CoreHold /\ order.status = "awaiting_pickup" /\ order.assignment = a /\ Taken
  BY DEF LifecycleHold, CoreHold, MatchesWithdrawal, Taken
<1>2. attempts[a].phase = "succeeded" /\ attempts[a].original = Reward
  BY <1>1 DEF CoreHold, OrderKept, AttemptsKept, AttemptKept
<1>3. /\ order'.status = "awaiting_courier" /\ order'.courier = Bank!NoUser /\ order'.reward = Reward
      /\ order'.held = Reward /\ order'.assignment = NoAssignment /\ order'.withdrawing = FALSE
  BY <1>2 DEF Order
<1>4. /\ DOMAIN withdrawals' = Assignments /\ withdrawals'[a].status = "succeeded"
      /\ \A b \in Assignments \ {a} : withdrawals'[b] = withdrawals[b]
  BY DEF Withdrawal, LifecycleHold, LifecycleTypeOK
<1>5. Carried
  BY DEF Carried
<1>6. \A b \in Assignments : Reverting(b) => Reverting(b)'
  BY <1>4 DEF Reverting
<1>7. ASSUME NEW CONSTANT b \in Assignments
      PROVE  AttemptKept(b)'
  <2>1. CASE b # a
    BY <1>1, <1>4, <1>5, <2>1, AttemptLasts
  <2>2. CASE b = a
    <3>1. AttemptKept(a)
      BY <1>1 DEF CoreHold, AttemptsKept
    <3>2. /\ Row' = Row /\ (Applied(a)' <=> Applied(a)) /\ OfferAt(a)' = OfferAt(a)
          /\ Bank!Reverted(This, a)'
          /\ operations'[Bank!RevertKey(This, a)] = operations[Bank!RevertKey(This, a)]
      BY DEF bankVars, Row, Applied, OfferAt, Bank!Reverted, Bank!RevertKey
    <3>3. Reverting(a)'
      BY <1>4 DEF Reverting
    <3> QED
      BY <1>2, <1>4, <2>2, <3>1, <3>2, <3>3 DEF AttemptKept
  <2> QED
    BY <2>1, <2>2
<1>8. OutcomeKept'
  BY <1>1, <1>3 DEF CoreHold, OutcomeKept, bankVars, Row
<1>9. OrderKept'
  <2>1. outcome'.type \notin Bank!PayoutTypes
    BY <1>1 DEF CoreHold, OutcomeKept, Bank!PayoutTypes
  <2> QED
    BY <1>3, <2>1 DEF OrderKept, Taken
<1>10. OffersKept'
  BY <1>3 DEF LifecycleHold, OffersKept, OffersDecided, Active
<1>11. /\ order'.status \in Statuses /\ order'.courier \in Couriers \cup {Bank!NoUser}
       /\ order'.assignment \in Assignments \cup {NoAssignment}
       /\ order'.withdrawing => order'.status = "awaiting_pickup"
  BY <1>3 DEF Statuses
<1>12. /\ DOMAIN attempts' = Assignments
       /\ \A b \in Assignments :
            /\ attempts'[b].phase \in Phases
            /\ withdrawals'[b].status \in {"none", "pending", "succeeded", "superseded"}
       /\ \A i \in DOMAIN offers :
            offers'[i].status \in {"none", "open", "accepting", "accepted", "void"}
  BY <1>4 DEF LifecycleHold, LifecycleTypeOK
<1> QED
  BY <1>4, <1>5, <1>6, <1>7, <1>8, <1>9, <1>10, <1>11, <1>12, FinishStep

\* FinishWithdrawal.
LEMMA FinishWithdrawalHolds ==
  ASSUME LifecycleHold, NEW CONSTANT w \in Workers, FinishWithdrawal(w)
  PROVE  LifecycleHold'
<1>1. PICK p : p = worker[w]
  OBVIOUS
<1>2. p.pc = "finishing" /\ p.id \in Assignments /\ WorkerKept(p) /\ p.kind = "withdrawal"
  BY <1>1 DEF FinishWithdrawal, LifecycleHold, LifecycleTypeOK, RunKept
<1>3. PICK a \in Assignments : a = p.id
  BY <1>2
<1>4. /\ worker' = [worker EXCEPT ![w] = Idle]
      /\ UNCHANGED <<bankVars, expired, attempts, offers, outcome, sent, faults>>
      /\ \/ /\ MatchesWithdrawal(a) /\ ConfirmsWithdrawal(p.view, a)
            /\ order' = Order("awaiting_courier", Bank!NoUser, attempts[a].original,
                              attempts[a].original, NoAssignment, FALSE)
            /\ withdrawals' = [withdrawals EXCEPT ![a] = Withdrawal("succeeded", p.generation, FALSE)]
         \/ /\ CurrentWithdrawal(p) /\ UNCHANGED order
            /\ withdrawals' = [withdrawals EXCEPT ![a] = Withdrawal("pending", p.generation, FALSE)]
         \/ UNCHANGED <<order, withdrawals>>
  BY <1>1, <1>3 DEF FinishWithdrawal
<1>5. CASE /\ MatchesWithdrawal(a) /\ ConfirmsWithdrawal(p.view, a)
           /\ order' = Order("awaiting_courier", Bank!NoUser, attempts[a].original,
                             attempts[a].original, NoAssignment, FALSE)
           /\ withdrawals' = [withdrawals EXCEPT ![a] = Withdrawal("succeeded", p.generation, FALSE)]
  <2>1. Bank!Reverted(This, a)
    BY <1>2, <1>3, <1>5 DEF WorkerKept, ConfirmsWithdrawal
  <2> QED
    BY <1>4, <1>5, <2>1, ReopenHolds
<1>6. CASE /\ CurrentWithdrawal(p) /\ UNCHANGED order
           /\ withdrawals' = [withdrawals EXCEPT ![a] = Withdrawal("pending", p.generation, FALSE)]
  <2>1. /\ DOMAIN withdrawals' = Assignments
        /\ \A b \in Assignments : withdrawals'[b].status = withdrawals[b].status
    BY <1>3, <1>6 DEF CurrentWithdrawal, Withdrawal, LifecycleHold, LifecycleTypeOK
  <2>2. Carried
    BY <1>4 DEF Carried
  <2>3. CoreHold' /\ Lasting
    BY <1>4, <1>6, <2>1, <2>2, StillHolds
  <2>4. \A b \in Assignments : attempts'[b] = attempts[b] /\ (Active(b) <=> Active(b)')
    BY <1>4 DEF Active
  <2>5. DOMAIN attempts' = Assignments /\ faults' \in 0..MaxFaults
    BY <1>4 DEF LifecycleHold, LifecycleTypeOK
  <2> QED
    BY <1>4, <1>6, <2>1, <2>3, <2>4, <2>5, IdleKept, ObserveStep
<1>7. CASE UNCHANGED <<order, withdrawals>>
  BY <1>4, <1>7, StaleHolds DEF localVars
<1> QED
  BY <1>4, <1>5, <1>6, <1>7

-----------------------------------------------------------------------------
(* The specification *)

\* Every step keeps the invariant.
LEMMA StepHolds ==
  ASSUME LifecycleHold, [LifecycleNext]_vars
  PROVE  LifecycleHold'
<1>1. CASE UNCHANGED vars
  <2>1. UNCHANGED <<bankVars, order, attempts, withdrawals, outcome, offers, worker, sent, faults>>
    BY <1>1 DEF vars, localVars, runVars
  <2>2. LifecycleTypeOK' /\ OffersKept'
    BY <2>1 DEF LifecycleHold, LifecycleTypeOK, OffersKept, OffersDecided, Active
  <2>3. CoreHold' /\ Lasting
    BY <2>1, StillHolds DEF Carried
  <2> QED
    BY <2>1, <2>2, <2>3, RunLasts DEF LifecycleHold, CoreHold
<1>2. ASSUME NEW w \in Workers, Process(w) \/ CallUnanswered(w) \/ ReadFails(w) \/ Crash(w)
      PROVE  LifecycleHold'
  BY <1>2, ClaimAttemptHolds, ClaimWithdrawalHolds, CallAnsweredHolds, ReadHolds, FinishAttemptHolds,
     FinishWithdrawalHolds, CallUnansweredHolds, CrashHolds DEF Process
<1>3. ASSUME NEW c \in Couriers, NEW a \in Assignments, AcceptOrder(c, a) \/ AcceptOffer(c, a)
      PROVE  LifecycleHold'
  BY <1>3, AcceptHolds
<1>4. ASSUME NEW c \in Couriers, NEW credits \in Amounts, MakeOffer(c, credits)
      PROVE  LifecycleHold'
  BY <1>4, MakeOfferHolds
<1>5. CASE Cancel \/ CourierCancel \/ BeginWithdrawal \/ Expire \/ Timeout
  BY <1>5, CancelHolds, CloseHolds, BeginWithdrawalHolds
<1>6. CASE ConfirmPickup \/ ConfirmDelivery \/ ConfirmReceipt \/ ApplyOutcome \/ Deadline
  BY <1>6, ProgressHolds, CloseHolds, ApplyOutcomeHolds, TimeHolds
<1>7. ASSUME NEW call \in sent, ArriveLate(call)
      PROVE  LifecycleHold'
  BY <1>7, ArriveLateHolds
<1>8. ASSUME NEW a \in Assignments, LeaseRunsOut(a)
      PROVE  LifecycleHold'
  BY <1>8, TimeHolds
<1> QED
  BY <1>1, <1>2, <1>3, <1>4, <1>5, <1>6, <1>7, <1>8 DEF LifecycleNext

\* The inductive invariant holds of every run of an open order, whatever calls
\* are lost, late or repeated and whichever workers crash or stall
\* (assignmentrecovery.go, cancellationrecovery.go).
THEOREM LifecycleIsInvariant == LifecycleSpec => []LifecycleHold
<1>1. LifecycleInit => LifecycleHold
  BY InitHolds
<1>2. LifecycleHold /\ [LifecycleNext]_vars => LifecycleHold'
  BY StepHolds
<1> QED
  BY <1>1, <1>2, PTL DEF LifecycleSpec

\* Order's tables and Credit's agree about the order: a courier has it only on
\* the offer Credit has applied, it is open only on its first hold, and a
\* rejected attempt is fenced (AssignmentsAgree).
THEOREM OrderAndCreditAgree == LifecycleSpec => []AssignmentsAgree
<1>1. LifecycleHold => AssignmentsAgree
  BY HoldImplies
<1> QED
  BY <1>1, LifecycleIsInvariant, PTL

\* Credit never refuses the outcome Order reports (OutcomeAccepted).
THEOREM OutcomesAreAccepted == LifecycleSpec => []OutcomeAccepted
<1>1. LifecycleHold => OutcomeAccepted
  BY HoldImplies
<1> QED
  BY <1>1, LifecycleIsInvariant, PTL
=============================================================================
