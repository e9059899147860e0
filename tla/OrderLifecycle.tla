--------------------------- MODULE OrderLifecycle ---------------------------
(***************************************************************************)
(* An open order until it is closed, run against the credit service: the   *)
(* assignment saga (AcceptOrder, AcceptOffer and their recovery), the      *)
(* withdrawal saga of an assigned courier, cancellation, the expiry and    *)
(* delivery timers, pickup, delivery and receipt, and the order.outcome    *)
(* event that makes Credit pay or release. Credit is changed by RPCs that  *)
(* may be lost, late or repeated, by workers that may crash or stall, and  *)
(* by the outcome, at least once and at any time.                          *)
(*                                                                         *)
(* Idempotency keys of the callers are left out: a repeated request finds  *)
(* the attempt or cancellation it began and changes nothing.               *)
(***************************************************************************)
EXTENDS Integers, FiniteSets

CONSTANTS OrderCount, UserCount, Assignments, NoAssignment, Amounts,
          StartingCredits, Allowed, Elapsed   \* of the credit service

CONSTANTS Workers,
          Reward,      \* what the order offers at first
          MaxFaults    \* bound on lost calls, failed reads, crashes and stalls

\* The order and its requester exist, and no attempt has the name of none.
ASSUME CountsAssumption == OrderCount \in Nat \ {0} /\ UserCount \in Nat \ {0} /\ MaxFaults \in Nat
ASSUME AssignmentAssumption == NoAssignment \notin Assignments

VARIABLES opened, balance, reserved, reservations, revisions, assignments, operations
bankVars == <<opened, balance, reserved, reservations, revisions, assignments, operations>>

VARIABLES
  order,       \* the order's row
  expired,     \* its deadline for finding a courier has passed
  attempts,    \* order_assignment_attempts
  offers,      \* offers: the last counteroffer of a courier, the offer of an AcceptOrder
  withdrawals, \* pending or decided withdrawals, by the assignment they end
  outcome,     \* the order.outcome fact
  worker, sent, faults

localVars == <<order, expired, attempts, offers, withdrawals, outcome>>
runVars == <<worker, sent, faults>>
vars == <<bankVars, localVars, runVars>>

Bank == INSTANCE Credit

This == 1
Requester == 1
Couriers == Bank!Users \ {Requester}

-----------------------------------------------------------------------------
(* Rows *)

Order(status, courier, reward, held, assignment, withdrawing) ==
  [status |-> status, courier |-> courier, reward |-> reward, held |-> held,
   assignment |-> assignment, withdrawing |-> withdrawing]

OrderIn(status) ==
  Order(status, order.courier, order.reward, order.held, order.assignment, FALSE)

Attempt(phase, courier, amount, original, offer) ==
  [phase |-> phase, courier |-> courier, amount |-> amount, original |-> original,
   offer |-> offer, rejection |-> "none", generation |-> 0, leased |-> FALSE]

\* A step of an attempt; whom and what it is about stays.
Advanced(t, phase, rejection, generation, leased) ==
  [phase |-> phase, courier |-> t.courier, amount |-> t.amount, original |-> t.original,
   offer |-> t.offer, rejection |-> rejection, generation |-> generation, leased |-> leased]

NoAttempt == Attempt("none", Bank!NoUser, 0, 0, NoAssignment)
Withdrawal(status, generation, leased) ==
  [status |-> status, generation |-> generation, leased |-> leased]

\* An offer and the last attempt that accepted it.
OfferRow(status, courier, credits, attempt) ==
  [status |-> status, courier |-> courier, credits |-> credits, attempt |-> attempt]
OfferIn(offer, status) == OfferRow(status, offer.courier, offer.credits, offer.attempt)

NoOutcome == [type |-> "NONE", courier |-> Bank!NoUser]

\* A worker between two transactions of the attempt or withdrawal it claimed.
Processing(pc, kind, id, phase, generation, refused, view) ==
  [pc |-> pc, kind |-> kind, id |-> id, phase |-> phase, generation |-> generation,
   refused |-> refused, view |-> view]
Observing(p, pc, refused, view) ==
  Processing(pc, p.kind, p.id, p.phase, p.generation, refused, view)

View(row, courier) == [row |-> row, courier |-> courier]
Unknown == View(Bank!NoReservation, Bank!NoUser)
Idle == Processing("idle", "none", NoAssignment, "none", 0, FALSE, Unknown)

\* The order has just been opened: its reward is held.
LifecycleInit ==
  LET row == Bank!OpenRow("HELD", Requester, Reward, Reward, NoAssignment) IN
  /\ opened = {Requester}
  /\ balance = [u \in Bank!Users |-> IF u = Requester THEN StartingCredits ELSE 0]
  /\ reserved = [u \in Bank!Users |-> IF u = Requester THEN Reward ELSE 0]
  /\ reservations = [o \in Bank!Orders |-> row]
  /\ revisions = [o \in Bank!Orders |-> <<row>>]
  /\ assignments = [o \in Bank!Orders |-> [a \in Assignments |-> Bank!NoOffer]]
  /\ operations = [k \in Bank!Keys |->
       IF k[1] = "RESERVE"
         THEN [status |-> "DONE", payload |-> Bank!Payload(Requester, Reward, "NONE"),
               revision |-> 1]
         ELSE Bank!NoOperation]
  /\ order = Order("awaiting_courier", Bank!NoUser, Reward, Reward, NoAssignment, FALSE)
  /\ expired = FALSE
  /\ attempts = [a \in Assignments |-> NoAttempt]
  /\ offers = [i \in Couriers \cup Assignments |-> OfferRow("none", Bank!NoUser, 0, NoAssignment)]
  /\ withdrawals = [a \in Assignments |-> Withdrawal("none", 0, FALSE)]
  /\ outcome = NoOutcome
  /\ worker = [w \in Workers |-> Idle]
  /\ sent = {}
  /\ faults = 0

-----------------------------------------------------------------------------
(* Offers and the start of an assignment *)

Active(a) == attempts[a].phase \in {"adjustment_pending", "revert_pending"}

Available == order.status = "awaiting_courier" /\ ~expired

CanPropose == Available /\ \A a \in Assignments : ~Active(a)

\* A new counteroffer replaces the courier's open one, which becomes void.
MakeOffer(c, credits) ==
  /\ CanPropose
  /\ credits > order.reward
  /\ offers' = [offers EXCEPT ![c] = OfferRow("open", c, credits, NoAssignment)]
  /\ UNCHANGED <<bankVars, order, expired, attempts, withdrawals, outcome, runVars>>

\* A courier accepts the reward: the attempt comes with an offer of its own.
AcceptOrder(c, a) ==
  /\ CanPropose /\ order.held > 0
  /\ attempts[a] = NoAttempt
  /\ attempts' = [attempts EXCEPT ![a] =
       Attempt("adjustment_pending", c, order.reward, order.held, a)]
  /\ offers' = [offers EXCEPT ![a] = OfferRow("accepting", c, order.reward, a)]
  /\ UNCHANGED <<bankVars, order, expired, withdrawals, outcome, runVars>>

\* An offer may be accepted again only after credits were missing for it.
Acceptable(offer) ==
  /\ offer.status = "open"
  /\ offer.attempt # NoAssignment =>
       /\ attempts[offer.attempt].phase = "rejected"
       /\ attempts[offer.attempt].rejection = "insufficient_credits"

\* The requester accepts a counteroffer.
AcceptOffer(c, a) ==
  /\ CanPropose /\ Acceptable(offers[c])
  /\ offers[c].credits > order.reward
  /\ attempts[a] = NoAttempt
  /\ attempts' = [attempts EXCEPT ![a] =
       Attempt("adjustment_pending", c, offers[c].credits, order.held, c)]
  /\ offers' = [offers EXCEPT ![c] = OfferRow("accepting", c, offers[c].credits, a)]
  /\ UNCHANGED <<bankVars, order, expired, withdrawals, outcome, runVars>>

-----------------------------------------------------------------------------
(* ProcessAssignment and ProcessCancellation, first transaction *)

Due(a) == Active(a) /\ ~attempts[a].leased

\* Mutant: the lease is not taken.
ClaimedUnleased(a) ==
  LET t == attempts[a] IN
  Advanced(t, IF Available THEN t.phase ELSE "revert_pending",
           IF Available THEN t.rejection ELSE "order_unavailable", t.generation + 1, FALSE)

\* A claim of an attempt whose order is no longer available turns to the revert.
Claimed(a) ==
  LET t == attempts[a] IN
  Advanced(t, IF Available THEN t.phase ELSE "revert_pending",
           IF Available THEN t.rejection ELSE "order_unavailable", t.generation + 1, TRUE)

ClaimAttempt(w, a) ==
  /\ worker[w] = Idle
  /\ Due(a)
  /\ attempts' = [attempts EXCEPT ![a] = Claimed(a)]
  /\ worker' = [worker EXCEPT ![w] = Processing("calling", "attempt", a,
       Claimed(a).phase, Claimed(a).generation, FALSE, Unknown)]
  /\ UNCHANGED <<bankVars, order, expired, offers, withdrawals, outcome, sent, faults>>

MatchesWithdrawal(a) ==
  order.status = "awaiting_pickup" /\ order.withdrawing /\ order.assignment = a

DueWithdrawal(a) == withdrawals[a].status = "pending" /\ ~withdrawals[a].leased

ClaimWithdrawal(w, a) ==
  /\ worker[w] = Idle
  /\ DueWithdrawal(a) /\ MatchesWithdrawal(a)
  /\ withdrawals' = [withdrawals EXCEPT ![a] =
       Withdrawal("pending", withdrawals[a].generation + 1, TRUE)]
  /\ worker' = [worker EXCEPT ![w] = Processing("calling", "withdrawal", a,
       "pending", withdrawals[a].generation + 1, FALSE, Unknown)]
  /\ UNCHANGED <<bankVars, order, expired, attempts, offers, outcome, sent, faults>>

-----------------------------------------------------------------------------
(* observeAssignment: the mutation, then the read that alone confirms it *)

CallOf(p) == IF p.phase = "adjustment_pending" THEN <<"ADJUST", p.id>> ELSE <<"REVERT", p.id>>

Deliver(call) ==
  LET a == call[2]
      c == attempts[a].courier
      amount == attempts[a].amount
  IN
  \/ /\ call[1] = "ADJUST"
     /\ \/ Bank!AdjustReservation(This, a, c, amount)
        \/ Bank!NoEffect(Bank!AdjustKey(This, a), Bank!FirstAdjust(This, a, amount))
  \/ /\ call[1] = "REVERT"
     /\ \/ Bank!RevertAdjustment(This, a)
        \/ Bank!NoEffect(Bank!RevertKey(This, a), Bank!FirstRevert(This))

AnswerOf(call) ==
  LET a == call[2] IN
  IF call[1] = "ADJUST"
    THEN Bank!AdjustAnswer(This, a, attempts[a].courier, attempts[a].amount)
    ELSE Bank!RevertAnswer(This, a)

\* Mutant: the read goes ahead after a revert that was not acknowledged.
ReadsAlways(call, answer) == ~(call[1] = "ADJUST" /\ answer = "INSUFFICIENT_CREDITS")

\* A refused adjustment needs no read; a revert must be acknowledged first, for
\* only that fences a delayed adjustment.
Reads(call, answer) ==
  IF call[1] = "ADJUST" THEN answer # "INSUFFICIENT_CREDITS" ELSE answer = "OK"

Observed(w, answer) ==
  LET p == worker[w] IN
  worker' = [worker EXCEPT ![w] =
    Observing(p, IF Reads(CallOf(p), answer) THEN "reading" ELSE "finishing",
              CallOf(p)[1] = "ADJUST" /\ answer = "INSUFFICIENT_CREDITS", p.view)]

CallAnswered(w) ==
  /\ worker[w].pc = "calling"
  /\ Deliver(CallOf(worker[w]))
  /\ Observed(w, AnswerOf(CallOf(worker[w])))
  /\ UNCHANGED <<localVars, sent, faults>>

\* The call times out: it is lost, or it arrives later, once or more often.
CallUnanswered(w) ==
  /\ worker[w].pc = "calling" /\ faults < MaxFaults
  /\ sent' = sent \cup {CallOf(worker[w])}
  /\ Observed(w, "UNAVAILABLE")
  /\ faults' = faults + 1
  /\ UNCHANGED <<bankVars, localVars>>

ArriveLate(call) ==
  /\ call \in sent
  /\ Deliver(call)
  /\ UNCHANGED <<localVars, runVars>>

\* AssignmentReservation: the adapter knows no settled reservation.
Read(w) ==
  LET row == reservations[This]
      view == CASE row.status = "ASSIGNED" ->
                     View(row, assignments[This][row.assignment].courier)
                [] row.status \in {"HELD", "RELEASED"} -> View(row, Bank!NoUser)
                [] OTHER -> Unknown
  IN
  /\ worker[w].pc = "reading"
  /\ worker' = [worker EXCEPT ![w] = Observing(worker[w], "finishing", worker[w].refused, view)]
  /\ UNCHANGED <<bankVars, localVars, sent, faults>>

ReadFails(w) ==
  /\ worker[w].pc = "reading" /\ faults < MaxFaults
  /\ worker' = [worker EXCEPT ![w] =
       Observing(worker[w], "finishing", worker[w].refused, worker[w].view)]
  /\ faults' = faults + 1
  /\ UNCHANGED <<bankVars, localVars, sent>>

-----------------------------------------------------------------------------
(* ProcessAssignment, second transaction *)

ConfirmsAdjustment(view, a) ==
  LET t == attempts[a] IN
  /\ view.row.status = "ASSIGNED" /\ view.row.requester = Requester
  /\ view.row.assignment = a /\ view.courier = t.courier
  /\ view.row.reserved = t.amount /\ view.row.original = t.original

ConfirmsRevert(view, a) ==
  LET t == attempts[a] IN
  /\ view.row.requester = Requester /\ view.row.original = t.original
  /\ \/ view.row.status = "HELD" /\ view.row.reserved = t.original
     \/ view.row.status = "RELEASED" /\ view.row.reserved = 0

\* The observation counts only for the claim it was made under.
CurrentAttempt(p) ==
  /\ attempts[p.id].generation = p.generation
  /\ attempts[p.id].phase = p.phase
  /\ attempts[p.id].leased

Resolve(a, phase, rejection) ==
  attempts' = [attempts EXCEPT ![a] =
    Advanced(attempts[a], phase, rejection, attempts[a].generation, FALSE)]

\* The accepted offer; every other open one is void.
Accepted(id) ==
  [i \in DOMAIN offers |->
     OfferIn(offers[i], IF i = id THEN "accepted"
                        ELSE IF offers[i].status = "open" THEN "void" ELSE offers[i].status)]

\* What becomes of the offer of a rejected attempt: a counteroffer for which
\* credits were missing can be accepted again while the order is available;
\* one that was voided meanwhile stays void.
ResolvedOffer(a) ==
  LET i == attempts[a].offer
      reopens == /\ i \notin Assignments /\ attempts[a].rejection = "insufficient_credits"
                 /\ Available /\ offers[i].status # "void"
  IN  [offers EXCEPT ![i] = OfferIn(offers[i], IF reopens THEN "open" ELSE "void")]

AttemptStep(p) ==
  LET a == p.id
      t == attempts[a]
      rejects == t.phase = "revert_pending" /\ ConfirmsRevert(p.view, a)
      turns == t.phase = "adjustment_pending" /\ (~Available \/ p.refused)
      assigns == t.phase = "adjustment_pending" /\ ~turns /\ ConfirmsAdjustment(p.view, a)
  IN
  \/ /\ rejects
     /\ Resolve(a, "rejected", t.rejection)
     /\ offers' = ResolvedOffer(a)
     /\ UNCHANGED order
  \/ /\ turns
     /\ Resolve(a, "revert_pending",
                IF Available THEN "insufficient_credits" ELSE "order_unavailable")
     /\ UNCHANGED <<order, offers>>
  \/ /\ assigns
     /\ Resolve(a, "succeeded", "none")
     /\ order' = Order("awaiting_pickup", t.courier, t.amount, t.amount, a, FALSE)
     /\ offers' = Accepted(t.offer)
  \/ /\ ~rejects /\ ~turns /\ ~assigns
     /\ Resolve(a, t.phase, t.rejection)
     /\ UNCHANGED <<order, offers>>

FinishAttempt(w) ==
  LET p == worker[w] IN
  /\ p.pc = "finishing" /\ p.kind = "attempt"
  /\ worker' = [worker EXCEPT ![w] = Idle]
  /\ \/ CurrentAttempt(p) /\ AttemptStep(p)
     \/ ~CurrentAttempt(p) /\ UNCHANGED <<attempts, order, offers>>
  /\ UNCHANGED <<bankVars, expired, withdrawals, outcome, sent, faults>>

-----------------------------------------------------------------------------
(* ProcessCancellation, second transaction *)

ConfirmsWithdrawal(view, a) ==
  /\ view.row.status = "HELD" /\ view.row.requester = Requester
  /\ view.row.original = attempts[a].original /\ view.row.reserved = attempts[a].original

CurrentWithdrawal(p) ==
  /\ withdrawals[p.id].status = "pending"
  /\ withdrawals[p.id].generation = p.generation
  /\ withdrawals[p.id].leased

\* The order is open again, at the amount it had before the assignment.
FinishWithdrawal(w) ==
  LET p == worker[w]
      a == p.id
      original == attempts[a].original
      confirmed == ConfirmsWithdrawal(p.view, a)
  IN
  /\ p.pc = "finishing" /\ p.kind = "withdrawal"
  /\ worker' = [worker EXCEPT ![w] = Idle]
  /\ \/ /\ CurrentWithdrawal(p) /\ MatchesWithdrawal(a) /\ confirmed
        /\ order' = Order("awaiting_courier", Bank!NoUser, original, original,
                          NoAssignment, FALSE)
        /\ withdrawals' = [withdrawals EXCEPT ![a] = Withdrawal("succeeded", p.generation, FALSE)]
     \/ /\ CurrentWithdrawal(p) /\ MatchesWithdrawal(a) /\ ~confirmed
        /\ withdrawals' = [withdrawals EXCEPT ![a] = Withdrawal("pending", p.generation, FALSE)]
        /\ UNCHANGED order
     \/ /\ ~CurrentWithdrawal(p)
        /\ UNCHANGED <<order, withdrawals>>
  /\ UNCHANGED <<bankVars, expired, attempts, offers, outcome, sent, faults>>

-----------------------------------------------------------------------------
(* Closing an order *)

\* Mutant: whether the item was picked up is taken from the courier.
OutcomeByCourier(status) ==
  CASE status = "completed" -> "COMPLETED"
    [] status = "expired" -> "EXPIRED"
    [] status = "failed" -> "FAILED"
    [] status = "cancelled" ->
         IF order.courier # Bank!NoUser THEN "CANCELLED_AFTER_PICKUP"
                                        ELSE "CANCELLED_BEFORE_PICKUP"

\* Mutant: an expired order emits no outcome.
OutcomeUnlessExpired(status) ==
  CASE status = "completed" -> "COMPLETED"
    [] status = "expired" -> "NONE"
    [] status = "failed" -> "FAILED"
    [] status = "cancelled" ->
         IF order.status = "delivering" THEN "CANCELLED_AFTER_PICKUP"
                                        ELSE "CANCELLED_BEFORE_PICKUP"

\* outcomeType of the fact NewChange adds to a terminal change.
OutcomeType(status) ==
  CASE status = "completed" -> "COMPLETED"
    [] status = "expired" -> "EXPIRED"
    [] status = "failed" -> "FAILED"
    [] status = "cancelled" ->
         IF order.status = "delivering" THEN "CANCELLED_AFTER_PICKUP"
                                        ELSE "CANCELLED_BEFORE_PICKUP"

Close(status) ==
  /\ order' = OrderIn(status)
  /\ outcome' = [type |-> OutcomeType(status), courier |-> order.courier]

VoidedOffers ==
  [i \in DOMAIN offers |->
     OfferIn(offers[i], IF offers[i].status \in {"open", "accepting"} THEN "void"
                        ELSE offers[i].status)]

\* The requester cancels: a pending withdrawal is superseded and an active
\* attempt is fenced and turned to its revert, in the same transaction.
Cancel ==
  /\ order.status \in {"awaiting_courier", "awaiting_pickup", "delivering"}
  /\ Close("cancelled")
  /\ offers' = VoidedOffers
  /\ withdrawals' = [a \in Assignments |->
       IF order.withdrawing /\ a = order.assignment
         THEN Withdrawal("superseded", withdrawals[a].generation + 1, withdrawals[a].leased)
         ELSE withdrawals[a]]
  /\ attempts' = [a \in Assignments |->
       IF Active(a)
         THEN Advanced(attempts[a], "revert_pending", "order_unavailable",
                       attempts[a].generation + 1, FALSE)
         ELSE attempts[a]]
  /\ UNCHANGED <<bankVars, expired, runVars>>

\* The courier gives up after pickup.
CourierCancel ==
  /\ order.status = "delivering"
  /\ Close("failed")
  /\ UNCHANGED <<bankVars, expired, attempts, offers, withdrawals, runVars>>

\* The courier withdraws before pickup; a repeat joins the pending one.
BeginWithdrawal ==
  /\ order.status = "awaiting_pickup" /\ ~order.withdrawing
  /\ order' = Order(order.status, order.courier, order.reward, order.held, order.assignment, TRUE)
  /\ withdrawals' = [withdrawals EXCEPT ![order.assignment] =
       Withdrawal("pending", withdrawals[order.assignment].generation,
                  withdrawals[order.assignment].leased)]
  /\ UNCHANGED <<bankVars, expired, attempts, offers, outcome, runVars>>

\* The expiry timer. It leaves an active attempt to its own recovery.
Expire ==
  /\ order.status = "awaiting_courier" /\ expired
  /\ Close("expired")
  /\ offers' = VoidedOffers
  /\ UNCHANGED <<bankVars, expired, attempts, withdrawals, runVars>>

PickupAllowed == order.status = "awaiting_pickup" /\ ~order.withdrawing

ConfirmPickup ==
  /\ PickupAllowed
  /\ order' = OrderIn("delivering")
  /\ UNCHANGED <<bankVars, expired, attempts, offers, withdrawals, outcome, runVars>>

\* The delivery is confirmed with its proof (see DeliveryProof).
ConfirmDelivery ==
  /\ order.status = "delivering"
  /\ order' = OrderIn("delivered")
  /\ UNCHANGED <<bankVars, expired, attempts, offers, withdrawals, outcome, runVars>>

\* The delivery timer, at twice the allowed duration and with no receipt
\* pending (see DeliveryProof).
Timeout ==
  /\ order.status = "delivering"
  /\ Close("failed")
  /\ UNCHANGED <<bankVars, expired, attempts, offers, withdrawals, runVars>>

ConfirmReceipt ==
  /\ order.status = "delivered"
  /\ Close("completed")
  /\ UNCHANGED <<bankVars, expired, attempts, offers, withdrawals, runVars>>

\* The order.outcome event reaches Credit, at least once.
ApplyOutcome ==
  /\ \/ /\ outcome.type \in Bank!Reasons
        /\ Bank!ApplyRelease(This, Requester, outcome.type)
     \/ /\ outcome.type \in Bank!PayoutTypes
        /\ \E elapsed \in Elapsed :
             Bank!Settle(This, Requester, outcome.courier, outcome.type, elapsed)
  /\ UNCHANGED <<localVars, runVars>>

-----------------------------------------------------------------------------
(* The environment *)

Deadline ==
  /\ ~expired
  /\ expired' = TRUE
  /\ UNCHANGED <<bankVars, order, attempts, offers, withdrawals, outcome, runVars>>

\* The process dies or its transaction fails; a call under way may arrive.
Crash(w) ==
  /\ worker[w].pc # "idle" /\ faults < MaxFaults
  /\ worker' = [worker EXCEPT ![w] = Idle]
  /\ sent' = IF worker[w].pc = "calling" THEN sent \cup {CallOf(worker[w])} ELSE sent
  /\ faults' = faults + 1
  /\ UNCHANGED <<bankVars, localVars>>

\* A lease runs out for nothing when its holder is gone, else as a fault.
Stalled(kind, a, generation) ==
  IF \E w \in Workers : /\ worker[w].pc # "idle" /\ worker[w].kind = kind
                        /\ worker[w].id = a /\ worker[w].generation = generation
    THEN faults < MaxFaults /\ faults' = faults + 1
    ELSE UNCHANGED faults

LeaseRunsOut(a) ==
  /\ \/ /\ attempts[a].leased
        /\ attempts' = [attempts EXCEPT ![a] = Advanced(attempts[a], attempts[a].phase,
             attempts[a].rejection, attempts[a].generation, FALSE)]
        /\ Stalled("attempt", a, attempts[a].generation)
        /\ UNCHANGED withdrawals
     \/ /\ withdrawals[a].leased
        /\ withdrawals' = [withdrawals EXCEPT ![a] =
             Withdrawal(withdrawals[a].status, withdrawals[a].generation, FALSE)]
        /\ Stalled("withdrawal", a, withdrawals[a].generation)
        /\ UNCHANGED attempts
  /\ UNCHANGED <<bankVars, order, expired, offers, outcome, worker, sent>>

Process(w) ==
  \/ \E a \in Assignments : ClaimAttempt(w, a) \/ ClaimWithdrawal(w, a)
  \/ CallAnswered(w) \/ Read(w) \/ FinishAttempt(w) \/ FinishWithdrawal(w)

LifecycleNext ==
  \/ \E c \in Couriers : \E credits \in Amounts : MakeOffer(c, credits)
  \/ \E c \in Couriers, a \in Assignments : AcceptOrder(c, a) \/ AcceptOffer(c, a)
  \/ Cancel \/ CourierCancel \/ BeginWithdrawal \/ Expire \/ Timeout
  \/ ConfirmPickup \/ ConfirmDelivery \/ ConfirmReceipt \/ ApplyOutcome \/ Deadline
  \/ \E call \in sent : ArriveLate(call)
  \/ \E w \in Workers : Process(w) \/ CallUnanswered(w) \/ ReadFails(w) \/ Crash(w)
  \/ \E a \in Assignments : LeaseRunsOut(a)

\* The recovery loops scan once a second, the relay and the consumer retry
\* until an outcome is applied, and a lease that is not renewed runs out. No
\* fairness is asked of the users.
LifecycleFairness ==
  /\ \A w \in Workers : WF_vars(Process(w))
  /\ WF_vars(\E a \in Assignments : LeaseRunsOut(a))
  /\ WF_vars(ApplyOutcome)

LifecycleSpec == LifecycleInit /\ [][LifecycleNext]_vars /\ LifecycleFairness

-----------------------------------------------------------------------------
(* Properties *)

\* The shape of the rows and of what the workers carry.
Statuses == {"awaiting_courier", "awaiting_pickup", "delivering", "delivered",
             "completed", "cancelled", "expired", "failed"}
Phases == {"none", "adjustment_pending", "revert_pending", "succeeded", "rejected"}
LifecycleTypeOK ==
  /\ order.status \in Statuses /\ order.courier \in Couriers \cup {Bank!NoUser}
  /\ order.assignment \in Assignments \cup {NoAssignment}
  /\ order.withdrawing => order.status = "awaiting_pickup"
  /\ DOMAIN attempts = Assignments /\ DOMAIN withdrawals = Assignments
  /\ DOMAIN offers = Couriers \cup Assignments
  /\ \A a \in Assignments :
       /\ attempts[a].phase \in Phases /\ attempts[a].courier \in Couriers \cup {Bank!NoUser}
       /\ attempts[a].phase # "none" => attempts[a].offer \in Couriers \cup Assignments
       /\ withdrawals[a].status \in {"none", "pending", "succeeded", "superseded"}
  /\ \A i \in DOMAIN offers :
       offers[i].status \in {"none", "open", "accepting", "accepted", "void"}
  /\ outcome.type \in Bank!Reasons \cup Bank!PayoutTypes \cup {"NONE"}
  /\ DOMAIN worker = Workers
  /\ \A w \in Workers :
       /\ worker[w].pc \in {"idle", "calling", "reading", "finishing"}
       /\ worker[w].pc # "idle" => worker[w].id \in Assignments
  /\ sent \subseteq {"ADJUST", "REVERT"} \X Assignments
  /\ faults \in 0..MaxFaults

\* Retries are bounded by what goes wrong: a claim that leads nowhere is paid
\* for by a fault, the turn to the revert or a cancellation.
RetriesBounded ==
  \A a \in Assignments :
    /\ attempts[a].generation \in 0..(MaxFaults + 4)
    /\ withdrawals[a].generation \in 0..(MaxFaults + 2)

\* A courier who has the order, and is not withdrawing, is backed by Credit:
\* the reservation is assigned to this attempt and courier and holds the reward.
Committed ==
  \/ order.status = "awaiting_pickup" /\ ~order.withdrawing
  \/ order.status \in {"delivering", "delivered"}
AssignedIsFunded ==
  Committed =>
     LET row == reservations[This] IN
     /\ row.status = "ASSIGNED" /\ row.assignment = order.assignment
     /\ assignments[This][row.assignment].courier = order.courier
     /\ row.reserved = order.reward /\ order.held = order.reward

\* An order couriers can take holds what it offers, and nothing of an attempt
\* or a withdrawal that is over.
OpenIsFunded ==
  order.status = "awaiting_courier" /\ (\A a \in Assignments : ~Active(a)) =>
    LET row == reservations[This] IN
    row.status = "HELD" /\ row.reserved = order.reward /\ order.held = order.reward

\* An attempt is reported rejected only when Credit will never apply it.
RejectedIsFenced ==
  \A a \in Assignments : attempts[a].phase = "rejected" => Bank!Reverted(This, a)

\* Credit never finds an outcome that contradicts its records: it would be
\* logged and acknowledged, and the hold would stay behind for ever.
OutcomeAccepted ==
  LET row == reservations[This] IN
  /\ outcome.type \in Bank!Reasons =>
       \/ row.status \in {"HELD", "ASSIGNED"}
       \/ row.status = "RELEASED" /\ row.reason = outcome.type
  /\ outcome.type \in Bank!PayoutTypes =>
       /\ \/ row.status = "ASSIGNED"
          \/ row.status = "SETTLED" /\ row.outcome = outcome.type
       /\ assignments[This][row.assignment].courier = outcome.courier

\* Once a courier has the order or it is closed, no counteroffer can be
\* accepted any more, and an offer being accepted belongs to the active attempt.
OffersDecided ==
  \A i \in DOMAIN offers :
    /\ offers[i].status = "open" => order.status = "awaiting_courier"
    /\ offers[i].status = "accepting" => Active(offers[i].attempt)

\* Order's table and Credit's agree about an open order: it is assigned only
\* on the offer Credit has applied, open only on its original hold, and of
\* its offers none stays undecided once one is accepted. A rejected attempt has
\* been fenced at Credit: no late adjustment can apply its offer.
AssignmentsAgree ==
  LifecycleTypeOK /\ AssignedIsFunded /\ OpenIsFunded /\ RejectedIsFenced /\ OffersDecided
=============================================================================
