------------------------------- MODULE Credit -------------------------------
(***************************************************************************)
(* The credit service: accounts, reservations and the offers applied to    *)
(* them. Every RPC and every consumed event is one database transaction    *)
(* that first takes the order's advisory lock (LockOrder), so it is one    *)
(* atomic action here. Any call may arrive at any time and any number of   *)
(* times: a lost, delayed, repeated or reordered call of the order service *)
(* is a behaviour of this module.                                          *)
(*                                                                         *)
(* A call that is refused or replayed changes nothing; the operators named *)
(* ...Answer say what its caller is told.                                  *)
(***************************************************************************)
EXTENDS Integers, Sequences, Sums, Payout

CONSTANTS OrderCount,      \* orders are numbered 1..OrderCount
          UserCount,       \* users are numbered 1..UserCount
          Assignments,     \* ids the order service gives its assignment attempts
          NoAssignment,
          Amounts,         \* amounts a call may carry
          StartingCredits, \* the grant a new account receives
          Allowed,         \* delivery duration of an order
          Elapsed          \* times a delivery may take

ASSUME CountsAssumption == OrderCount \in Nat /\ UserCount \in Nat
ASSUME AssignmentAssumption == NoAssignment \notin Assignments
ASSUME AmountAssumption == Amounts \subseteq Int /\ StartingCredits \in Nat
ASSUME DurationAssumption == Allowed \in Nat \ {0} /\ Elapsed \subseteq Nat

Orders == 1..OrderCount
Users == 1..UserCount
NoUser == 0

Reasons == {"CANCELLED_BEFORE_PICKUP", "EXPIRED", "FAILED"}
PayoutTypes == {"COMPLETED", "CANCELLED_AFTER_PICKUP"}
Keys == ({"RESERVE", "RELEASE"} \X Orders \X {NoAssignment})
          \cup ({"ADJUST", "REVERT"} \X Orders \X Assignments)

VARIABLES
  opened,       \* users with a row in accounts
  balance,      \* accounts.balance
  reserved,     \* accounts.reserved
  reservations, \* the current row of every order
  revisions,    \* reservation_revisions: every row it ever had
  assignments,  \* the offer applied or reverted under each assignment id
  operations    \* reservation_operations: the first outcome of every call

accountVars == <<opened, balance, reserved>>
vars == <<accountVars, reservations, revisions, assignments, operations>>

-----------------------------------------------------------------------------
(* The stored records. *)

\* A row whose settlement is not set yet.
OpenRow(status, requester, original, held, assignment) ==
  [status |-> status, requester |-> requester, original |-> original,
   reserved |-> held, assignment |-> assignment,
   outcome |-> "NONE", reason |-> "NONE", paid |-> 0, returned |-> 0]

NoReservation == OpenRow("NONE", NoUser, 0, 0, NoAssignment)

\* A terminal row: its settlement is set and it holds nothing.
ClosedRow(r, status, outcome, reason, paid) ==
  [status |-> status, requester |-> r.requester, original |-> r.original,
   reserved |-> 0, assignment |-> r.assignment, outcome |-> outcome,
   reason |-> reason, paid |-> paid, returned |-> r.reserved - paid]

Offer(status, c, amount) == [status |-> status, courier |-> c, offer |-> amount]
NoOffer == Offer("NONE", NoUser, 0)

\* The request hash stands for the payload it is taken of.
Payload(u, amount, reason) == [user |-> u, amount |-> amount, reason |-> reason]
NoPayload == Payload(NoUser, 0, "NONE")
NoOperation == [status |-> "NONE", payload |-> NoPayload, revision |-> 0]

ReservationType ==
  [status : {"NONE", "HELD", "ASSIGNED", "RELEASED", "SETTLED"},
   requester : Users \cup {NoUser}, original : Int, reserved : Int,
   assignment : Assignments \cup {NoAssignment},
   outcome : {"NONE", "RELEASED"} \cup PayoutTypes,
   reason : Reasons \cup {"NONE"}, paid : Int, returned : Int]

OfferType ==
  [status : {"NONE", "APPLIED", "REVERTED"},
   courier : Users \cup {NoUser}, offer : Int]

PayloadType ==
  [user : Users \cup {NoUser}, amount : Int, reason : Reasons \cup {"NONE"}]

OperationType ==
  [status : {"NONE", "DONE", "INSUFFICIENT"}, payload : PayloadType, revision : Nat]

TypeOK ==
  /\ opened \subseteq Users
  /\ balance \in [Users -> Int]
  /\ reserved \in [Users -> Int]
  /\ reservations \in [Orders -> ReservationType]
  /\ revisions \in [Orders -> Seq(ReservationType)]
  /\ assignments \in [Orders -> [Assignments -> OfferType]]
  /\ operations \in [Keys -> OperationType]

Init ==
  /\ opened = {}
  /\ balance = [u \in Users |-> 0]
  /\ reserved = [u \in Users |-> 0]
  /\ reservations = [o \in Orders |-> NoReservation]
  /\ revisions = [o \in Orders |-> <<>>]
  /\ assignments = [o \in Orders |-> [a \in Assignments |-> NoOffer]]
  /\ operations = [k \in Keys |-> NoOperation]

-----------------------------------------------------------------------------
(* Helpers of the transaction. *)

\* Mutant: the grant is posted whenever the account is locked.
GrantedAgain(us) ==
  [u \in Users |-> balance[u] + (IF u \in us THEN StartingCredits ELSE 0)]

\* LockAccounts opens the accounts it locks: the first touch posts the grant.
Granted(us) ==
  [u \in Users |-> balance[u] + (IF u \in us \ opened THEN StartingCredits ELSE 0)]

\* Mutant: what is already reserved is offered again.
AvailableBalance(u) == Granted({u})[u]

Available(u) == Granted({u})[u] - reserved[u]

\* Insert or update the reservation; a trigger appends the revision.
UpdateReservation(o, r) == reservations' = [reservations EXCEPT ![o] = r]
SaveReservation(o, r) ==
  /\ UpdateReservation(o, r)
  /\ revisions' = [revisions EXCEPT ![o] = Append(@, r)]

SaveOffer(o, a, offer) == assignments' = [assignments EXCEPT ![o][a] = offer]

Hold(u, delta) == reserved' = [reserved EXCEPT ![u] = @ + delta]

Recorded(k) == operations[k].status # "NONE"

\* The record names the revision the mutation produced or left in place.
SaveOperation(k, payload) ==
  operations' = [operations EXCEPT ![k] =
    [status |-> "DONE", payload |-> payload, revision |-> Len(revisions'[k[2]])]]

\* Mutant: a refusal stores -1 for the missing revision.
SaveInsufficientSentinel(k, payload) ==
  operations' = [operations EXCEPT ![k] =
    [status |-> "INSUFFICIENT", payload |-> payload, revision |-> -1]]

SaveInsufficient(k, payload) ==
  operations' = [operations EXCEPT ![k] =
    [status |-> "INSUFFICIENT", payload |-> payload, revision |-> 0]]

\* The tombstone or mark that fences an offer off.
Reverted(o, a) == assignments[o][a].status = "REVERTED"

\* Mutant: the replay of an adjustment is not fenced by a revert.
ReplayAnswerUnfenced(k) ==
  IF k[1] \in {"RESERVE", "ADJUST"} /\ reservations[k[2]].status = "RELEASED"
    THEN "RESERVATION_RELEASED"
  ELSE IF operations[k].status = "INSUFFICIENT" THEN "INSUFFICIENT_CREDITS"
  ELSE "OK"

\* checkReplay: a later release or revert fences a repeated call off.
ReplayAnswer(k) ==
  IF k[1] \in {"RESERVE", "ADJUST"} /\ reservations[k[2]].status = "RELEASED"
    THEN "RESERVATION_RELEASED"
  ELSE IF k[1] = "ADJUST" /\ Reverted(k[2], k[3])
    THEN "ADJUSTMENT_REVERTED"
  ELSE IF operations[k].status = "INSUFFICIENT" THEN "INSUFFICIENT_CREDITS"
  ELSE "OK"

\* What a caller is told: the first call decides, a repeat replays.
Answer(k, payload, first) ==
  IF ~Recorded(k) THEN first
  ELSE IF operations[k].payload # payload THEN "IDEMPOTENCY_CONFLICT"
  ELSE ReplayAnswer(k)

\* A repeated or refused call leaves everything as it is.
NoEffect(k, first) ==
  /\ Recorded(k) \/ first \notin {"OK", "INSUFFICIENT_CREDITS"}
  /\ UNCHANGED vars

-----------------------------------------------------------------------------
(* Reserve *)

ReserveKey(o) == <<"RESERVE", o, NoAssignment>>

FirstReserve(o, u, amount) ==
  IF amount <= 0 THEN "INVALID_ARGUMENT"
  ELSE IF reservations[o].status = "RELEASED" THEN "RESERVATION_RELEASED"
  ELSE IF reservations[o].status # "NONE" THEN "IDEMPOTENCY_CONFLICT"
  ELSE IF amount > Available(u) THEN "INSUFFICIENT_CREDITS"
  ELSE "OK"

ReserveAnswer(o, u, amount) ==
  Answer(ReserveKey(o), Payload(u, amount, "NONE"), FirstReserve(o, u, amount))

\* The account stays open with its grant even when the hold is refused.
Reserve(o, u, amount) ==
  /\ ~Recorded(ReserveKey(o))
  /\ FirstReserve(o, u, amount) \in {"OK", "INSUFFICIENT_CREDITS"}
  /\ opened' = opened \cup {u}
  /\ balance' = Granted({u})
  /\ UNCHANGED assignments
  /\ \/ /\ FirstReserve(o, u, amount) = "OK"
        /\ SaveReservation(o, OpenRow("HELD", u, amount, amount, NoAssignment))
        /\ Hold(u, amount)
        /\ SaveOperation(ReserveKey(o), Payload(u, amount, "NONE"))
     \/ /\ FirstReserve(o, u, amount) = "INSUFFICIENT_CREDITS"
        /\ SaveInsufficient(ReserveKey(o), Payload(u, amount, "NONE"))
        /\ UNCHANGED <<reserved, reservations, revisions>>

-----------------------------------------------------------------------------
(* AdjustReservation *)

AdjustKey(o, a) == <<"ADJUST", o, a>>

\* requireOpen, the size of the offer, the assignment, then the credits.
FirstAdjust(o, a, amount) ==
  LET r == reservations[o] IN
  IF amount <= 0 THEN "INVALID_ARGUMENT"
  ELSE IF r.status = "NONE" THEN "RESERVATION_NOT_FOUND"
  ELSE IF r.status = "RELEASED" THEN "RESERVATION_RELEASED"
  ELSE IF r.status = "SETTLED" THEN "RESERVATION_SETTLED"
  ELSE IF amount < r.original THEN "INVALID_ARGUMENT"
  ELSE IF Reverted(o, a) THEN "ADJUSTMENT_REVERTED"
  ELSE IF assignments[o][a].status # "NONE" \/ r.status = "ASSIGNED"
    THEN "ADJUSTMENT_PENDING"
  ELSE IF amount - r.reserved > Available(r.requester) THEN "INSUFFICIENT_CREDITS"
  ELSE "OK"

AdjustAnswer(o, a, c, amount) ==
  Answer(AdjustKey(o, a), Payload(c, amount, "NONE"), FirstAdjust(o, a, amount))

AdjustReservation(o, a, c, amount) ==
  LET r == reservations[o] IN
  /\ ~Recorded(AdjustKey(o, a))
  /\ UNCHANGED <<opened, balance>>
  /\ \/ /\ FirstAdjust(o, a, amount) = "OK"
        /\ SaveOffer(o, a, Offer("APPLIED", c, amount))
        /\ SaveReservation(o, OpenRow("ASSIGNED", r.requester, r.original, amount, a))
        /\ Hold(r.requester, amount - r.reserved)
        /\ SaveOperation(AdjustKey(o, a), Payload(c, amount, "NONE"))
     \/ /\ FirstAdjust(o, a, amount) = "INSUFFICIENT_CREDITS"
        /\ SaveInsufficient(AdjustKey(o, a), Payload(c, amount, "NONE"))
        /\ UNCHANGED <<reserved, reservations, revisions, assignments>>

-----------------------------------------------------------------------------
(* RevertAdjustment *)

RevertKey(o, a) == <<"REVERT", o, a>>

FirstRevert(o) ==
  IF reservations[o].status = "NONE" THEN "RESERVATION_NOT_FOUND"
  ELSE IF reservations[o].status = "SETTLED" THEN "RESERVATION_SETTLED"
  ELSE "OK"

RevertAnswer(o, a) == Answer(RevertKey(o, a), NoPayload, FirstRevert(o))

\* Mutant: the hold of the reverted row keeps the offer's size.
RevertedRowKeepsOffer(r) ==
  OpenRow("HELD", r.requester, r.original, r.reserved, NoAssignment)

RevertedRow(r) ==
  OpenRow("HELD", r.requester, r.original, r.original, NoAssignment)

RevertedOffer(offer) == Offer("REVERTED", offer.courier, offer.offer)

\* An unknown offer is recorded as reverted; one applied to this reservation
\* gives the hold back down to the original amount.
RevertAdjustment(o, a) ==
  LET r == reservations[o]
      offer == assignments[o][a]
      applied == offer.status = "APPLIED" /\ r.status = "ASSIGNED" /\ r.assignment = a
  IN
  /\ ~Recorded(RevertKey(o, a))
  /\ FirstRevert(o) = "OK"
  /\ SaveOffer(o, a, RevertedOffer(offer))
  /\ UNCHANGED <<opened, balance>>
  /\ \/ /\ applied
        /\ SaveReservation(o, RevertedRow(r))
        /\ Hold(r.requester, r.original - r.reserved)
     \/ /\ ~applied
        /\ UNCHANGED <<reserved, reservations, revisions>>
  /\ SaveOperation(RevertKey(o, a), NoPayload)

-----------------------------------------------------------------------------
(* ReleaseReservation *)

ReleaseKey(o) == <<"RELEASE", o, NoAssignment>>

FirstRelease(o) ==
  IF reservations[o].status = "SETTLED" THEN "RESERVATION_SETTLED" ELSE "OK"

ReleaseAnswer(o, reason) ==
  Answer(ReleaseKey(o), Payload(NoUser, 0, reason), FirstRelease(o))

\* Mutant: a release overwrites a settlement.
ReleasableUnlessReleased(r) == r.status # "RELEASED"

Releasable(r) == r.status \in {"NONE", "HELD", "ASSIGNED"}

\* release: give the whole hold back, or leave a tombstone for an order Credit
\* has never seen. A released reservation is left as it is.
Release(o, reason) ==
  LET r == reservations[o] IN
  \/ /\ Releasable(r)
     /\ SaveReservation(o, ClosedRow(r, "RELEASED", "RELEASED", reason, 0))
     /\ IF r.status = "NONE" THEN UNCHANGED reserved
                             ELSE Hold(r.requester, -r.reserved)
  \/ /\ r.status = "RELEASED"
     /\ UNCHANGED <<reserved, reservations, revisions>>

ReleaseReservation(o, reason) ==
  /\ ~Recorded(ReleaseKey(o))
  /\ Release(o, reason)
  /\ SaveOperation(ReleaseKey(o), Payload(NoUser, 0, reason))
  /\ UNCHANGED <<opened, balance, assignments>>

-----------------------------------------------------------------------------
(* ApplyOutcome: the order.outcome consumer. It keeps no operation record;  *)
(* the terminal reservation itself makes a redelivery harmless.            *)

\* A reservation of another requester is a mismatch; a tombstone has none.
OutcomeMatches(o, u) == reservations[o].requester \in {NoUser, u}

ApplyRelease(o, u, reason) ==
  /\ OutcomeMatches(o, u)
  /\ Releasable(reservations[o])
  /\ Release(o, reason)
  /\ UNCHANGED <<opened, balance, assignments, operations>>

\* The balances after the two payout postings.
SettledBalance(r, c, payable) ==
  [x \in Users |-> Granted({r.requester, c})[x]
     - (IF x = r.requester THEN payable ELSE 0)
     + (IF x = c THEN payable ELSE 0)]

\* Mutant: the refund posting is missing.
SettledHoldNoRefund(r, payable) == Hold(r.requester, -payable)

\* The reserved credits after the payout and the refund posting.
SettledHold(r, payable) == Hold(r.requester, -payable - (r.reserved - payable))

\* settle: pay the courier out of the hold and return the rest. The courier's
\* account is opened, with its grant, if Credit has not seen that user yet.
Settle(o, u, c, type, elapsed) ==
  LET r == reservations[o]
      offer == assignments[o][r.assignment]
      payable == LatenessPayout(offer.offer, type, elapsed, Allowed)
  IN
  /\ OutcomeMatches(o, u)
  /\ r.status = "ASSIGNED"
  /\ offer.status = "APPLIED"
  /\ offer.courier = c
  /\ payable \in 0..r.reserved
  /\ opened' = opened \cup {r.requester, c}
  /\ balance' = SettledBalance(r, c, payable)
  /\ SettledHold(r, payable)
  /\ SaveReservation(o, ClosedRow(r, "SETTLED", type, "NONE", payable))
  /\ UNCHANGED <<assignments, operations>>

-----------------------------------------------------------------------------
\* The users.create consumer opens the account; a repeat grants nothing.
OpenAccount(u) ==
  /\ u \notin opened
  /\ opened' = opened \cup {u}
  /\ balance' = Granted({u})
  /\ UNCHANGED <<reserved, reservations, revisions, assignments, operations>>

Next ==
  \/ \E u \in Users : OpenAccount(u)
  \/ \E o \in Orders :
       \/ \E u \in Users, amount \in Amounts : Reserve(o, u, amount)
       \/ \E a \in Assignments, c \in Users, amount \in Amounts :
            AdjustReservation(o, a, c, amount)
       \/ \E a \in Assignments : RevertAdjustment(o, a)
       \/ \E reason \in Reasons : ReleaseReservation(o, reason)
       \/ \E u \in Users, reason \in Reasons : ApplyRelease(o, u, reason)
       \/ \E u, c \in Users, type \in PayoutTypes, elapsed \in Elapsed :
            Settle(o, u, c, type, elapsed)

Spec == Init /\ [][Next]_vars

-----------------------------------------------------------------------------
(* Properties *)

Terminal(o) == reservations[o].status \in {"RELEASED", "SETTLED"}

\* What order o holds of user u's credits.
HeldOf(o, u) == IF reservations[o].requester = u THEN reservations[o].reserved ELSE 0

\* What order o has moved into user u's account: paid as its courier, less
\* paid as its requester.
EarnedFrom(o, u) ==
  LET r == reservations[o] IN
    (IF r.status = "SETTLED" /\ assignments[o][r.assignment].courier = u
       THEN r.paid ELSE 0)
  - (IF r.status = "SETTLED" /\ r.requester = u THEN r.paid ELSE 0)

Grant(u) == IF u \in opened THEN StartingCredits ELSE 0

\* No account is overdrawn: what is reserved is never negative and never more
\* than the balance, whatever calls cross (the checks of accounts in schema
\* 00001, which would otherwise fail the transaction and stop the consumer).
Solvent == \A u \in Users : 0 <= reserved[u] /\ reserved[u] <= balance[u]

\* accounts.reserved is exactly the sum of the open holds of the user's
\* orders: no hold is counted twice, lost or left behind by an adjustment,
\* a revert, a release or a settlement.
HoldsBacked ==
  \A u \in Users :
    reserved[u] = SumTo([o \in Orders |-> HeldOf(o, u)], OrderCount)

\* Every balance is the starting grant plus what settlements moved: a courier
\* is paid once per settled order, by its requester, and by nothing else.
BalancesExplained ==
  \A u \in Users :
    balance[u] = Grant(u) + SumTo([o \in Orders |-> EarnedFrom(o, u)], OrderCount)

\* The economy is closed: credits enter it only as starting grants.
CreditsConserved ==
  SumTo(balance, UserCount) = SumTo([u \in Users |-> Grant(u)], UserCount)

\* Every account and the economy as a whole balance: what a user has is the
\* grant and what settled orders moved, and only grants create credits.
BooksBalance == BalancesExplained /\ CreditsConserved

\* A reservation and the offer it names agree: a held one is at its original
\* amount with no offer applied, an assigned one holds exactly its applied
\* offer and no other offer is applied, and a settlement splits that offer.
OffersAgree ==
  \A o \in Orders :
    LET r == reservations[o]
        applied == {a \in Assignments : assignments[o][a].status = "APPLIED"}
    IN
    /\ r.status = "NONE" => applied = {}
    /\ r.status = "HELD" => r.reserved = r.original /\ applied = {}
    /\ r.status = "ASSIGNED" =>
         /\ applied = {r.assignment}
         /\ assignments[o][r.assignment].offer = r.reserved
         /\ r.original <= r.reserved
    /\ r.status = "SETTLED" =>
         /\ applied = {r.assignment}
         /\ r.paid + r.returned = assignments[o][r.assignment].offer
         /\ 0 <= r.paid /\ 0 <= r.returned

\* A call that was answered INSUFFICIENT_CREDITS never takes effect, however
\* often it is repeated and however the balance changes: Order rejects on it.
RefusedStaysRefused ==
  [][\A o \in Orders :
       /\ operations[ReserveKey(o)].status = "INSUFFICIENT"
            => reservations'[o].status \in {"NONE", "RELEASED"}
       /\ \A a \in Assignments :
            operations[AdjustKey(o, a)].status = "INSUFFICIENT"
              => assignments'[o][a].status # "APPLIED"]_vars

\* A repeated call that is answered OK replays a revision in which the call
\* really had its effect, and for an adjustment the offer still stands.
ReplayTruthful ==
  \A o \in Orders, u \in Users, amount \in Amounts :
    /\ Recorded(ReserveKey(o)) /\ ReserveAnswer(o, u, amount) = "OK" =>
         LET r == revisions[o][operations[ReserveKey(o)].revision] IN
         /\ r.status = "HELD" /\ r.requester = u /\ r.reserved = amount
         /\ reservations[o].requester = u /\ reservations[o].original = amount
    /\ \A a \in Assignments :
         Recorded(AdjustKey(o, a)) /\ AdjustAnswer(o, a, u, amount) = "OK" =>
           LET r == revisions[o][operations[AdjustKey(o, a)].revision] IN
           /\ r.status = "ASSIGNED" /\ r.assignment = a /\ r.reserved = amount
           /\ assignments[o][a] =
                Offer("APPLIED", u, amount)
           /\ reservations[o].assignment = a

\* A released or settled reservation never changes again, whatever delayed
\* call or redelivered outcome arrives.
TerminalIsFinal ==
  [][\A o \in Orders : Terminal(o) => reservations'[o] = reservations[o]]_vars

\* Once a revert is acknowledged its offer is never applied again, even when
\* the revert overtakes the adjustment it undoes.
RevertIsFinal ==
  [][\A o \in Orders, a \in Assignments :
       operations[RevertKey(o, a)].status = "DONE" =>
         /\ assignments'[o][a].status # "APPLIED"
         /\ reservations'[o].status = "ASSIGNED"
              => reservations'[o].assignment # a]_vars

\* What Credit has decided stays: a refused call never takes effect, a closed
\* reservation never changes and a reverted offer is never applied again,
\* whatever is repeated, late or reordered.
DecisionsFinal == RefusedStaysRefused /\ TerminalIsFinal /\ RevertIsFinal

\* The credit service implements the escrow: a purse is what a user has
\* available, a pot what an order holds.
Purse == [u \in Users |-> balance[u] - reserved[u]]
Pot == [o \in Orders |-> [owner |-> reservations[o].requester,
                          held |-> reservations[o].reserved,
                          state |-> IF Terminal(o) THEN "closed" ELSE "open"]]

Promise == INSTANCE Escrow WITH joined <- opened, purse <- Purse, pot <- Pot

\* Every call, replayed, late or out of order, moves credits only as the
\* escrow allows: between its owner's purse and one pot that closes once.
ImplementsEscrow == Promise!EscrowSpec
=============================================================================
