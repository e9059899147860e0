------------------------------ MODULE Commands ------------------------------
(***************************************************************************)
(* The commands on an open order and their repeats: MakeOffer, AcceptOrder,*)
(* AcceptOffer and CancelConfirmed. A command is one transaction under the *)
(* lock of the caller's keys and of the order, which looks up the key,     *)
(* checks and writes; then the workflow runs, and a second transaction     *)
(* reads what to answer. Answers are lost, callers repeat their commands   *)
(* with the same key at any time, and use a key for something else.        *)
(*                                                                         *)
(* The workflows themselves are those of OrderLifecycle. Here their        *)
(* outcome is an arbitrary step of the environment, and an operation is    *)
(* named by its place among the attempts, offers or cancellations.         *)
(***************************************************************************)
EXTENDS Integers, Sequences, FiniteSets

CONSTANTS
  Couriers,     \* users other than the requester
  Keys,         \* the keys callers choose from
  Credits,      \* what couriers ask for, above the reward
  Requests,     \* the clients, of whom each has one call on its way
  MaxTries,     \* bound on how often a client sends one
  MaxRevision   \* bound on the revision of the order

VARIABLES
  order, attempts, offers, cancellations,
  keys,      \* order_idempotency_keys, by caller, method and key
  request,   \* the calls and where they are
  told       \* history: the final rejections that callers were told of

vars == <<order, attempts, offers, cancellations, keys, request, told>>
tables == <<order, attempts, offers, cancellations>>

Requester == 1
Nobody == 0
NoKey == 0
None == 0
Users == {Requester} \cup Couriers
Methods == {"offer", "accept_order", "accept_offer", "cancel"}

-----------------------------------------------------------------------------
(* Rows and calls *)

Attempt(caller, courier, offer, phase, rejection, scope) ==
  [caller |-> caller, courier |-> courier, offer |-> offer, phase |-> phase,
   rejection |-> rejection, scope |-> scope]
Offer(courier, credits, status) == [courier |-> courier, credits |-> credits, status |-> status]
Cancellation(caller, status, confirmed) ==
  [caller |-> caller, status |-> status, confirmed |-> confirmed]
Stored(hash, resource) == [hash |-> hash, resource |-> resource, old |-> FALSE]

\* "what" is the amount of an offer, the offer that is accepted or the revision
\* that is confirmed.
Call(method, caller, key, what) ==
  [method |-> method, caller |-> caller, key |-> key, what |-> what]
NoCall == Call("none", Nobody, NoKey, 0)
Idle == [pc |-> "idle", call |-> NoCall, op |-> None, tries |-> 0]

Scope(c) == <<c.caller, c.method, c.key>>
Scopes == DOMAIN keys

\* The payload a key stands for: acceptances of the order differ in nothing.
Hash(c) == IF c.method = "accept_order" THEN 0 ELSE c.what

CommandsInit ==
  /\ order = [status |-> "awaiting_courier", courier |-> Nobody, revision |-> 1,
              pending |-> None, expired |-> FALSE]
  /\ attempts = <<>> /\ offers = <<>> /\ cancellations = <<>>
  /\ keys = [s \in Users \X Methods \X Keys |-> Stored(0, None)]
  /\ request = [r \in Requests |-> Idle]
  /\ told = {}

-----------------------------------------------------------------------------
(* Clients *)

\* A client sends a command, when none of its own is on its way. What it confirms
\* or accepts is what it sees then.
Send(r, c) ==
  /\ request[r].pc \in {"idle", "done", "refused"} /\ request[r].tries < MaxTries
  /\ request' = [request EXCEPT ![r] = [Idle EXCEPT !.pc = "sent", !.call = c,
                                                    !.tries = request[r].tries + 1]]
  /\ UNCHANGED <<tables, keys, told>>

\* It heard nothing, or does not believe it, and sends the same again.
SendAgain(r) ==
  /\ request[r].pc \in {"done", "refused"} /\ request[r].tries < MaxTries
  /\ request' = [request EXCEPT ![r] = [Idle EXCEPT !.pc = "sent", !.call = request[r].call,
                                                    !.tries = request[r].tries + 1]]
  /\ UNCHANGED <<tables, keys, told>>

Done(r) == request' = [request EXCEPT ![r].pc = "done", ![r].op = None]
Lose(r) ==
  /\ request[r].pc = "admitted"
  /\ Done(r)
  /\ UNCHANGED <<tables, keys, told>>

-----------------------------------------------------------------------------
(* The first transaction *)

Available == order.status = "awaiting_courier" /\ ~order.expired
Active(i) == attempts[i].phase = "active"
HasActive == \E i \in DOMAIN attempts : Active(i)
CanPropose == Available /\ ~HasActive
HasParticipant(u) == u = Requester \/ u = order.courier

FindIdempotencyKey(c) == IF c.key = NoKey THEN None ELSE keys[Scope(c)].resource
Retain(c, op) ==
  keys' = IF c.key = NoKey THEN keys ELSE [keys EXCEPT ![Scope(c)] = Stored(Hash(c), op)]

Admitted(r, op) == request' = [request EXCEPT ![r].pc = "admitted", ![r].op = op]
Bump(o) == [o EXCEPT !.revision = @ + 1]

\* An offer's key counts for a day, or while the offer is being accepted.
Forgotten(c) ==
  /\ keys[Scope(c)].old
  /\ offers[keys[Scope(c)].resource].status # "accepting"
Known(c) == FindIdempotencyKey(c) # None /\ (keys[Scope(c)].hash = Hash(c) => ~Forgotten(c))
SameRequest(c) == Known(c) /\ keys[Scope(c)].hash = Hash(c)

\* A retained key is resolved before anything is checked.
Replay(r) ==
  /\ request[r].pc = "sent" /\ SameRequest(request[r].call)
  /\ Admitted(r, FindIdempotencyKey(request[r].call))
  /\ UNCHANGED <<tables, keys, told>>

\* The open offer of the courier gives way to the new one.
VoidOpen(c) ==
  [i \in DOMAIN offers |->
     IF offers[i].courier = c.caller /\ offers[i].status = "open"
       THEN [offers[i] EXCEPT !.status = "void"] ELSE offers[i]]

MakesOffer(c) == c.method = "offer" /\ ~Known(c) /\ CanPropose
MakeOffer(r) ==
  LET c == request[r].call IN
  /\ request[r].pc = "sent" /\ MakesOffer(c)
  /\ offers' = Append(VoidOpen(c), Offer(c.caller, c.what, "open"))
  /\ order' = Bump(order)
  /\ Retain(c, Len(offers) + 1) /\ Admitted(r, Len(offers) + 1)
  /\ UNCHANGED <<attempts, cancellations, told>>

AcceptsOrder(c) == c.method = "accept_order" /\ ~Known(c) /\ Available
AcceptOrder(r) ==
  LET c == request[r].call IN
  /\ request[r].pc = "sent" /\ AcceptsOrder(c) /\ ~HasActive
  /\ offers' = Append(offers, Offer(c.caller, 0, "accepting"))
  /\ attempts' = Append(attempts,
       Attempt(c.caller, c.caller, Len(offers) + 1, "active", "none", Scope(c)))
  /\ order' = Bump(order)
  /\ Retain(c, Len(attempts) + 1) /\ Admitted(r, Len(attempts) + 1)
  /\ UNCHANGED <<cancellations, told>>

\* HasRejectedAcceptance: one courier leaves one rejected attempt behind.
HasRejectedAcceptance(u) ==
  \E i \in DOMAIN attempts :
    attempts[i].caller = u /\ attempts[i].phase = "rejected" /\ attempts[i].offer = None
Rejected(c) == Attempt(c.caller, c.caller, None, "rejected", "in_progress", Scope(c))

\* Mutant: the loser is refused, and its identity rolled back.
KeepsNothing(c) == <<attempts, keys>>
\* What is written for a courier who comes second.
KeepsIdentity(c) ==
  <<Append(attempts, Rejected(c)),
    [keys EXCEPT ![Scope(c)] = Stored(Hash(c), Len(attempts) + 1)]>>

\* The second transaction can answer nothing else, so it is not a step of its own.
RejectsContender(c) == AcceptsOrder(c) /\ HasActive /\ ~HasRejectedAcceptance(c.caller)
RejectContender(r) ==
  LET c == request[r].call IN
  /\ request[r].pc = "sent" /\ RejectsContender(c)
  /\ attempts' = KeepsIdentity(c)[1] /\ keys' = KeepsIdentity(c)[2]
  /\ Done(r)
  /\ told' = told \cup {Scope(c)}
  /\ UNCHANGED <<order, offers, cancellations>>

\* The last attempt at an offer; one that credits were missing for may be followed.
OfferAssignment(f) ==
  LET tried == {i \in DOMAIN attempts : attempts[i].offer = f}
  IN IF tried = {} THEN None ELSE CHOOSE i \in tried : \A j \in tried : j <= i
Joins(c) ==
  /\ c.method = "accept_offer" /\ OfferAssignment(c.what) # None
  /\ LET a == attempts[OfferAssignment(c.what)]
     IN ~(a.phase = "rejected" /\ a.rejection = "insufficient_credits")
JoinAttempt(r) ==
  /\ request[r].pc = "sent" /\ Joins(request[r].call)
  /\ Admitted(r, OfferAssignment(request[r].call.what))
  /\ UNCHANGED <<tables, keys, told>>

AcceptsOffer(c) ==
  c.method = "accept_offer" /\ ~Joins(c) /\ CanPropose /\ offers[c.what].status = "open"
AcceptOffer(r) ==
  LET c == request[r].call IN
  /\ request[r].pc = "sent" /\ AcceptsOffer(c)
  /\ offers' = [offers EXCEPT ![c.what].status = "accepting"]
  /\ attempts' = Append(attempts,
       Attempt(c.caller, offers[c.what].courier, c.what, "active", "none", Scope(c)))
  /\ order' = Bump(order)
  /\ Admitted(r, Len(attempts) + 1)
  /\ UNCHANGED <<cancellations, keys, told>>

JoinsWithdrawal(c) == order.pending # None /\ c.caller = order.courier
Confirms(c) ==
  c.method = "cancel" /\ ~Known(c) /\ HasParticipant(c.caller) /\ c.what = order.revision
JoinWithdrawal(r) ==
  LET c == request[r].call IN
  /\ request[r].pc = "sent" /\ Confirms(c) /\ JoinsWithdrawal(c)
  /\ Retain(c, order.pending) /\ Admitted(r, order.pending)
  /\ UNCHANGED <<tables, told>>

Withdraws(c) ==
  /\ Confirms(c) /\ ~JoinsWithdrawal(c)
  /\ order.status = "awaiting_pickup" /\ c.caller = order.courier
BeginWithdrawal(r) ==
  LET c == request[r].call IN
  /\ request[r].pc = "sent" /\ Withdraws(c)
  /\ cancellations' = Append(cancellations, Cancellation(c.caller, "pending", c.what))
  /\ order' = [Bump(order) EXCEPT !.pending = Len(cancellations) + 1]
  /\ Retain(c, Len(cancellations) + 1) /\ Admitted(r, Len(cancellations) + 1)
  /\ UNCHANGED <<attempts, offers, told>>

\* The order is closed: offers are void, a withdrawal is superseded and the
\* active attempt turns to its revert, which cannot succeed any more.
Cancels(c) ==
  /\ Confirms(c) /\ ~JoinsWithdrawal(c) /\ ~Withdraws(c)
  /\ order.status # "closed"
Superseded ==
  [i \in DOMAIN cancellations |->
     IF cancellations[i].status = "pending" THEN [cancellations[i] EXCEPT !.status = "superseded"]
                                            ELSE cancellations[i]]
Voided ==
  [i \in DOMAIN offers |->
     IF offers[i].status \in {"open", "accepting"} THEN [offers[i] EXCEPT !.status = "void"]
                                                   ELSE offers[i]]
CancelOrder(r) ==
  LET c == request[r].call IN
  /\ request[r].pc = "sent" /\ Cancels(c)
  /\ cancellations' = Append(Superseded, Cancellation(c.caller, "succeeded", c.what))
  /\ offers' = Voided
  /\ order' = [Bump(order) EXCEPT !.status = "closed", !.pending = None]
  /\ Retain(c, Len(cancellations) + 1) /\ Admitted(r, Len(cancellations) + 1)
  /\ UNCHANGED <<attempts, told>>

\* Everything else is refused and leaves no trace.
Refused(c) ==
  /\ ~SameRequest(c) /\ ~MakesOffer(c) /\ ~(AcceptsOrder(c) /\ ~HasActive)
  /\ ~RejectsContender(c) /\ ~Joins(c) /\ ~AcceptsOffer(c)
  /\ ~(Confirms(c) /\ JoinsWithdrawal(c)) /\ ~Withdraws(c) /\ ~Cancels(c)
Refuse(r) ==
  /\ request[r].pc = "sent" /\ Refused(request[r].call)
  /\ request' = [request EXCEPT ![r].pc = "refused"]
  /\ UNCHANGED <<tables, keys, told>>

-----------------------------------------------------------------------------
(* The second transaction *)

\* resumeAssignment and the end of cancel: what has become of the operation.
Result(c, op) ==
  CASE c.method = "offer" -> offers[op].status
    [] c.method = "cancel" -> cancellations[op].status
    [] OTHER -> attempts[op].phase
Answer(r) ==
  LET c == request[r].call
      result == Result(c, request[r].op)
  IN
  /\ request[r].pc = "admitted"
  /\ Done(r)
  /\ told' = IF result = "rejected" /\ c.method = "accept_order"
               THEN told \cup {Scope(c)} ELSE told
  /\ UNCHANGED <<tables, keys>>

-----------------------------------------------------------------------------
(* The workflows, the timers and time *)

\* The courier has the order; the other open offers are void.
AttemptSucceeds(i) ==
  /\ Active(i) /\ Available
  /\ attempts' = [attempts EXCEPT ![i].phase = "succeeded"]
  /\ offers' = [f \in DOMAIN offers |->
       IF f = attempts[i].offer THEN [offers[f] EXCEPT !.status = "accepted"]
       ELSE IF offers[f].status = "open" THEN [offers[f] EXCEPT !.status = "void"] ELSE offers[f]]
  /\ order' = [Bump(order) EXCEPT !.status = "awaiting_pickup", !.courier = attempts[i].courier]
  /\ UNCHANGED <<cancellations, keys, request, told>>

\* A counteroffer for which credits were missing is open again, if it can be.
AttemptFails(i, reason) ==
  LET f == attempts[i].offer
      reopens == /\ reason = "insufficient_credits" /\ Available
                 /\ offers[f].credits > 0 /\ offers[f].status = "accepting"
  IN
  /\ Active(i) /\ (reason = "unavailable" => ~Available)
  /\ attempts' = [attempts EXCEPT ![i].phase = "rejected", ![i].rejection = reason]
  /\ offers' = [offers EXCEPT ![f].status = IF reopens THEN "open" ELSE "void"]
  /\ order' = Bump(order)
  /\ UNCHANGED <<cancellations, keys, request, told>>

WithdrawalSucceeds ==
  /\ order.pending # None
  /\ cancellations' = [cancellations EXCEPT ![order.pending].status = "succeeded"]
  /\ order' = [Bump(order) EXCEPT !.status = "awaiting_courier", !.courier = Nobody, !.pending = None]
  /\ UNCHANGED <<attempts, offers, keys, request, told>>

Pickup ==
  /\ order.status = "awaiting_pickup" /\ order.pending = None
  /\ order' = [Bump(order) EXCEPT !.status = "delivering"]
  /\ UNCHANGED <<attempts, offers, cancellations, keys, request, told>>

Deadline ==
  /\ order.status \in {"awaiting_courier", "awaiting_pickup"} /\ ~order.expired
  /\ order' = [order EXCEPT !.expired = TRUE]
  /\ UNCHANGED <<attempts, offers, cancellations, keys, request, told>>
Expire ==
  /\ order.status = "awaiting_courier" /\ order.expired
  /\ order' = [Bump(order) EXCEPT !.status = "closed"]
  /\ offers' = Voided
  /\ UNCHANGED <<attempts, cancellations, keys, request, told>>

\* The other keys never expire.
DayPasses ==
  LET ages(s) == s[2] = "offer" /\ keys[s].resource # None /\ ~keys[s].old IN
  /\ \E s \in Scopes : ages(s)
  /\ keys' = [s \in Scopes |-> IF ages(s) THEN [keys[s] EXCEPT !.old = TRUE] ELSE keys[s]]
  /\ UNCHANGED <<tables, request, told>>

-----------------------------------------------------------------------------
(* The specification *)

\* The commands somebody may send: cancellations need no key.
Sendable ==
  {Call("offer", u, k, n) : u \in Couriers, k \in Keys, n \in Credits}
    \cup {Call("accept_order", u, k, 0) : u \in Couriers, k \in Keys}
    \cup {Call("accept_offer", Requester, NoKey, f) : f \in DOMAIN offers}
    \cup {Call("cancel", u, k, order.revision) : u \in Users, k \in Keys \cup {NoKey}}

CommandsNext ==
  \/ \E r \in Requests :
       \/ \E c \in Sendable : Send(r, c)
       \/ SendAgain(r) \/ Lose(r) \/ Answer(r) \/ Replay(r) \/ Refuse(r)
       \/ /\ order.revision < MaxRevision
          /\ \/ MakeOffer(r) \/ AcceptOrder(r) \/ RejectContender(r) \/ JoinAttempt(r)
             \/ AcceptOffer(r) \/ JoinWithdrawal(r) \/ BeginWithdrawal(r) \/ CancelOrder(r)
  \/ /\ order.revision < MaxRevision
     /\ \/ \E i \in DOMAIN attempts :
             \/ AttemptSucceeds(i)
             \/ \E reason \in {"insufficient_credits", "unavailable"} : AttemptFails(i, reason)
        \/ WithdrawalSucceeds \/ Pickup \/ Expire
  \/ Deadline \/ DayPasses

CommandsSpec == CommandsInit /\ [][CommandsNext]_vars

-----------------------------------------------------------------------------
(* Properties *)

\* "Returning a business error here would roll back that identity and let an
\* old retry become a new assignment after the request reopens" (assignment.go):
\* a courier who was told that an acceptance is rejected never gets the order
\* by it, and one key of an acceptance begins one attempt.
RejectionIsFinal ==
  /\ \A i \in DOMAIN attempts :
       attempts[i].scope \in told => attempts[i].phase = "rejected"
  /\ \A i, j \in DOMAIN attempts :
       attempts[i].scope = attempts[j].scope /\ attempts[i].scope[2] = "accept_order" => i = j

\* A cancellation takes effect only on the revision that its caller confirmed,
\* however long the command was on its way.
ConfirmedIsCurrent ==
  Len(cancellations') > Len(cancellations) =>
    cancellations'[Len(cancellations')].confirmed = order.revision

\* However many commands a courier sends, there is one withdrawal at a time,
\* and it is the one that the order names.
OneWithdrawal ==
  {i \in DOMAIN cancellations : cancellations[i].status = "pending"} =
    IF order.pending = None THEN {} ELSE {order.pending}

\* A repeated command that was admitted is not refused afterwards, whatever has
\* become of the order, unless its key was forgotten.
RepeatsAnswered ==
  \A r \in Requests :
    request[r].pc = "sent" /\ request'[r].pc = "refused" =>
      LET c == request[r].call
      IN FindIdempotencyKey(c) = None \/ keys[Scope(c)].hash # Hash(c) \/ Forgotten(c)

\* A courier has one open counteroffer, and of those being accepted there is one,
\* that of the active attempt.
OneOpenOffer ==
  /\ \A i, j \in DOMAIN offers :
       offers[i].status = "open" /\ offers[j].status = "open" /\ offers[i].courier = offers[j].courier
         => i = j
  /\ \A i \in DOMAIN offers :
       offers[i].status = "accepting" => \E a \in DOMAIN attempts : Active(a) /\ attempts[a].offer = i
=============================================================================
