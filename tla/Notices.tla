------------------------------ MODULE Notices -------------------------------
(***************************************************************************)
(* The consumer of order.status_changed in the communication service: it   *)
(* projects the participants of the order, then tells those who did not    *)
(* cause the change, and only then commits the event. Failures stop the    *)
(* subscriber, which starts again at the committed offset.                 *)
(***************************************************************************)
EXTENDS Integers, Sequences, FiniteSets, FiniteSetsExt

CONSTANTS Users,
          Events,     \* the changes of an order: actor, requester, couriers
          Rejecting,  \* users whose messages Telegram refuses every time
          MaxFaults,  \* bound on failed calls and stops of the process
          MaxLinkings,\* bound on links made and removed
          Nobody

VARIABLES
  committed,  \* offset of the group
  consumer,   \* the subscriber: its step, and the recipients left
  row,        \* newest revision projected
  linked,     \* users with a Telegram link
  stale,      \* events older than MaxAge
  recorded,   \* order_notifications_sent
  targets,    \* events whose message a user can reply to
  told,       \* messages that reached a user about an event
  excused,    \* recipients that were passed over for a reason
  doubts,     \* failures after a message may have been sent, before its record
  faults, linkings

vars == <<committed, consumer, row, linked, stale, recorded, targets, told, excused, doubts, faults, linkings>>

Numbers == 1..Len(Events)
Consumer(pc, todo) == [pc |-> pc, todo |-> todo]
Stopped == Consumer("stopped", <<>>)
Event == committed + 1

Change(actor, requester, courier, previous, status) ==
  [actor |-> actor, requester |-> requester, courier |-> courier, previous |-> previous, status |-> status]

\* message: only these changes have a text for the role.
HasText(role, status) ==
  CASE role = "requester" -> TRUE
    [] role = "courier" -> status \notin {"awaiting_courier", "delivered"}
    [] role = "previous" -> status = "awaiting_courier"

\* recipients: the participants who did not cause the change.
Recipients(e) ==
  LET r == IF e.requester # e.actor /\ HasText("requester", e.status) THEN <<e.requester>> ELSE <<>>
      c == IF e.courier \notin {Nobody, e.actor, e.requester} /\ HasText("courier", e.status)
           THEN <<e.courier>> ELSE <<>>
      p == IF e.previous \notin {Nobody, e.actor} /\ e.courier = Nobody /\ HasText("previous", e.status)
           THEN <<e.previous>> ELSE <<>>
  IN r \o c \o p

NoticesInit ==
  /\ committed = 0 /\ consumer = Stopped /\ row = 0
  /\ linked = Users /\ stale = {} /\ recorded = {} /\ targets = {}
  /\ told = [n \in Numbers, u \in Users |-> 0]
  /\ excused = {} /\ doubts = 0 /\ faults = 0 /\ linkings = 0

-----------------------------------------------------------------------------
(* The subscription *)

\* runNotifications starts a subscriber, at once or after a delay.
Start ==
  /\ consumer.pc = "stopped"
  /\ consumer' = Consumer("fetching", <<>>)
  /\ UNCHANGED <<committed, row, linked, stale, recorded, targets, told, excused, doubts, faults, linkings>>

\* Apply: the projection comes before the notifications.
Project ==
  /\ consumer.pc = "fetching" /\ Event \in Numbers
  /\ row' = IF row < Event THEN Event ELSE row
  /\ consumer' = Consumer("projected", <<>>)
  /\ UNCHANGED <<committed, linked, stale, recorded, targets, told, excused, doubts, faults, linkings>>

\* Handle: an event older than MaxAge is skipped.
Handle ==
  /\ consumer.pc = "projected"
  /\ consumer' = Consumer("telling", IF Event \in stale THEN <<>> ELSE Recipients(Events[Event]))
  /\ excused' = IF Event \in stale THEN excused \cup ({Event} \X Users) ELSE excused
  /\ UNCHANGED <<committed, row, linked, stale, recorded, targets, told, doubts, faults, linkings>>

\* The event is committed before everyone was told.
CommitEarly ==
  /\ consumer.pc = "telling" /\ Len(consumer.todo) <= 1
  /\ committed' = committed + 1
  /\ consumer' = Consumer("fetching", <<>>)
  /\ UNCHANGED <<row, linked, stale, recorded, targets, told, excused, doubts, faults, linkings>>

Commit ==
  /\ consumer.pc = "telling" /\ consumer.todo = <<>>
  /\ committed' = committed + 1
  /\ consumer' = Consumer("fetching", <<>>)
  /\ UNCHANGED <<row, linked, stale, recorded, targets, told, excused, doubts, faults, linkings>>

-----------------------------------------------------------------------------
(* notify *)

Telling(u) == consumer.pc = "telling" /\ consumer.todo # <<>> /\ consumer.todo[1] = u
NextOne == Consumer("telling", Tail(consumer.todo))

HasBeenSent(u) == <<Event, u>> \in recorded

\* Already told, or no chat to tell: go on with the next recipient.
PassOver(u) ==
  /\ Telling(u) /\ (HasBeenSent(u) \/ u \notin linked)
  /\ consumer' = NextOne
  /\ excused' = IF HasBeenSent(u) THEN excused ELSE excused \cup {<<Event, u>>}
  /\ UNCHANGED <<committed, row, linked, stale, recorded, targets, told, doubts, faults, linkings>>

MayTell(u) == Telling(u) /\ ~HasBeenSent(u) /\ u \in linked

Send(u) ==
  /\ MayTell(u) /\ u \notin Rejecting
  /\ told' = [told EXCEPT ![Event, u] = @ + 1]
  /\ consumer' = [consumer EXCEPT !.pc = "sent"]
  /\ UNCHANGED <<committed, row, linked, stale, recorded, targets, excused, doubts, faults, linkings>>

\* Telegram refuses this message every time: it is skipped.
Rejected(u) ==
  /\ MayTell(u) /\ u \in Rejecting
  /\ consumer' = NextOne
  /\ excused' = excused \cup {<<Event, u>>}
  /\ UNCHANGED <<committed, row, linked, stale, recorded, targets, told, doubts, faults, linkings>>

\* The chat can no longer be reached: it is unlinked.
ChatGone(u) ==
  /\ MayTell(u) /\ faults < MaxFaults
  /\ faults' = faults + 1
  /\ linked' = linked \ {u}
  /\ consumer' = NextOne
  /\ excused' = excused \cup {<<Event, u>>}
  /\ UNCHANGED <<committed, row, stale, recorded, targets, told, doubts, linkings>>

\* The call fails, with the message sent or not: the subscriber stops.
SendFails(u) ==
  /\ MayTell(u) /\ faults < MaxFaults
  /\ faults' = faults + 1
  /\ \/ UNCHANGED <<told, doubts>>
     \/ told' = [told EXCEPT ![Event, u] = @ + 1] /\ doubts' = doubts + 1
  /\ consumer' = Stopped
  /\ UNCHANGED <<committed, row, linked, stale, recorded, targets, excused, linkings>>

\* RecordSent, and then the reply target, which may fail without effect.
RecordSent ==
  LET u == consumer.todo[1] IN
  /\ consumer.pc = "sent"
  /\ recorded' = recorded \cup {<<Event, u>>}
  /\ targets' \in {targets, targets \cup {<<Event, u>>}}
  /\ consumer' = NextOne
  /\ UNCHANGED <<committed, row, linked, stale, told, excused, doubts, faults, linkings>>

\* A database call fails, or the process stops.
Stop ==
  /\ consumer.pc # "stopped" /\ faults < MaxFaults
  /\ faults' = faults + 1
  /\ doubts' = IF consumer.pc = "sent" THEN doubts + 1 ELSE doubts
  /\ consumer' = Stopped
  /\ UNCHANGED <<committed, row, linked, stale, recorded, targets, told, excused, linkings>>

-----------------------------------------------------------------------------
(* The surroundings *)

LinkOrUnlink(u) ==
  /\ linkings < MaxLinkings
  /\ linkings' = linkings + 1
  /\ linked' = IF u \in linked THEN linked \ {u} ELSE linked \cup {u}
  /\ UNCHANGED <<committed, consumer, row, stale, recorded, targets, told, excused, doubts, faults>>

\* An hour passes: whatever waits so long is not told any more.
Age(n) ==
  /\ n \in Numbers \ stale /\ n > committed /\ \A k \in Numbers : k < n /\ k > committed => k \in stale
  /\ stale' = stale \cup {n}
  /\ UNCHANGED <<committed, consumer, row, linked, recorded, targets, told, excused, doubts, faults, linkings>>

ConsumerStep ==
  \/ Start \/ Project \/ Handle \/ Commit \/ RecordSent
  \/ \E u \in Users : PassOver(u) \/ Send(u) \/ Rejected(u)

NoticesNext ==
  \/ ConsumerStep \/ Stop
  \/ \E u \in Users : ChatGone(u) \/ SendFails(u) \/ LinkOrUnlink(u)
  \/ \E n \in Numbers : Age(n)

\* The subscriber is started again whenever it stops; faults are bounded.
NoticesSpec == NoticesInit /\ [][NoticesNext]_vars /\ WF_vars(ConsumerStep)

-----------------------------------------------------------------------------
(* Properties *)

\* The shape of the projection, the records and the consumer.
NoticesTypeOK ==
  /\ committed \in 0..Len(Events) /\ row \in 0..Len(Events)
  /\ consumer.pc \in {"stopped", "fetching", "projected", "telling", "sent"}
  /\ consumer.todo \in Seq(Users) /\ (consumer.pc = "sent" => consumer.todo # <<>>)
  /\ linked \subseteq Users /\ stale \subseteq Numbers
  /\ recorded \cup targets \cup excused \subseteq Numbers \X Users /\ targets \subseteq recorded

\* Whoever is told about a change can answer it: the participants of that
\* revision are stored before the message goes out (main.go startNotifications).
ToldIsProjected ==
  \A n \in Numbers, u \in Users : told[n, u] > 0 => row >= n

\* A committed event was told to every recipient, or the recipient was passed
\* over for a reason the code names: no failure loses a notification.
CommittedIsTold ==
  \A n \in 1..committed : \A u \in Users :
    (\E i \in 1..Len(Recipients(Events[n])) : Recipients(Events[n])[i] = u)
      => told[n, u] > 0 \/ <<n, u>> \in excused

Repeats == MapThenSumSet(LAMBDA x : IF told[x] > 1 THEN told[x] - 1 ELSE 0, Numbers \X Users)

\* Nobody is told twice but for a failure between a message and its record:
\* "a crash between sending and recording can repeat one message" (handler.go).
RepeatsAreDoubts == Repeats <= doubts
=============================================================================
