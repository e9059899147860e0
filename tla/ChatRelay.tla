----------------------------- MODULE ChatRelay ------------------------------
(***************************************************************************)
(* The chat of the communication service: the projection of the orders'    *)
(* participants, the poller that takes updates from Telegram one by one,   *)
(* the relay that records and forwards a message, and the retention.       *)
(*                                                                         *)
(* A handler is split where it sends or writes. Each attempt reads afresh, *)
(* and participants and links may change between an attempt's reads and    *)
(* what it does with them. The clock of an order is kept as the phase      *)
(* since it ended: running, grace, closed, expired.                        *)
(***************************************************************************)
EXTENDS Integers, Sequences, FiniteSets

CONSTANTS Users, Chats, Orders,
          Requester,  \* of every order
          Scenes,     \* what may happen outside: see scene
          FirstLinks, \* the chats of the users at the start
          MaxFaults,  \* bound on failed calls of the database or Telegram
          MaxRestarts,\* bound on restarts of the process
          Nobody      \* no user, no chat, no order

Ended == {"completed", "cancelled", "failed"}
Statuses == {"awaiting_courier", "awaiting_pickup", "delivering", "delivered"} \cup Ended

Kinds == {"text", "picture", "chat", "press"}
Updates == [kind : Kinds, chat : Chats, order : Orders \cup {Nobody}]
Revision == [courier : Users \cup {Nobody}, status : Statuses]

\* The bounds are natural numbers; every order has a requester.
ASSUME BoundsAssumption == MaxFaults \in Nat /\ MaxRestarts \in Nat
ASSUME PeopleAssumption ==
  /\ Requester \in [Orders -> Users] /\ FirstLinks \in [Users -> Chats \cup {Nobody}]
  /\ Nobody \notin Users /\ Nobody \notin Chats /\ Nobody \notin Orders
ASSUME ScenesAssumption ==
  \A s \in Scenes : s.history \in [Orders -> Seq(Revision)] /\ s.inbox \in Seq(Updates)

VARIABLES
  scene,      \* what the order service and Telegram have for this service
  seen,       \* newest revision of every order that was consumed
  row,        \* order_participants: the revision stored, 0 without a row
  phase,      \* of every order's clock
  links,      \* telegram_links: the chat of every user
  selection,  \* chat_selections
  targets,    \* chat_reply_targets: the orders a chat can reply about
  messages,   \* chat_messages, by the id of the attempt
  acked,      \* updates Telegram has been told are done
  poller,     \* the update being handled, and what is left of it
  nextId,     \* identifiers of messages used so far
  sent,       \* relayed messages, with what the sender's attempt had read
  answers,    \* replies given to the sender of every update
  faults,
  restarts

store == <<row, links, selection, targets, messages>>
vars == <<scene, seen, phase, store, acked, poller, nextId, sent, answers, faults, restarts>>

\* Courier and status of every order, by revision, and the updates Telegram
\* holds for the bot, in order.
History == scene.history
Inbox == scene.inbox

\* An accepted relay attempt.
Message(id, n, o, from, to) == [id |-> id, update |-> n, order |-> o, from |-> from, to |-> to]
NoMessage == Message(0, 0, Nobody, Nobody, Nobody)
\* The poller: the update, the step that is to be run or retried, the message,
\* the chat and revision the current attempt read, and the end of its batch.
Poller(pc, n, m, chat, rev, last) ==
  [pc |-> pc, update |-> n, msg |-> m, chat |-> chat, rev |-> rev, last |-> last]

RelayInit ==
  /\ scene \in Scenes
  /\ seen = [o \in Orders |-> 0]
  /\ row = [o \in Orders |-> 0]
  /\ phase = [o \in Orders |-> "running"]
  /\ links = FirstLinks
  /\ selection = [u \in Users |-> Nobody]
  /\ targets = [ch \in Chats |-> {}]
  /\ messages = {}
  /\ acked = 0
  /\ poller = Poller("polling", 0, NoMessage, Nobody, 0, 0)
  /\ nextId = 1
  /\ sent = {}
  /\ answers = [n \in 1..Len(Inbox) |-> {}]
  /\ faults = 0 /\ restarts = 0

Fault == faults < MaxFaults /\ faults' = faults + 1

-----------------------------------------------------------------------------
(* The projection *)

Stored(o) == History[o][row[o]]

\* SaveOrderParticipants: an older or repeated revision changes nothing.
Saved(o, i) == IF row[o] < i THEN i ELSE row[o]

\* Apply: the next event of the order, or any earlier one once more.
Apply(o, i) ==
  /\ i <= seen[o] + 1 /\ phase[o] # "expired"
  /\ row' = [row EXCEPT ![o] = Saved(o, i)]
  /\ seen' = [seen EXCEPT ![o] = IF i > @ THEN i ELSE @]
  /\ phase' = [phase EXCEPT ![o] = IF @ = "running" /\ History[o][i].status \in Ended THEN "grace" ELSE @]
  /\ UNCHANGED <<links, selection, targets, messages, acked, poller, nextId, sent, answers, faults, restarts>>

\* IsOpen of the stored copy.
IsOpen(o) ==
  /\ row[o] # 0 /\ Stored(o).courier # Nobody
  /\ \/ Stored(o).status \in {"awaiting_pickup", "delivering", "delivered"}
     \/ Stored(o).status \in Ended /\ phase[o] = "grace"

\* Other: the participant who is not u, or nobody.
Other(o, u) == IF u = Requester[o] THEN Stored(o).courier
               ELSE IF u = Stored(o).courier THEN Requester[o] ELSE Nobody

\* openOrder: u may chat about o now.
MayChat(u, o) == o \in Orders /\ IsOpen(o) /\ Other(o, u) # Nobody
OpenOrders(u) == {o \in Orders : MayChat(u, o)}

-----------------------------------------------------------------------------
(* Time and retention *)

Later(p) == CASE p = "grace" -> "closed" [] p = "closed" -> "expired"

\* An hour, or thirty days: a handler's step takes far less.
Tick(o) ==
  /\ phase[o] \in {"grace", "closed"} /\ poller.pc \notin {"checked"}
  /\ phase' = [phase EXCEPT ![o] = Later(@)]
  /\ UNCHANGED <<seen, store, acked, poller, nextId, sent, answers, faults, restarts>>

\* Past retention, found through the participants.
Expired == {o \in Orders : row[o] # 0 /\ Stored(o).status \in Ended /\ phase[o] = "expired"}
\* The orders whose messages are deleted: before the participants are.
FoundFirst == Expired
HasClosed(o) == \/ o \in Orders /\ row[o] = 0
                \/ o \in Orders /\ row[o] # 0 /\ Stored(o).status \in Ended /\ phase[o] \in {"closed", "expired"}

\* Nobody can chat about the order, and it has not ended: what is stored for it
\* goes by its own age.
Ineligible ==
  {o \in Orders : \/ row[o] = 0
                  \/ row[o] # 0 /\ Stored(o).status \notin Ended
                     /\ (Stored(o).courier = Nobody \/ Stored(o).status = "awaiting_courier")}

\* DeleteExpired, one transaction; nothing to do changes nothing. The targets,
\* and messages without participants, of the orders in old have aged.
DeleteExpired(old) ==
  LET gone == Expired
      selected == [u \in Users |-> IF HasClosed(selection[u]) THEN Nobody ELSE selection[u]]
  IN /\ gone # {} \/ selected # selection \/ \E ch \in Chats : targets[ch] \cap old # {}
     /\ messages' = {m \in messages : m.order \notin FoundFirst /\ ~(m.order \in old /\ row[m.order] = 0)}
     /\ targets' = [ch \in Chats |-> targets[ch] \ (gone \cup old)]
     /\ selection' = selected
     /\ row' = [o \in Orders |-> IF o \in gone THEN 0 ELSE row[o]]
     /\ UNCHANGED <<seen, phase, links, acked, poller, nextId, sent, answers, faults, restarts>>

-----------------------------------------------------------------------------
(* Links, as far as the relay depends on them *)

Owner(ch) == IF \E u \in Users : links[u] = ch THEN CHOOSE u \in Users : links[u] = ch ELSE Nobody
Unlinked(ch) == [u \in Users |-> IF links[u] = ch THEN Nobody ELSE links[u]]

Relink(u, ch) ==
  /\ links[u] # ch
  /\ links' = [Unlinked(ch) EXCEPT ![u] = ch]
  /\ UNCHANGED <<seen, phase, row, selection, targets, messages, acked, poller, nextId, sent, answers, faults, restarts>>

Unlink(u) ==
  /\ links[u] # Nobody
  /\ links' = [links EXCEPT ![u] = Nobody]
  /\ UNCHANGED <<seen, phase, row, selection, targets, messages, acked, poller, nextId, sent, answers, faults, restarts>>

-----------------------------------------------------------------------------
(* The poller *)

\* GetUpdates confirms what is done and returns what is not.
GetUpdates ==
  /\ poller.pc = "polling" /\ (poller.update # acked \/ acked < Len(Inbox))
  /\ acked' = poller.update
  /\ poller' = IF acked' = Len(Inbox) THEN poller
               ELSE Poller("handling", acked' + 1, NoMessage, Nobody, 0, Len(Inbox))
  /\ UNCHANGED <<seen, phase, store, nextId, sent, answers, faults, restarts>>

\* The update is done: the offset moves past it.
Done(p) == IF p.update = p.last THEN Poller("polling", p.update, NoMessage, Nobody, 0, 0)
           ELSE Poller("handling", p.update + 1, NoMessage, Nobody, 0, p.last)
Reply(p, text) == Poller("replying", p.update, [text |-> text], p.chat, p.rev, p.last)
Moved(pc) == Poller(pc, poller.update, poller.msg, poller.chat, poller.rev, poller.last)
Current == Inbox[poller.update]

\* The message replied to is one about order o.
IsReplyTarget(ch, o) == o \in targets[ch]
Selection(u) == selection[u]

\* route: the order of the message replied to, else the chosen order, else the
\* only open chat; or why there is none.
Route(u, ch, o) ==
  IF IsReplyTarget(ch, o) THEN (IF MayChat(u, o) THEN o ELSE "closed")
  ELSE IF MayChat(u, Selection(u)) THEN Selection(u)
  ELSE IF OpenOrders(u) = {} THEN "noChats"
  ELSE IF Cardinality(OpenOrders(u)) = 1 THEN CHOOSE p \in OpenOrders(u) : TRUE
  ELSE "choose"

\* A message saved again changes nothing.
SaveMessage(m) == messages \cup {m}
Select(u, o) == [selection EXCEPT ![u] = o]

\* HandleMessage up to the first write: a message to relay, or a reply.
HandleMessage ==
  LET ch == Current.chat
      u == Owner(ch)
      o == Route(u, ch, Current.order)
      m == Message(nextId, poller.update, o, u, Other(o, u))
  IN /\ poller.pc = "handling" /\ Current.kind \in {"text", "picture"}
     /\ IF u = Nobody THEN poller' = Reply(poller, "notLinked") /\ UNCHANGED nextId
        ELSE IF Current.kind = "picture" THEN poller' = Reply(poller, "textOnly") /\ UNCHANGED nextId
        ELSE IF o \notin Orders THEN poller' = Reply(poller, o) /\ UNCHANGED nextId
        ELSE IF links[m.to] = Nobody THEN poller' = Reply(poller, "notConnected") /\ UNCHANGED nextId
        ELSE /\ poller' = Poller("recording", poller.update, m, ch, poller.rev, poller.last)
             /\ nextId' = nextId + 1
     /\ UNCHANGED <<seen, phase, store, acked, sent, answers, faults, restarts>>

\* A read before the first write fails: the update is logged and done.
HandleFails ==
  /\ poller.pc = "handling" /\ Fault
  /\ poller' = Done(poller)
  /\ UNCHANGED <<seen, phase, store, acked, nextId, sent, answers, restarts>>

\* ShowChats answers with the open chats.
ShowChats ==
  /\ poller.pc = "handling" /\ Current.kind = "chat"
  /\ poller' = Reply(poller, IF Owner(Current.chat) = Nobody THEN "notLinked"
                             ELSE IF OpenOrders(Owner(Current.chat)) = {} THEN "noChats" ELSE "choose")
  /\ UNCHANGED <<seen, phase, store, acked, nextId, sent, answers, faults, restarts>>

\* HandleCallback: the pressed order is chosen if its chat is open.
HandleCallback ==
  LET u == Owner(Current.chat) IN
  /\ poller.pc = "handling" /\ Current.kind = "press"
  /\ IF u # Nobody /\ MayChat(u, Current.order)
     THEN /\ selection' = Select(u, Current.order)
          /\ poller' = Reply(poller, "chosen")
     ELSE /\ poller' = Reply(poller, IF u = Nobody THEN "notLinked" ELSE "closed")
          /\ UNCHANGED selection
  /\ UNCHANGED <<seen, phase, row, links, targets, messages, acked, nextId, sent, answers, faults, restarts>>

-----------------------------------------------------------------------------
(* The relay *)

StillOpen(m) == TRUE
\* The chat is open and the other participant is still the recipient.
StillBetween(m) == MayChat(m.from, m.order) /\ Other(m.order, m.from) = m.to

\* recordAndSend: the dispute record comes first.
RecordMessage ==
  LET m == poller.msg IN
  /\ poller.pc = "recording"
  /\ IF StillBetween(m)
     THEN /\ messages' = SaveMessage(m)
          /\ poller' = Moved("selecting")
     ELSE /\ poller' = Reply(poller, "closed")
          /\ UNCHANGED messages
  /\ UNCHANGED <<seen, phase, row, links, selection, targets, acked, nextId, sent, answers, faults, restarts>>

\* SaveMessage fails, before or after its commit: the same step is retried.
RecordFails ==
  /\ poller.pc = "recording" /\ StillBetween(poller.msg) /\ Fault
  /\ messages' \in {messages, SaveMessage(poller.msg)}
  /\ UNCHANGED <<seen, phase, row, links, selection, targets, acked, poller, nextId, sent, answers, restarts>>

\* selectAndSend up to the send: participants and links are read again.
CheckAndSelect ==
  LET m == poller.msg IN
     /\ poller.pc = "selecting"
     /\ IF ~StillBetween(m) THEN poller' = Reply(poller, "closed") /\ UNCHANGED selection
        ELSE IF links[m.from] # poller.chat THEN poller' = Reply(poller, "notLinked") /\ UNCHANGED selection
        ELSE IF links[m.to] = Nobody THEN poller' = Reply(poller, "notConnected") /\ UNCHANGED selection
        ELSE /\ poller' = Poller("checked", poller.update, m, links[m.to], row[m.order], poller.last)
             /\ selection' = Select(m.from, m.order)
     /\ UNCHANGED <<seen, phase, row, links, targets, messages, acked, nextId, sent, answers, faults, restarts>>

\* A read fails, or the selection fails to be saved: retried from the reads.
SelectFails ==
  /\ poller.pc = "selecting" /\ Fault
  /\ UNCHANGED <<seen, phase, store, acked, poller, nextId, sent, answers, restarts>>

Delivery == [msg |-> poller.msg, chat |-> poller.chat, rev |-> poller.rev, run |-> restarts]

Send ==
  /\ poller.pc = "checked"
  /\ sent' = sent \cup {Delivery}
  /\ poller' = Moved("sent")
  /\ UNCHANGED <<seen, phase, store, acked, nextId, answers, faults, restarts>>

\* The send fails or its answer is lost: the sender is asked to send again.
SendFails ==
  /\ poller.pc = "checked" /\ Fault
  /\ sent' \in {sent, sent \cup {Delivery}}
  /\ poller' = Reply(poller, "retry")
  /\ UNCHANGED <<seen, phase, store, acked, nextId, answers, restarts>>

\* The chat is gone: it is unlinked and the sender told.
ChatGone ==
  /\ poller.pc = "checked" /\ Fault
  /\ links' = Unlinked(poller.chat)
  /\ poller' = Reply(poller, "unreachable")
  /\ UNCHANGED <<seen, phase, row, selection, targets, messages, acked, nextId, sent, answers, restarts>>

\* The chat is gone and unlinking it fails: the update is logged and done.
UnlinkFails ==
  /\ poller.pc = "checked" /\ Fault
  /\ links' \in {links, Unlinked(poller.chat)}
  /\ poller' = Done(poller)
  /\ UNCHANGED <<seen, phase, row, selection, targets, messages, acked, nextId, sent, answers, restarts>>

\* What is retried when the target was not saved: everything.
HandledAgain == Moved("handling")
\* Only this write.
TargetRetried == poller

SaveReplyTarget ==
  /\ poller.pc = "sent"
  /\ targets' = [targets EXCEPT ![poller.chat] = @ \cup {poller.msg.order}]
  /\ poller' = Done(poller)
  /\ UNCHANGED <<seen, phase, row, links, selection, messages, acked, nextId, sent, answers, faults, restarts>>

TargetFails ==
  /\ poller.pc = "sent" /\ Fault
  /\ poller' = TargetRetried
  /\ UNCHANGED <<seen, phase, store, acked, nextId, sent, answers, restarts>>

SendReply ==
  /\ poller.pc = "replying"
  /\ answers' = [answers EXCEPT ![poller.update] = @ \cup {poller.msg.text}]
  /\ poller' = Done(poller)
  /\ UNCHANGED <<seen, phase, store, acked, nextId, sent, faults, restarts>>

\* A transient failure is retried; Telegram refusing the reply ends it.
ReplyFails ==
  /\ poller.pc = "replying" /\ Fault
  /\ poller' \in {poller, Done(poller)}
  /\ UNCHANGED <<seen, phase, store, acked, nextId, sent, answers, restarts>>

\* The process stops: the unfinished step and the offset are lost.
Restart ==
  /\ restarts < MaxRestarts /\ poller # Poller("polling", acked, NoMessage, Nobody, 0, 0)
  /\ restarts' = restarts + 1
  /\ poller' = Poller("polling", acked, NoMessage, Nobody, 0, 0)
  /\ UNCHANGED <<seen, phase, store, acked, nextId, sent, answers, faults>>

-----------------------------------------------------------------------------
(* The specification *)

PollerStep ==
  \/ GetUpdates \/ HandleMessage \/ ShowChats \/ HandleCallback \/ RecordMessage
  \/ CheckAndSelect \/ Send \/ SaveReplyTarget \/ SendReply
PollerFails ==
  \/ HandleFails \/ RecordFails \/ SelectFails \/ SendFails \/ ChatGone \/ UnlinkFails
  \/ TargetFails \/ ReplyFails

RelayNext ==
  /\ \/ \E o \in Orders : Tick(o) \/ \E i \in 1..Len(History[o]) : Apply(o, i)
     \/ \E u \in Users : Unlink(u) \/ \E ch \in Chats : Relink(u, ch)
     \/ \E old \in SUBSET Ineligible : DeleteExpired(old)
     \/ PollerStep \/ PollerFails \/ Restart
  /\ UNCHANGED scene

\* The poller runs for ever and retries at once; the faults are bounded.
RelaySpec == RelayInit /\ [][RelayNext]_vars /\ WF_vars(PollerStep)

-----------------------------------------------------------------------------
(* Properties *)

\* The shape of the stores, of the poller and of what was sent.
RelayTypeOK ==
  /\ scene \in Scenes
  /\ row \in [Orders -> Nat] /\ seen \in [Orders -> Nat]
  /\ \A o \in Orders : row[o] <= seen[o] /\ seen[o] <= Len(History[o])
  /\ phase \in [Orders -> {"running", "grace", "closed", "expired"}]
  /\ links \in [Users -> Chats \cup {Nobody}]
  /\ selection \in [Users -> Orders \cup {Nobody}]
  /\ targets \in [Chats -> SUBSET Orders]
  /\ acked \in 0..Len(Inbox) /\ poller.update \in acked..Len(Inbox)
  /\ nextId \in Nat \ {0} /\ \A m \in messages : m.id \in 1..(nextId - 1) /\ m.order \in Orders
  /\ restarts \in 0..MaxRestarts
  /\ \A d \in sent : d.run \in 0..restarts /\ d.msg.update \in 1..Len(Inbox) /\ d.msg.order \in Orders

\* The stored participants are the newest that were consumed, whatever was
\* delivered twice or late, until they are deleted: a replay never brings a
\* former courier back (chat.sql SaveOrderParticipants).
NewestCourier ==
  \A o \in Orders : row[o] = seen[o] \/ (row[o] = 0 /\ phase[o] = "expired")

\* Nothing is relayed without a dispute record of the same message, in every
\* failure and retry (relay.go: "Persist the dispute record before any
\* external delivery"), for as long as the record must be kept.
RelayedIsRecorded ==
  \A d \in sent : d.msg \in messages \/ phase[d.msg.order] = "expired"

\* Every message went to who was the other participant of an open chat in the
\* copy that the last attempt had read: a retry never delivers to a courier
\* who had left before it (relay.go: "Recheck before every send attempt").
BetweenParticipants(m, rev) ==
  LET h == History[m.order][rev] IN
  /\ rev # 0 /\ {m.from, m.to} = {Requester[m.order], h.courier}
  /\ h.status \in {"awaiting_pickup", "delivering", "delivered"} \cup Ended
SentToParticipants == \A d \in sent : BetweenParticipants(d.msg, d.rev)

\* A run of the process relays an update at most once, however often its
\* writes fail: a retry never repeats a send that succeeded.
OncePerRun ==
  \A d, e \in sent : d.msg.update = e.msg.update /\ d.run = e.run => d = e

\* When the participants of an ended order are deleted its messages are gone,
\* and no late continuation records one again.
RetentionComplete ==
  \A m \in messages : row[m.order] # 0

\* A message reaches the other participant of the order as the sender's
\* attempt read it, and never a courier older than the projection had.
RelayedToParticipant == RelayTypeOK /\ SentToParticipants /\ NewestCourier

\* One update is relayed once, under a record that was written before, and
\* what is stored for an order is deleted when its retention is over, although
\* calls fail and the process restarts in the middle of an update.
RelayedOnce == OncePerRun /\ RelayedIsRecorded /\ RetentionComplete

\* HandleMessage "replies to the sender with what went wrong when it can't
\* relay" (relay.go): a confirmed message was relayed or answered.
RelayedOrAnswered ==
  \A n \in 1..acked : Inbox[n].kind = "text" =>
    answers[n] # {} \/ \E d \in sent : d.msg.update = n
=============================================================================
