----------------------------- MODULE ChatProofs -----------------------------
(***************************************************************************)
(* Proofs about ChatRelay, for any users, orders, histories, updates,      *)
(* faults and restarts. That an update is relayed once is a fact about     *)
(* what was sent; it holds because of where the poller is. RelayHold adds  *)
(* what the poller's step knows: a message that may be sent was not sent   *)
(* in this run, is recorded unless its retention is over, and goes to the  *)
(* participant of the revision the attempt has read.                       *)
(***************************************************************************)
EXTENDS ChatRelay, TLAPS

-----------------------------------------------------------------------------
(* The inductive invariant *)

Relaying == {"recording", "selecting", "checked", "sent"}
Unsent == {"handling", "recording", "selecting", "checked"}

\* The batch the poller works on, and the message it is about to relay.
PollerSound ==
  /\ poller.pc \in {"polling", "replying"} \cup Relaying \cup Unsent
  /\ poller.pc # "polling" => poller.update # 0 /\ poller.last = Len(Inbox)
  /\ poller.pc \in Relaying =>
       /\ poller.msg.update = poller.update /\ poller.msg.id \in 1..(nextId - 1)
       /\ poller.msg.order \in Orders /\ poller.msg.from \in Users

\* The dispute record comes before the send.
RecordedFirst ==
  poller.pc \in {"selecting", "checked", "sent"} =>
    poller.msg \in messages \/ phase[poller.msg.order] = "expired"

\* The participants are read again before every send.
CheckedFirst ==
  poller.pc \in {"checked", "sent"} => BetweenParticipants(poller.msg, poller.rev)

\* What was sent in this run belongs to updates the poller is past, or to the
\* one it has sent.
SentBefore ==
  \A d \in sent : d.run = restarts =>
    /\ d.msg.update <= poller.update
    /\ poller.pc \in Unsent => d.msg.update # poller.update

RelayHold ==
  /\ RelayedToParticipant /\ RelayedOnce
  /\ PollerSound /\ RecordedFirst /\ CheckedFirst /\ SentBefore

\* The types of the state, as the steps below need them.
LEMMA Types ==
  ASSUME RelayHold
  PROVE  /\ scene \in Scenes /\ Inbox \in Seq(Updates) /\ Len(Inbox) \in Nat
         /\ \A o \in Orders : History[o] \in Seq(Revision) /\ Len(History[o]) \in Nat
         /\ row \in [Orders -> Nat] /\ seen \in [Orders -> Nat]
         /\ phase \in [Orders -> {"running", "grace", "closed", "expired"}]
         /\ links \in [Users -> Chats \cup {Nobody}]
         /\ selection \in [Users -> Orders \cup {Nobody}]
         /\ targets \in [Chats -> SUBSET Orders]
         /\ acked \in Nat /\ poller.update \in Nat /\ acked <= poller.update
         /\ poller.update <= Len(Inbox) /\ nextId \in Nat \ {0} /\ restarts \in Nat
<1>1. RelayTypeOK /\ scene \in Scenes
  BY DEF RelayHold, RelayedToParticipant, RelayTypeOK
<1>2. Inbox \in Seq(Updates) /\ \A o \in Orders : History[o] \in Seq(Revision)
  BY <1>1, ScenesAssumption DEF Inbox, History
<1>3. Len(Inbox) \in Nat /\ \A o \in Orders : Len(History[o]) \in Nat
  BY <1>2
<1>4. acked \in Nat /\ poller.update \in Nat /\ acked <= poller.update /\ poller.update <= Len(Inbox)
  BY <1>1, <1>3 DEF RelayTypeOK
<1> QED
  BY <1>1, <1>2, <1>3, <1>4, BoundsAssumption DEF RelayTypeOK

\* The service starts with nothing stored and nothing sent.
LEMMA InitHolds ==
  ASSUME RelayInit
  PROVE  RelayHold
<1>1. scene \in Scenes /\ Inbox \in Seq(Updates) /\ \A o \in Orders : History[o] \in Seq(Revision)
  BY ScenesAssumption DEF RelayInit, Inbox, History
<1>2. Len(Inbox) \in Nat /\ \A o \in Orders : Len(History[o]) \in Nat
  BY <1>1
<1>3. poller.update = 0 /\ poller.pc = "polling"
  BY DEF RelayInit, Poller
<1>4. RelayTypeOK
  BY <1>1, <1>2, <1>3, PeopleAssumption, BoundsAssumption DEF RelayInit, RelayTypeOK
<1>5. RelayedToParticipant /\ RelayedOnce
  BY <1>4 DEF RelayInit, RelayedToParticipant, SentToParticipants, NewestCourier, RelayedOnce,
     OncePerRun, RelayedIsRecorded, RetentionComplete
<1>6. PollerSound /\ RecordedFirst /\ CheckedFirst /\ SentBefore
  BY <1>3 DEF RelayInit, PollerSound, RecordedFirst, CheckedFirst, SentBefore, Relaying
<1> QED
  BY <1>5, <1>6 DEF RelayHold

-----------------------------------------------------------------------------
(* Steps outside the poller *)

\* The projection, time, retention and links: messages of an order disappear
\* only with its participants, after its retention.
LEMMA StoreHolds ==
  ASSUME RelayHold, UNCHANGED <<scene, acked, poller, nextId, sent, answers, faults, restarts>>,
         row' \in [Orders -> Nat], seen' \in [Orders -> Nat],
         \A o \in Orders : row'[o] <= seen'[o] /\ seen'[o] <= Len(History[o]),
         phase' \in [Orders -> {"running", "grace", "closed", "expired"}],
         links' \in [Users -> Chats \cup {Nobody}],
         selection' \in [Users -> Orders \cup {Nobody}], targets' \in [Chats -> SUBSET Orders],
         \A o \in Orders : row'[o] = seen'[o] \/ (row'[o] = 0 /\ phase'[o] = "expired"),
         \A o \in Orders : phase[o] = "expired" => phase'[o] = "expired",
         messages' \subseteq messages, \A m \in messages' : row'[m.order] # 0,
         \A m \in messages : m \in messages' \/ phase'[m.order] = "expired"
  PROVE  RelayHold'
<1>1. Inbox' = Inbox /\ History' = History
  BY DEF Inbox, History
<1>2. RelayTypeOK'
  BY <1>1 DEF RelayHold, RelayedToParticipant, RelayTypeOK
<1>3. SentToParticipants'
  BY <1>1 DEF RelayHold, RelayedToParticipant, SentToParticipants, BetweenParticipants
<1>4. NewestCourier'
  BY DEF NewestCourier
<1>5. OncePerRun' /\ RetentionComplete'
  BY DEF RelayHold, RelayedOnce, OncePerRun, RetentionComplete
<1>6. RelayedIsRecorded'
  BY DEF RelayHold, RelayedToParticipant, RelayTypeOK, RelayedOnce, RelayedIsRecorded
<1>7. PollerSound' /\ SentBefore'
  BY <1>1 DEF RelayHold, PollerSound, SentBefore
<1>8. RecordedFirst'
  BY DEF RelayHold, RecordedFirst, PollerSound, Relaying
<1>9. CheckedFirst'
  BY <1>1 DEF RelayHold, CheckedFirst, BetweenParticipants
<1> QED
  BY <1>2, <1>3, <1>4, <1>5, <1>6, <1>7, <1>8, <1>9 DEF RelayHold, RelayedToParticipant, RelayedOnce

\* Apply keeps the newest participants, Tick lets time pass.
LEMMA ApplyAndTickHold ==
  ASSUME RelayHold, UNCHANGED scene, NEW o \in Orders,
         Tick(o) \/ \E i \in 1..Len(History[o]) : Apply(o, i)
  PROVE  RelayHold'
<1>1. /\ RelayTypeOK /\ NewestCourier /\ RetentionComplete
      /\ \A x \in Orders : row[x] <= seen[x] /\ seen[x] <= Len(History[x])
      /\ \A m \in messages : m.order \in Orders
  BY DEF RelayHold, RelayedToParticipant, RelayedOnce, RelayTypeOK
<1>2. CASE Tick(o)
  <2>1. phase[o] # "expired" /\ phase' \in [Orders -> {"running", "grace", "closed", "expired"}]
        /\ \A x \in Orders : phase[x] = "expired" => phase'[x] = "expired"
    BY <1>2, Types DEF Tick, Later
  <2>2. UNCHANGED <<seen, row, links, selection, targets, messages, acked, poller, nextId, sent,
                    answers, faults, restarts>>
    BY <1>2 DEF Tick, store
  <2>3. \A x \in Orders : row'[x] = seen'[x] \/ (row'[x] = 0 /\ phase'[x] = "expired")
    BY <1>1, <2>1, <2>2 DEF NewestCourier
  <2>4. \A m \in messages' : row'[m.order] # 0
    BY <1>1, <2>2 DEF RetentionComplete
  <2> QED
    BY <1>1, <2>1, <2>2, <2>3, <2>4, Types, StoreHolds
<1>3. ASSUME NEW i \in 1..Len(History[o]), Apply(o, i) PROVE RelayHold'
  <2>1. i \in Nat \ {0} /\ i <= Len(History[o]) /\ phase[o] # "expired" /\ row[o] = seen[o]
    BY <1>1, <1>3, Types DEF Apply, NewestCourier
  <2>2. /\ row' = [row EXCEPT ![o] = IF row[o] < i THEN i ELSE row[o]]
        /\ seen' = [seen EXCEPT ![o] = IF i > seen[o] THEN i ELSE seen[o]]
        /\ UNCHANGED <<links, selection, targets, messages, acked, poller, nextId, sent,
                       answers, faults, restarts>>
    BY <1>3, Types DEF Apply, Saved
  <2>3. /\ row'[o] = seen'[o] /\ seen'[o] <= Len(History[o]) /\ row'[o] # 0
        /\ row' \in [Orders -> Nat] /\ seen' \in [Orders -> Nat]
        /\ \A x \in Orders : x # o => row'[x] = row[x] /\ seen'[x] = seen[x]
    BY <1>1, <2>1, <2>2, Types
  <2>4. /\ phase' \in [Orders -> {"running", "grace", "closed", "expired"}]
        /\ \A x \in Orders : phase[x] = "expired" => phase'[x] = "expired"
    BY <1>3, <2>1, Types DEF Apply
  <2>5. \A x \in Orders : row'[x] <= seen'[x] /\ seen'[x] <= Len(History[x])
    <3>1. seen'[o] <= seen'[o]
      BY <2>3
    <3> QED
      BY <1>1, <2>3, <3>1
  <2>6. \A x \in Orders : row'[x] = seen'[x] \/ (row'[x] = 0 /\ phase'[x] = "expired")
    BY <1>1, <2>3, <2>4 DEF NewestCourier
  <2>7. \A m \in messages' : row'[m.order] # 0
    BY <1>1, <2>2, <2>3 DEF RetentionComplete
  <2> QED
    BY <2>2, <2>3, <2>4, <2>5, <2>6, <2>7, Types, StoreHolds
<1> QED
  BY <1>2, <1>3

\* DeleteExpired deletes the messages of the orders whose participants it
\* deletes, and of no other.
LEMMA RetentionHolds ==
  ASSUME RelayHold, UNCHANGED scene, NEW old \in SUBSET Ineligible, DeleteExpired(old)
  PROVE  RelayHold'
<1> DEFINE gone == Expired
<1>1. /\ messages' = {m \in messages : m.order \notin gone /\ ~(m.order \in old /\ row[m.order] = 0)}
      /\ targets' = [ch \in Chats |-> targets[ch] \ (gone \cup old)]
      /\ selection' = [u \in Users |-> IF HasClosed(selection[u]) THEN Nobody ELSE selection[u]]
      /\ row' = [o \in Orders |-> IF o \in gone THEN 0 ELSE row[o]]
      /\ UNCHANGED <<seen, phase, links, acked, poller, nextId, sent, answers, faults, restarts>>
  BY DEF DeleteExpired, FoundFirst
<1>2. \A o \in gone : phase[o] = "expired"
  BY DEF Expired
<1>3. /\ NewestCourier /\ RetentionComplete /\ \A m \in messages : m.order \in Orders
      /\ \A o \in Orders : row[o] <= seen[o] /\ seen[o] <= Len(History[o])
  BY DEF RelayHold, RelayedToParticipant, RelayedOnce, RelayTypeOK
<1> HIDE DEF gone
<1>4. /\ row' \in [Orders -> Nat] /\ targets' \in [Chats -> SUBSET Orders]
      /\ selection' \in [Users -> Orders \cup {Nobody}]
  BY <1>1, Types
<1>5. \A o \in Orders : row'[o] <= seen'[o] /\ seen'[o] <= Len(History[o])
  BY <1>1, <1>3, Types
<1>6. \A o \in Orders : row'[o] = seen'[o] \/ (row'[o] = 0 /\ phase'[o] = "expired")
  BY <1>1, <1>2, <1>3 DEF NewestCourier
<1>7. /\ \A m \in messages' : row'[m.order] # 0
      /\ \A m \in messages : m \in messages' \/ phase'[m.order] = "expired"
  BY <1>1, <1>2, <1>3 DEF RetentionComplete
<1> QED
  BY <1>1, <1>4, <1>5, <1>6, <1>7, Types, StoreHolds

\* Relink and Unlink.
LEMMA LinksHold ==
  ASSUME RelayHold, UNCHANGED scene, NEW u \in Users,
         Unlink(u) \/ \E ch \in Chats : Relink(u, ch)
  PROVE  RelayHold'
<1>1. /\ NewestCourier /\ RetentionComplete /\ \A m \in messages : m.order \in Orders
      /\ \A o \in Orders : row[o] <= seen[o] /\ seen[o] <= Len(History[o])
  BY DEF RelayHold, RelayedToParticipant, RelayedOnce, RelayTypeOK
<1>2. UNCHANGED <<seen, phase, row, selection, targets, messages, acked, poller, nextId, sent,
                  answers, faults, restarts>>
  BY DEF Unlink, Relink
<1>3. links' \in [Users -> Chats \cup {Nobody}]
  BY Types DEF Unlink, Relink, Unlinked
<1>4. /\ \A o \in Orders : row'[o] = seen'[o] \/ (row'[o] = 0 /\ phase'[o] = "expired")
      /\ \A m \in messages' : row'[m.order] # 0
  BY <1>1, <1>2 DEF NewestCourier, RetentionComplete
<1> QED
  BY <1>1, <1>2, <1>3, <1>4, Types, StoreHolds

-----------------------------------------------------------------------------
(* Steps of the poller that neither record nor send *)

\* What they leave alone stays as it was.
LEMMA PollerMoves ==
  ASSUME RelayHold, UNCHANGED <<scene, seen, row, phase, messages, sent>>,
         links' \in [Users -> Chats \cup {Nobody}],
         selection' \in [Users -> Orders \cup {Nobody}], targets' \in [Chats -> SUBSET Orders],
         acked' \in 0..Len(Inbox), poller'.update \in acked'..Len(Inbox),
         nextId' \in Nat \ {0}, nextId <= nextId', restarts' \in 0..MaxRestarts, restarts <= restarts',
         PollerSound', RecordedFirst', CheckedFirst', SentBefore'
  PROVE  RelayHold'
<1>1. Inbox' = Inbox /\ History' = History
  BY DEF Inbox, History
<1>2. RelayTypeOK
  BY DEF RelayHold, RelayedToParticipant
<1>3. ASSUME NEW m \in messages PROVE m.id \in 1..(nextId' - 1) /\ m.order \in Orders
  BY <1>2, Types DEF RelayTypeOK
<1>4. ASSUME NEW d \in sent
      PROVE d.run \in 0..restarts' /\ d.msg.update \in 1..Len(Inbox) /\ d.msg.order \in Orders
  BY <1>2, Types, BoundsAssumption DEF RelayTypeOK
<1>5. RelayTypeOK'
  BY <1>1, <1>2, <1>3, <1>4 DEF RelayTypeOK
<1>6. SentToParticipants'
  BY <1>1 DEF RelayHold, RelayedToParticipant, SentToParticipants, BetweenParticipants
<1>7. NewestCourier'
  BY DEF RelayHold, RelayedToParticipant, NewestCourier
<1>8. RelayedOnce'
  BY DEF RelayHold, RelayedOnce, OncePerRun, RetentionComplete, RelayedIsRecorded
<1> QED
  BY <1>5, <1>6, <1>7, <1>8 DEF RelayHold, RelayedToParticipant

\* What the poller knows after a step to p that sends nothing.
Settles(p) ==
  /\ poller' = p /\ p.pc \in {"polling", "handling", "replying"}
  /\ p.pc # "polling" => p.update # 0 /\ p.last = Len(Inbox)
  /\ p.update \in poller.update..Len(Inbox)
  /\ p.pc = "handling" => p.update # poller.update
  /\ UNCHANGED <<scene, sent, restarts>>

\* Such a step leaves nothing to be recorded or checked.
LEMMA Settled ==
  ASSUME RelayHold, NEW p, Settles(p)
  PROVE  PollerSound' /\ RecordedFirst' /\ CheckedFirst' /\ SentBefore'
<1>1. Inbox' = Inbox
  BY DEF Settles, Inbox
<1>2. PollerSound'
  BY <1>1 DEF Settles, PollerSound, Relaying, Unsent
<1>3. RecordedFirst' /\ CheckedFirst'
  BY DEF Settles, RecordedFirst, CheckedFirst
<1>4. ASSUME NEW d \in sent, d.run = restarts
      PROVE d.msg.update <= p.update /\ (p.pc \in Unsent => d.msg.update # p.update)
  <2>1. d.msg.update \in Nat /\ d.msg.update <= poller.update
    BY <1>4, Types DEF RelayHold, SentBefore, RelayedToParticipant, RelayTypeOK
  <2>2. p.update \in Nat /\ poller.update <= p.update /\ poller.update \in Nat
    BY Types DEF Settles
  <2>3. d.msg.update <= p.update
    BY <2>1, <2>2
  <2>4. p.pc \in Unsent => d.msg.update # p.update
    <3>1. p.pc \in Unsent => p.update # poller.update
      BY DEF Settles, Unsent
    <3> QED
      BY <2>1, <2>2, <3>1
  <2> QED
    BY <2>3, <2>4
<1>5. SentBefore'
  BY <1>4 DEF Settles, SentBefore
<1> QED
  BY <1>2, <1>3, <1>5

\* Done and Reply are such steps.
LEMMA DoneSettles ==
  ASSUME RelayHold, poller.pc # "polling", poller' = Done(poller), UNCHANGED <<scene, sent, restarts>>
  PROVE  Settles(Done(poller))
<1>1. poller.update # 0 /\ poller.last = Len(Inbox)
  BY DEF RelayHold, PollerSound
<1>2. CASE poller.update = poller.last
  BY <1>1, <1>2, Types DEF Done, Poller, Settles
<1>3. CASE poller.update # poller.last
  <2>1. poller.update + 1 \in poller.update..Len(Inbox) /\ poller.update + 1 # poller.update
        /\ poller.update + 1 # 0
    BY <1>1, <1>3, Types
  <2> QED
    BY <1>1, <1>3, <2>1 DEF Done, Poller, Settles
<1> QED
  BY <1>2, <1>3

\* See DoneSettles.
LEMMA ReplySettles ==
  ASSUME RelayHold, poller.pc # "polling", NEW text, poller' = Reply(poller, text),
         UNCHANGED <<scene, sent, restarts>>
  PROVE  Settles(Reply(poller, text))
<1>1. poller.update # 0 /\ poller.last = Len(Inbox)
  BY DEF RelayHold, PollerSound
<1>2. poller.update \in poller.update..Len(Inbox)
  BY Types
<1> QED
  BY <1>1, <1>2 DEF Reply, Poller, Settles

\* A step that is done with the update, or answers it, keeps the invariant.
LEMMA SettledHolds ==
  ASSUME RelayHold, NEW p, Settles(p), UNCHANGED <<seen, row, phase, messages, acked, nextId>>,
         links' \in [Users -> Chats \cup {Nobody}],
         selection' \in [Users -> Orders \cup {Nobody}], targets' \in [Chats -> SUBSET Orders]
  PROVE  RelayHold'
<1>1. PollerSound' /\ RecordedFirst' /\ CheckedFirst' /\ SentBefore'
  BY Settled
<1>2. acked' \in 0..Len(Inbox) /\ poller'.update \in acked'..Len(Inbox)
  BY Types DEF Settles
<1>3. nextId' \in Nat \ {0} /\ nextId <= nextId' /\ restarts' \in 0..MaxRestarts /\ restarts <= restarts'
  BY Types DEF Settles, RelayHold, RelayedToParticipant, RelayTypeOK
<1> QED
  BY <1>1, <1>2, <1>3, PollerMoves DEF Settles

\* A step that leaves the poller where it was, to be retried.
LEMMA RetriedHolds ==
  ASSUME RelayHold, UNCHANGED <<scene, seen, row, phase, links, selection, targets, messages, acked,
                                poller, nextId, sent, restarts>>
  PROVE  RelayHold'
<1>1. Inbox' = Inbox /\ History' = History
  BY DEF Inbox, History
<1>2. PollerSound' /\ RecordedFirst' /\ CheckedFirst' /\ SentBefore'
  BY <1>1 DEF RelayHold, PollerSound, RecordedFirst, CheckedFirst, SentBefore, BetweenParticipants
<1>3. acked' \in 0..Len(Inbox) /\ poller'.update \in acked'..Len(Inbox)
  BY Types
<1>4. nextId' \in Nat \ {0} /\ nextId <= nextId' /\ restarts' \in 0..MaxRestarts /\ restarts <= restarts'
  BY Types DEF RelayHold, RelayedToParticipant, RelayTypeOK
<1> QED
  BY <1>2, <1>3, <1>4, Types, PollerMoves

\* The owner of a chat is a user or nobody.
LEMMA OwnerType ==
  ASSUME NEW ch
  PROVE  Owner(ch) \in Users \cup {Nobody}
BY DEF Owner

\* GetUpdates begins the next batch behind what is done.
LEMMA GetUpdatesHolds ==
  ASSUME RelayHold, UNCHANGED scene, GetUpdates
  PROVE  RelayHold'
<1>1. /\ acked' = poller.update /\ poller.pc = "polling"
      /\ UNCHANGED <<seen, phase, row, links, selection, targets, messages, nextId, sent, restarts>>
  BY DEF GetUpdates, store
<1>2. acked' \in 0..Len(Inbox)
  BY <1>1, Types
<1>3. nextId' \in Nat \ {0} /\ nextId <= nextId' /\ restarts' \in 0..MaxRestarts /\ restarts <= restarts'
  BY <1>1, Types DEF RelayHold, RelayedToParticipant, RelayTypeOK
<1>4. CASE acked' = Len(Inbox)
  <2>1. poller' = poller
    BY <1>4 DEF GetUpdates
  <2>2. Settles(poller)
    BY <1>1, <2>1, Types DEF Settles
  <2>3. PollerSound' /\ RecordedFirst' /\ CheckedFirst' /\ SentBefore'
    BY <2>2, Settled
  <2>4. poller'.update \in acked'..Len(Inbox)
    BY <1>1, <2>1, Types
  <2> QED
    BY <1>1, <1>2, <1>3, <2>3, <2>4, Types, PollerMoves
<1>5. CASE acked' # Len(Inbox)
  <2> DEFINE p == Poller("handling", poller.update + 1, NoMessage, Nobody, 0, Len(Inbox))
  <2>1. poller' = p
    BY <1>1, <1>5 DEF GetUpdates
  <2>2. /\ p.update = poller.update + 1 /\ p.pc = "handling" /\ p.last = Len(Inbox)
        /\ p.update \in poller.update..Len(Inbox) /\ p.update # poller.update /\ p.update # 0
    BY <1>1, <1>5, Types DEF Poller
  <2> HIDE DEF p
  <2>3. Settles(p)
    BY <1>1, <2>1, <2>2 DEF Settles
  <2>4. PollerSound' /\ RecordedFirst' /\ CheckedFirst' /\ SentBefore'
    BY <2>3, Settled
  <2>5. poller'.update \in acked'..Len(Inbox)
    BY <1>1, <2>1, <2>2
  <2> QED
    BY <1>1, <1>2, <1>3, <2>4, <2>5, Types, PollerMoves
<1> QED
  BY <1>4, <1>5

\* HandleMessage answers, or begins to relay a message of this update.
LEMMA HandleMessageHolds ==
  ASSUME RelayHold, UNCHANGED scene, HandleMessage
  PROVE  RelayHold'
<1> DEFINE ch == Current.chat
           u == Owner(ch)
           o == Route(u, ch, Current.order)
           m == Message(nextId, poller.update, o, u, Other(o, u))
           p == Poller("recording", poller.update, m, ch, poller.rev, poller.last)
<1>1. /\ poller.pc = "handling"
      /\ UNCHANGED <<seen, phase, row, links, selection, targets, messages, acked, sent, restarts>>
  BY DEF HandleMessage, store
<1>2. \/ (\E text : poller' = Reply(poller, text)) /\ nextId' = nextId
      \/ u # Nobody /\ o \in Orders /\ poller' = p /\ nextId' = nextId + 1
  BY DEF HandleMessage
<1> HIDE DEF u, o
<1>3. CASE (\E text : poller' = Reply(poller, text)) /\ nextId' = nextId
  <2>1. PICK text : poller' = Reply(poller, text)
    BY <1>3
  <2>2. Settles(Reply(poller, text))
    BY <1>1, <2>1, ReplySettles
  <2> QED
    BY <1>1, <1>3, <2>2, Types, SettledHolds
<1>4. CASE u # Nobody /\ o \in Orders /\ poller' = p /\ nextId' = nextId + 1
  <2>1. u \in Users
    BY <1>4, OwnerType DEF u
  <2>2. m.update = poller.update /\ m.id = nextId /\ m.order = o /\ m.from = u
    BY DEF Message
  <2> HIDE DEF m
  <2>3. p.pc = "recording" /\ p.update = poller.update /\ p.msg = m /\ p.last = poller.last
    BY DEF Poller
  <2> HIDE DEF p
  <2>4. Inbox' = Inbox
    BY DEF Inbox
  <2>5. poller.update # 0 /\ poller.last = Len(Inbox) /\ nextId \in 1..nextId
    BY <1>1, Types DEF RelayHold, PollerSound
  <2>6. PollerSound'
    BY <1>4, <2>1, <2>2, <2>3, <2>4, <2>5, Types DEF PollerSound, Relaying, Unsent
  <2>7. RecordedFirst' /\ CheckedFirst'
    BY <1>4, <2>3 DEF RecordedFirst, CheckedFirst
  <2>8. SentBefore'
    BY <1>1, <1>4, <2>3 DEF RelayHold, SentBefore, Unsent
  <2>9. acked' \in 0..Len(Inbox) /\ poller'.update \in acked'..Len(Inbox)
    BY <1>1, <1>4, <2>3, Types
  <2>10. nextId' \in Nat \ {0} /\ nextId <= nextId' /\ restarts' \in 0..MaxRestarts /\ restarts <= restarts'
    BY <1>1, <1>4, Types DEF RelayHold, RelayedToParticipant, RelayTypeOK
  <2> QED
    BY <1>1, <2>6, <2>7, <2>8, <2>9, <2>10, Types, PollerMoves
<1> QED
  BY <1>2, <1>3, <1>4

\* The steps that end an update or answer it, and those that are retried.
LEMMA AnswersHold ==
  ASSUME RelayHold, UNCHANGED scene,
         \/ HandleFails \/ ShowChats \/ HandleCallback \/ ChatGone \/ UnlinkFails \/ SaveReplyTarget
         \/ SendReply \/ ReplyFails \/ TargetFails \/ SelectFails
  PROVE  RelayHold'
<1>1. /\ poller.pc # "polling"
      /\ UNCHANGED <<seen, row, phase, messages, acked, nextId, sent, restarts>>
  BY DEF HandleFails, ShowChats, HandleCallback, ChatGone, UnlinkFails, SaveReplyTarget, SendReply,
         ReplyFails, TargetFails, SelectFails, store
<1>2. /\ links' \in [Users -> Chats \cup {Nobody}]
      /\ selection' \in [Users -> Orders \cup {Nobody}]
      /\ targets' \in [Chats -> SUBSET Orders]
  <2>1. CASE HandleFails \/ ShowChats \/ SendReply \/ ReplyFails \/ TargetFails \/ SelectFails
    BY <2>1, Types DEF HandleFails, ShowChats, SendReply, ReplyFails, TargetFails, SelectFails, store
  <2>2. CASE HandleCallback
    BY <2>2, Types DEF HandleCallback, Select, MayChat
  <2>3. CASE ChatGone \/ UnlinkFails
    BY <2>3, Types DEF ChatGone, UnlinkFails, Unlinked
  <2>4. CASE SaveReplyTarget
    <3>1. poller.msg.order \in Orders
      BY <2>4 DEF SaveReplyTarget, RelayHold, PollerSound, Relaying
    <3> QED
      BY <2>4, <3>1, Types DEF SaveReplyTarget
  <2> QED
    BY <2>1, <2>2, <2>3, <2>4
<1>3. CASE poller' = poller
  <2>1. UNCHANGED <<links, selection, targets>> \/ ~(poller' = poller)
    <3>1. HandleFails \/ SaveReplyTarget \/ SendReply => poller' = Done(poller)
      BY DEF HandleFails, SaveReplyTarget, SendReply
    <3>2. SaveReplyTarget => poller' # poller
      BY DEF SaveReplyTarget, Done, Poller
    <3>3. HandleCallback => poller' # poller
      BY DEF HandleCallback, Reply, Poller
    <3>4. ChatGone \/ UnlinkFails => poller' # poller
      BY DEF ChatGone, UnlinkFails, Reply, Done, Poller
    <3> QED
      BY <3>2, <3>3, <3>4 DEF HandleFails, ShowChats, SendReply, ReplyFails, TargetFails, SelectFails,
         store
  <2> QED
    BY <1>1, <1>3, <2>1, RetriedHolds
<1>4. CASE poller' # poller
  <2>1. poller' = Done(poller) \/ \E text : poller' = Reply(poller, text)
    BY <1>4 DEF HandleFails, ShowChats, HandleCallback, ChatGone, UnlinkFails, SaveReplyTarget, SendReply,
       ReplyFails, TargetFails, TargetRetried, SelectFails
  <2>2. CASE poller' = Done(poller)
    <3>1. Settles(Done(poller))
      BY <1>1, <2>2, DoneSettles
    <3> QED
      BY <1>1, <1>2, <3>1, SettledHolds
  <2>3. CASE \E text : poller' = Reply(poller, text)
    <3>1. PICK text : poller' = Reply(poller, text)
      BY <2>3
    <3>2. Settles(Reply(poller, text))
      BY <1>1, <3>1, ReplySettles
    <3> QED
      BY <1>1, <1>2, <3>2, SettledHolds
  <2> QED
    BY <2>1, <2>2, <2>3
<1> QED
  BY <1>3, <1>4

\* CheckAndSelect reads the participants and links again.
LEMMA CheckHolds ==
  ASSUME RelayHold, UNCHANGED scene, CheckAndSelect
  PROVE  RelayHold'
<1> DEFINE m == poller.msg
           p == Poller("checked", poller.update, m, links[m.to], row[m.order], poller.last)
<1>1. /\ poller.pc = "selecting"
      /\ UNCHANGED <<seen, phase, row, links, targets, messages, acked, nextId, sent, restarts>>
  BY DEF CheckAndSelect
<1>2. /\ poller.update # 0 /\ poller.last = Len(Inbox) /\ m.update = poller.update
      /\ m.order \in Orders /\ m.from \in Users /\ m.id \in 1..(nextId - 1)
  BY <1>1 DEF RelayHold, PollerSound, Relaying
<1>3. \/ (\E text : poller' = Reply(poller, text)) /\ selection' = selection
      \/ StillBetween(m) /\ poller' = p /\ selection' = [selection EXCEPT ![m.from] = m.order]
  BY DEF CheckAndSelect, Select
<1> HIDE DEF m
<1>4. CASE (\E text : poller' = Reply(poller, text)) /\ selection' = selection
  <2>1. PICK text : poller' = Reply(poller, text)
    BY <1>4
  <2>2. Settles(Reply(poller, text))
    BY <1>1, <2>1, ReplySettles
  <2> QED
    BY <1>1, <1>4, <2>2, Types, SettledHolds
<1>5. CASE StillBetween(m) /\ poller' = p /\ selection' = [selection EXCEPT ![m.from] = m.order]
  <2>1. /\ p.pc = "checked" /\ p.update = poller.update /\ p.msg = m /\ p.rev = row[m.order]
        /\ p.last = poller.last
    BY DEF Poller
  <2> HIDE DEF p
  <2>2. BetweenParticipants(m, row[m.order])
    BY <1>5 DEF StillBetween, MayChat, IsOpen, Other, Stored, BetweenParticipants
  <2>3. Inbox' = Inbox /\ History' = History
    BY DEF Inbox, History
  <2>4. PollerSound'
    BY <1>1, <1>2, <1>5, <2>1, <2>3 DEF PollerSound, Relaying, Unsent
  <2>5. CheckedFirst'
    BY <1>5, <2>1, <2>2, <2>3 DEF CheckedFirst, BetweenParticipants
  <2>6. RecordedFirst'
    BY <1>1, <1>5, <2>1 DEF RelayHold, RecordedFirst, m
  <2>7. SentBefore'
    BY <1>1, <1>5, <2>1 DEF RelayHold, SentBefore, Unsent
  <2>8. selection' \in [Users -> Orders \cup {Nobody}]
    BY <1>2, <1>5, Types
  <2>9. acked' \in 0..Len(Inbox) /\ poller'.update \in acked'..Len(Inbox)
    BY <1>1, <1>5, <2>1, Types
  <2>10. nextId' \in Nat \ {0} /\ nextId <= nextId' /\ restarts' \in 0..MaxRestarts /\ restarts <= restarts'
    BY <1>1, Types DEF RelayHold, RelayedToParticipant, RelayTypeOK
  <2> QED
    BY <1>1, <2>4, <2>5, <2>6, <2>7, <2>8, <2>9, <2>10, Types, PollerMoves
<1> QED
  BY <1>3, <1>4, <1>5

\* Restart forgets the update under way; what the new run sends is its own.
LEMMA RestartHolds ==
  ASSUME RelayHold, UNCHANGED scene, Restart
  PROVE  RelayHold'
<1>1. /\ restarts < MaxRestarts /\ restarts' = restarts + 1
      /\ poller' = Poller("polling", acked, NoMessage, Nobody, 0, 0)
      /\ UNCHANGED <<seen, phase, row, links, selection, targets, messages, acked, nextId, sent>>
  BY DEF Restart, store
<1>2. poller'.pc = "polling" /\ poller'.update = acked
  BY <1>1 DEF Poller
<1>3. PollerSound' /\ RecordedFirst' /\ CheckedFirst'
  BY <1>2 DEF PollerSound, RecordedFirst, CheckedFirst, Relaying, Unsent
<1>4. \A d \in sent : d.run # restarts'
  BY <1>1, Types DEF RelayHold, RelayedToParticipant, RelayTypeOK
<1>5. SentBefore'
  BY <1>1, <1>4 DEF SentBefore
<1>6. acked' \in 0..Len(Inbox) /\ poller'.update \in acked'..Len(Inbox)
  BY <1>1, <1>2, Types
<1>7. nextId' \in Nat \ {0} /\ nextId <= nextId' /\ restarts' \in 0..MaxRestarts /\ restarts <= restarts'
  BY <1>1, Types, BoundsAssumption
<1> QED
  BY <1>1, <1>3, <1>5, <1>6, <1>7, Types, PollerMoves

-----------------------------------------------------------------------------
(* The record and the send *)

\* A message is saved only while its chat is open, so that its retention will
\* find it.
LEMMA SavedHolds ==
  ASSUME RelayHold, UNCHANGED <<scene, seen, row, phase, links, selection, targets, acked, nextId, sent, restarts>>,
         poller.pc = "recording", StillBetween(poller.msg), messages' \in {messages, SaveMessage(poller.msg)},
         poller' = poller \/ (poller' = Moved("selecting") /\ messages' = SaveMessage(poller.msg))
  PROVE  RelayHold'
<1> DEFINE m == poller.msg
<1>1. /\ poller.update # 0 /\ poller.last = Len(Inbox) /\ m.update = poller.update
      /\ m.order \in Orders /\ m.from \in Users /\ m.id \in 1..(nextId - 1)
  BY DEF RelayHold, PollerSound, Relaying
<1>2. row[m.order] # 0
  BY DEF StillBetween, MayChat, IsOpen
<1>3. messages \subseteq messages' /\ messages' \subseteq messages \cup {m}
  BY DEF SaveMessage
<1>4. Inbox' = Inbox /\ History' = History
  BY DEF Inbox, History
<1>5. /\ poller'.pc \in {"recording", "selecting"} /\ poller'.update = poller.update
      /\ poller'.msg = m /\ poller'.last = poller.last
      /\ poller'.pc = "selecting" => m \in messages'
  BY DEF Moved, Poller, SaveMessage
<1> HIDE DEF m
<1>6. RelayTypeOK'
  <2>1. \A x \in messages' : x.id \in 1..(nextId - 1) /\ x.order \in Orders
    BY <1>1, <1>3 DEF RelayHold, RelayedToParticipant, RelayTypeOK
  <2> QED
    BY <1>4, <1>5, <2>1 DEF RelayHold, RelayedToParticipant, RelayTypeOK
<1>7. SentToParticipants' /\ NewestCourier'
  BY <1>4 DEF RelayHold, RelayedToParticipant, SentToParticipants, BetweenParticipants, NewestCourier
<1>8. RelayedOnce'
  BY <1>2, <1>3 DEF RelayHold, RelayedOnce, OncePerRun, RelayedIsRecorded, RetentionComplete
<1>9. PollerSound'
  BY <1>1, <1>4, <1>5 DEF PollerSound, Relaying, Unsent
<1>10. RecordedFirst' /\ CheckedFirst' /\ SentBefore'
  BY <1>5 DEF RelayHold, RecordedFirst, CheckedFirst, SentBefore, Unsent
<1> QED
  BY <1>6, <1>7, <1>8, <1>9, <1>10 DEF RelayHold, RelayedToParticipant

\* RecordMessage and RecordFails.
LEMMA RecordHolds ==
  ASSUME RelayHold, UNCHANGED scene, RecordMessage \/ RecordFails
  PROVE  RelayHold'
<1>1. /\ poller.pc = "recording"
      /\ UNCHANGED <<seen, phase, row, links, selection, targets, acked, nextId, sent, restarts>>
  BY DEF RecordMessage, RecordFails
<1>2. CASE StillBetween(poller.msg)
  BY <1>1, <1>2, SavedHolds DEF RecordMessage, RecordFails
<1>3. CASE ~StillBetween(poller.msg)
  <2>1. poller' = Reply(poller, "closed") /\ messages' = messages
    BY <1>3 DEF RecordMessage, RecordFails
  <2>2. Settles(Reply(poller, "closed"))
    BY <1>1, <2>1, ReplySettles
  <2> QED
    BY <1>1, <2>1, <2>2, Types, SettledHolds
<1> QED
  BY <1>2, <1>3

\* Send and SendFails: the message was not sent before in this run, and is not
\* tried again after.
LEMMA SendHolds ==
  ASSUME RelayHold, UNCHANGED scene, Send \/ SendFails
  PROVE  RelayHold'
<1> DEFINE m == poller.msg
<1>1. /\ poller.pc = "checked" /\ sent' \in {sent, sent \cup {Delivery}}
      /\ UNCHANGED <<seen, phase, row, links, selection, targets, messages, acked, nextId, restarts>>
  BY DEF Send, SendFails, store
<1>2. /\ poller.update # 0 /\ poller.last = Len(Inbox) /\ m.update = poller.update
      /\ m.order \in Orders /\ m.from \in Users /\ m.id \in 1..(nextId - 1)
  BY <1>1 DEF RelayHold, PollerSound, Relaying
<1>3. /\ m \in messages \/ phase[m.order] = "expired"
      /\ BetweenParticipants(m, poller.rev)
  BY <1>1 DEF RelayHold, RecordedFirst, CheckedFirst
<1>4. \A d \in sent : d.run = restarts => d.msg.update # poller.update /\ d.msg.update <= poller.update
  BY <1>1 DEF RelayHold, SentBefore, Unsent
<1>5. Delivery.msg = m /\ Delivery.rev = poller.rev /\ Delivery.run = restarts
  BY DEF Delivery
<1>6. /\ poller'.pc \in {"sent", "replying"} /\ poller'.update = poller.update
      /\ poller'.last = poller.last
      /\ poller'.pc = "sent" => poller'.msg = m /\ poller'.rev = poller.rev
  BY DEF Send, SendFails, Moved, Reply, Poller
<1>7. Inbox' = Inbox /\ History' = History
  BY DEF Inbox, History
<1> HIDE DEF m
<1>8. \A d \in sent' : d \in sent \/ d = Delivery
  BY <1>1
<1>9. RelayTypeOK'
  <2>1. restarts \in 0..restarts /\ poller.update \in 1..Len(Inbox)
    BY <1>2, Types
  <2>2. \A d \in sent' : d.run \in 0..restarts /\ d.msg.update \in 1..Len(Inbox) /\ d.msg.order \in Orders
    BY <1>2, <1>5, <1>8, <2>1 DEF RelayHold, RelayedToParticipant, RelayTypeOK
  <2> QED
    BY <1>1, <1>6, <1>7, <2>2 DEF RelayHold, RelayedToParticipant, RelayTypeOK
<1>10. SentToParticipants'
  <2>1. \A d \in sent' : BetweenParticipants(d.msg, d.rev)
    BY <1>3, <1>5, <1>8 DEF RelayHold, RelayedToParticipant, SentToParticipants
  <2> QED
    BY <1>7, <2>1 DEF SentToParticipants, BetweenParticipants
<1>11. NewestCourier' /\ RetentionComplete'
  BY <1>1 DEF RelayHold, RelayedToParticipant, RelayedOnce, NewestCourier, RetentionComplete
<1>12. RelayedIsRecorded'
  BY <1>1, <1>3, <1>5, <1>8 DEF RelayHold, RelayedOnce, RelayedIsRecorded
<1>13. OncePerRun'
  <2>1. ASSUME NEW d \in sent', NEW e \in sent', d.msg.update = e.msg.update, d.run = e.run
        PROVE d = e
    <3>1. CASE d \in sent /\ e \in sent
      BY <2>1, <3>1 DEF RelayHold, RelayedOnce, OncePerRun
    <3>2. CASE d = Delivery \/ e = Delivery
      BY <1>2, <1>4, <1>5, <1>8, <2>1, <3>2
    <3> QED
      BY <1>8, <3>1, <3>2
  <2> QED
    BY <2>1 DEF OncePerRun
<1>14. PollerSound' /\ RecordedFirst' /\ CheckedFirst'
  <2>1. PollerSound'
    BY <1>1, <1>2, <1>6, <1>7 DEF PollerSound, Relaying, Unsent
  <2>2. RecordedFirst'
    BY <1>1, <1>3, <1>6 DEF RecordedFirst
  <2>3. CheckedFirst'
    BY <1>3, <1>6, <1>7 DEF CheckedFirst, BetweenParticipants
  <2> QED
    BY <2>1, <2>2, <2>3
<1>15. SentBefore'
  <2>1. poller.update <= poller.update
    BY Types
  <2> QED
    BY <1>1, <1>2, <1>4, <1>5, <1>6, <1>8, <2>1 DEF SentBefore, Unsent
<1> QED
  BY <1>9, <1>10, <1>11, <1>12, <1>13, <1>14, <1>15 DEF RelayHold, RelayedToParticipant, RelayedOnce

-----------------------------------------------------------------------------
(* The specification *)

\* Every step of the consumers, the links, the retention job, the poller and
\* the operator who restarts the process keeps the invariant.
LEMMA StepHolds ==
  ASSUME RelayHold, [RelayNext]_vars
  PROVE  RelayHold'
<1>1. CASE UNCHANGED vars
  BY <1>1, RetriedHolds DEF vars, store
<1>2. CASE RelayNext
  <2>1. UNCHANGED scene
    BY <1>2 DEF RelayNext
  <2>2. ASSUME NEW o \in Orders, Tick(o) \/ \E i \in 1..Len(History[o]) : Apply(o, i)
        PROVE  RelayHold'
    BY <2>1, <2>2, ApplyAndTickHold
  <2>3. ASSUME NEW u \in Users, Unlink(u) \/ \E ch \in Chats : Relink(u, ch)
        PROVE  RelayHold'
    BY <2>1, <2>3, LinksHold
  <2>4. CASE \E old \in SUBSET Ineligible : DeleteExpired(old)
    BY <2>1, <2>4, RetentionHolds
  <2>5. CASE PollerStep
    BY <2>1, <2>5, GetUpdatesHolds, HandleMessageHolds, AnswersHold, CheckHolds, RecordHolds, SendHolds
    DEF PollerStep
  <2>6. CASE PollerFails
    BY <2>1, <2>6, AnswersHold, RecordHolds, SendHolds DEF PollerFails
  <2>7. CASE Restart
    BY <2>1, <2>7, RestartHolds
  <2> QED
    BY <1>2, <2>2, <2>3, <2>4, <2>5, <2>6, <2>7 DEF RelayNext
<1> QED
  BY <1>1, <1>2

\* What the poller knows at each of its steps, in every reachable state.
THEOREM RelayIsInvariant == RelaySpec => []RelayHold
<1>1. RelayInit => RelayHold
  BY InitHolds
<1>2. RelayHold /\ [RelayNext]_vars => RelayHold'
  BY StepHolds
<1> QED
  BY <1>1, <1>2, PTL DEF RelaySpec

\* A relayed message went to the other participant of the order, as the
\* attempt that sent it had read the copy, and the copy is never older than
\* what was consumed: for any orders, chats, updates, faults and restarts.
THEOREM MessagesReachParticipants == RelaySpec => []RelayedToParticipant
<1>1. RelayHold => RelayedToParticipant
  BY DEF RelayHold
<1> QED
  BY <1>1, RelayIsInvariant, PTL

\* A run of the process relays an update at most once, never without the
\* dispute record, and no record outlives the retention of its order.
THEOREM UpdatesAreRelayedOnce == RelaySpec => []RelayedOnce
<1>1. RelayHold => RelayedOnce
  BY DEF RelayHold
<1> QED
  BY <1>1, RelayIsInvariant, PTL
=============================================================================
