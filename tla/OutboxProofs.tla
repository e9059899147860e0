---------------------------- MODULE OutboxProofs ----------------------------
(***************************************************************************)
(* Proofs about Outbox, for any number of orders, facts, relays and        *)
(* faults. That a fact reaches its topic only after the earlier ones is    *)
(* not inductive by itself: it depends on what a relay knew when it        *)
(* claimed the fact and on messages that may yet arrive. OutboxHold says   *)
(* of both that every earlier fact of the order is published, which stays  *)
(* true, since a published row is never claimed again.                     *)
(***************************************************************************)
EXTENDS Outbox, FiniteSetTheorems, TLAPS

-----------------------------------------------------------------------------
(* The inductive invariant *)

\* What a relay knows of the fact it works on, and which facts its batch has
\* put off.
BatchKept(b) ==
  /\ b.pc \in {"claimed", "acknowledged", "failed"} => b.fact \in Recorded /\ FirstOfOrder(b.fact)
  /\ b.pc = "acknowledged" => b.fact \in Logged
  /\ b.tried \subseteq b.late
  /\ b.pc = "asleep" => b.tried = {}

BatchesKept == \A r \in Relays : BatchKept(relay[r])
WireKept == \A f \in wire : FirstOfOrder(f)
OutcomesLogged == \A i \in 1..Len(log["outcome"]) : log["outcome"][i][2] = LastFact
HandledIsSettled ==
  consumer.pc = "handled" =>
    /\ consumer.committed < Len(log["outcome"])
    /\ settled[log["outcome"][consumer.committed + 1][1]] = 1

OutboxHold ==
  /\ CommittedIsSettled
  /\ BatchesKept /\ WireKept /\ OutcomesLogged /\ HandledIsSettled

\* The types of the state, as the steps below need them.
LEMMA Types ==
  ASSUME OutboxHold
  PROVE /\ outbox \in [Orders -> Seq(RowType)] /\ relay \in [Relays -> BatchType]
        /\ log \in [Topics -> Seq(Facts)] /\ created \in Seq(Facts)
        /\ consumer \in [pc : {"stopped", "reading", "handled"}, committed : 0..Len(log["outcome"])]
        /\ settled \in [Orders -> Nat] /\ faults \in 0..MaxFaults
        /\ LastFact \in Nat \ {0}
        /\ Recorded \subseteq Facts /\ wire \subseteq Recorded /\ Logged \subseteq Recorded
  BY OutboxAssumption DEF OutboxHold, CommittedIsSettled, OutboxTypeOK, LastFact, Recorded

\* A fact is a pair of an order and a number.
LEMMA FactParts ==
  ASSUME OutboxHold, NEW f \in Recorded
  PROVE /\ f[1] \in Orders /\ f[2] \in 1..Len(outbox[f[1]]) /\ f = <<f[1], f[2]>>
        /\ f[2] \in 1..LastFact /\ RowOf(f) \in RowType
        /\ \A n \in 1..(f[2] - 1) : <<f[1], n>> \in Recorded
<1>1. f \in Facts /\ f[2] <= Len(outbox[f[1]])
  BY DEF Recorded
<1>2. f[1] \in Orders /\ f[2] \in 1..LastFact /\ f = <<f[1], f[2]>>
  BY <1>1 DEF Facts
<1>3. outbox[f[1]] \in Seq(RowType) /\ Len(outbox[f[1]]) \in Nat /\ LastFact \in Nat
  BY <1>2, Types
<1>4. f[2] \in 1..Len(outbox[f[1]])
  BY <1>1, <1>2, <1>3
<1>5. RowOf(f) \in RowType
  BY <1>3, <1>4 DEF RowOf
<1>6. ASSUME NEW n \in 1..(f[2] - 1) PROVE <<f[1], n>> \in Recorded
  BY <1>2, <1>3, <1>4 DEF Recorded, Facts
<1> QED
  BY <1>2, <1>4, <1>5, <1>6

\* What is in the topics.
LEMMA LoggedIs ==
  ASSUME log \in [Topics -> Seq(Facts)], NEW f
  PROVE f \in Logged <=> \E t \in Topics : \E i \in 1..Len(log[t]) : log[t][i] = f
  BY DEF Logged, Range

\* In the beginning nothing is recorded.
LEMMA OutboxBegins == OutboxInit => OutboxHold
<1> SUFFICES ASSUME OutboxInit PROVE OutboxHold
  OBVIOUS
<1>1. Recorded = {}
  BY DEF OutboxInit, Recorded, Facts
<1>2. Logged = {} /\ Range(created) = {}
  BY DEF OutboxInit, Logged, Range, Topics
<1>3. Asleep \in BatchType /\ Asleep.late = {} /\ Asleep.tried = {} /\ Asleep.pc = "asleep"
  BY OutboxAssumption DEF Asleep, Batch, BatchType
<1>4. OutboxTypeOK
  BY <1>1, <1>2, <1>3, OutboxAssumption DEF OutboxInit, OutboxTypeOK, LastFact, Subscription, Topics
<1>5. CommittedIsSettled
  BY <1>1, <1>2, <1>4 DEF OutboxInit, CommittedIsSettled, AppliedOnce, PublishedIsLogged, FirstSeenInOrder,
                          Subscription
<1>6. BatchesKept
  BY <1>3 DEF OutboxInit, BatchesKept, BatchKept
<1> QED
  BY <1>5, <1>6 DEF OutboxInit, OutboxHold, WireKept, OutcomesLogged, HandledIsSettled, Subscription, Topics

-----------------------------------------------------------------------------
(* What only grows *)

\* Facts stay recorded, published and logged.
Grows ==
  /\ Recorded \subseteq Recorded' /\ Logged \subseteq Logged'
  /\ \A f \in Recorded : Published(f) => Published(f)'

\* So an order's earlier facts stay published,
LEMMA FirstStays ==
  ASSUME OutboxHold, Grows, NEW f \in Recorded, FirstOfOrder(f)
  PROVE FirstOfOrder(f)'
  BY FactParts DEF FirstOfOrder, Grows

\* and a relay still knows what it knew.
LEMMA BatchStays ==
  ASSUME OutboxHold, Grows, NEW b, BatchKept(b)
  PROVE BatchKept(b)'
  BY FirstStays DEF BatchKept, Grows

\* The messages under way stay behind earlier facts.
LEMMA WireStays ==
  ASSUME OutboxHold, Grows, wire' \subseteq wire PROVE WireKept'
  BY FirstStays, Types DEF OutboxHold, WireKept

-----------------------------------------------------------------------------
(* Steps of a relay *)

\* A step that leaves the rows, the topics and the consumer alone.
LEMMA RelaysMove ==
  ASSUME OutboxHold, UNCHANGED <<outbox, created, log, consumer, settled>>,
         relay' \in [Relays -> BatchType], \A r \in Relays : relay'[r].late \subseteq Recorded,
         \A r \in Relays : BatchKept(relay'[r]),
         wire' \subseteq Recorded, \A f \in wire' : FirstOfOrder(f),
         faults' \in 0..MaxFaults
  PROVE OutboxHold'
<1>1. Recorded' = Recorded /\ Logged' = Logged
  BY DEF Recorded, Logged
<1>2. \A f : Published(f)' <=> Published(f)
  BY DEF Published, RowOf
<1>3. \A f : FirstOfOrder(f)' <=> FirstOfOrder(f)
  BY <1>2 DEF FirstOfOrder
<1>4. Grows
  BY <1>1, <1>2 DEF Grows
<1>5. OutboxTypeOK'
  BY <1>1 DEF OutboxHold, CommittedIsSettled, OutboxTypeOK
<1>6. AppliedOnce' /\ PublishedIsLogged' /\ FirstSeenInOrder'
  BY <1>1, <1>2, <1>3 DEF OutboxHold, CommittedIsSettled, AppliedOnce, PublishedIsLogged, FirstSeenInOrder
<1>7. BatchesKept'
  <2> SUFFICES ASSUME NEW r \in Relays PROVE BatchKept(relay[r])'
    BY DEF BatchesKept
  <2>1. PICK b : b = relay'[r]
    OBVIOUS
  <2> QED
    BY <1>4, <2>1, BatchStays
<1>8. WireKept'
  BY <1>3 DEF WireKept
<1>9. OutcomesLogged' /\ HandledIsSettled'
  BY DEF OutboxHold, OutcomesLogged, HandledIsSettled
<1> QED
  BY <1>5, <1>6, <1>7, <1>8, <1>9 DEF OutboxHold, CommittedIsSettled

\* One relay goes on with b, and nothing else changes but the faults.
LEMMA OneRelayMoves ==
  ASSUME OutboxHold, UNCHANGED <<outbox, created, log, consumer, settled, wire>>,
         NEW r \in Relays, NEW b \in BatchType, relay' = [relay EXCEPT ![r] = b],
         b.late \subseteq Recorded, BatchKept(b), faults' \in 0..MaxFaults
  PROVE OutboxHold'
<1>1. relay \in [Relays -> BatchType] /\ wire \subseteq Recorded
  BY Types
<1>2. relay' \in [Relays -> BatchType]
  BY <1>1
<1>3. \A q \in Relays : relay'[q] = b \/ relay'[q] = relay[q]
  BY <1>1
<1>4. \A q \in Relays : relay'[q].late \subseteq Recorded /\ BatchKept(relay'[q])
  BY <1>3 DEF OutboxHold, CommittedIsSettled, OutboxTypeOK, BatchesKept
<1>5. wire' \subseteq Recorded /\ \A f \in wire' : FirstOfOrder(f)
  BY <1>1 DEF OutboxHold, WireKept
<1> QED
  BY <1>2, <1>4, <1>5, RelaysMove

\* A sleeping relay knows nothing.
LEMMA AsleepKept == Asleep \in BatchType /\ Asleep.late = {} /\ BatchKept(Asleep)
  BY OutboxAssumption DEF Asleep, Batch, BatchType, BatchKept

\* A batch begins with nothing claimed and what is leased put off.
LEMMA BeginDrainStep ==
  ASSUME OutboxHold, NEW r \in Relays, BeginDrain(r) PROVE OutboxHold'
<1> DEFINE b == Batch("claiming", NoFact, {f \in Recorded : RowOf(f).lease = "live"}, BatchLimit, {})
<1>1. b \in BatchType /\ b.late \subseteq Recorded /\ b.pc = "claiming" /\ b.tried = {}
  BY OutboxAssumption, Types DEF Batch, BatchType
<1>2. relay' = [relay EXCEPT ![r] = b] /\ UNCHANGED <<outbox, created, wire, log, consumer, settled, faults>>
  BY DEF BeginDrain
<1> HIDE DEF b
<1>3. BatchKept(b)
  BY <1>1 DEF BatchKept
<1> QED
  BY <1>1, <1>2, <1>3, OneRelayMoves, Types

\* A batch ends, or its process stops.
LEMMA SleepStep ==
  ASSUME OutboxHold, NEW r \in Relays, EndDrain(r) \/ CrashRelay(r) PROVE OutboxHold'
<1>1. /\ relay' = [relay EXCEPT ![r] = Asleep]
      /\ UNCHANGED <<outbox, created, wire, log, consumer, settled>> /\ faults' \in 0..MaxFaults
  BY Types, OutboxAssumption DEF EndDrain, CrashRelay, Fault
<1> QED
  BY <1>1, AsleepKept, OneRelayMoves

\* Goto keeps what the relay knows, unless the fact is to be acknowledged.
LEMMA GotoKeeps ==
  ASSUME OutboxHold, NEW r \in Relays, NEW pc \in {"claiming", "failed", "acknowledged"},
         relay[r].pc \in {"claimed", "acknowledged", "failed"}, Goto(r, pc),
         pc = "acknowledged" => relay[r].fact \in Logged
  PROVE \E b \in BatchType :
          /\ relay' = [relay EXCEPT ![r] = b] /\ BatchKept(b)
          /\ b.late \subseteq Recorded /\ b.fact = relay[r].fact /\ b.pc = pc
<1> DEFINE b == [relay[r] EXCEPT !.pc = pc]
<1>1. relay[r] \in BatchType /\ BatchKept(relay[r]) /\ relay[r].late \subseteq Recorded
  BY Types DEF OutboxHold, CommittedIsSettled, OutboxTypeOK, BatchesKept
<1>2. b \in BatchType /\ b.pc = pc /\ b.fact = relay[r].fact /\ b.late = relay[r].late
      /\ b.tried = relay[r].tried
  BY <1>1 DEF BatchType
<1>3. relay' = [relay EXCEPT ![r] = b]
  BY DEF Goto
<1> HIDE DEF b
<1>4. BatchKept(b)
  BY <1>1, <1>2 DEF BatchKept
<1> QED
  BY <1>1, <1>2, <1>3, <1>4

\* A fact that can not be encoded is put off.
LEMMA EncodeFailsStep ==
  ASSUME OutboxHold, NEW r \in Relays, EncodeFails(r) PROVE OutboxHold'
<1>1. /\ relay[r].pc = "claimed" /\ Goto(r, "failed")
      /\ UNCHANGED <<outbox, created, wire, log, consumer, settled, faults>>
  BY DEF EncodeFails
<1>2. PICK b \in BatchType : relay' = [relay EXCEPT ![r] = b] /\ BatchKept(b) /\ b.late \subseteq Recorded
  BY <1>1, GotoKeeps
<1> QED
  BY <1>1, <1>2, OneRelayMoves, Types

\* What was sent may arrive later; its earlier facts are published.
LEMMA PublishFailsStep ==
  ASSUME OutboxHold, NEW r \in Relays, PublishFails(r) PROVE OutboxHold'
<1>1. /\ relay[r].pc = "claimed" /\ Goto(r, "failed") /\ wire' \in {wire, wire \cup {relay[r].fact}}
      /\ UNCHANGED <<outbox, created, log, consumer, settled>> /\ faults' \in 0..MaxFaults
  BY Types, OutboxAssumption DEF PublishFails, Sending, Fault
<1>2. PICK b \in BatchType : relay' = [relay EXCEPT ![r] = b] /\ BatchKept(b) /\ b.late \subseteq Recorded
  BY <1>1, GotoKeeps
<1>3. relay[r].fact \in Recorded /\ FirstOfOrder(relay[r].fact)
  BY <1>1 DEF OutboxHold, BatchesKept, BatchKept
<1>4. wire' \subseteq Recorded /\ \A f \in wire' : FirstOfOrder(f)
  BY <1>1, <1>3, Types DEF OutboxHold, WireKept
<1>5. relay \in [Relays -> BatchType]
  BY Types
<1>6. relay' \in [Relays -> BatchType] /\ \A q \in Relays : relay'[q] = b \/ relay'[q] = relay[q]
  BY <1>2, <1>5
<1>7. \A q \in Relays : relay'[q].late \subseteq Recorded /\ BatchKept(relay'[q])
  BY <1>2, <1>6 DEF OutboxHold, CommittedIsSettled, OutboxTypeOK, BatchesKept
<1> QED
  BY <1>1, <1>4, <1>6, <1>7, RelaysMove

\* A row is written: no other changes, and no published one is taken back.
LEMMA SaveRowKeeps ==
  ASSUME OutboxHold, NEW f \in Recorded, NEW row \in RowType, SaveRow(f, row), UNCHANGED log,
         Published(f) => row.state = "published"
  PROVE /\ outbox' \in [Orders -> Seq(RowType)] /\ \A o \in Orders : Len(outbox'[o]) = Len(outbox[o])
        /\ Recorded' = Recorded /\ Logged' = Logged /\ Grows
        /\ RowOf(f)' = row /\ \A g \in Recorded \ {f} : RowOf(g)' = RowOf(g)
<1>1. /\ f[1] \in Orders /\ f[2] \in 1..Len(outbox[f[1]]) /\ f = <<f[1], f[2]>>
      /\ outbox \in [Orders -> Seq(RowType)]
  BY FactParts, Types
<1>2. outbox' = [outbox EXCEPT ![f[1]] = [outbox[f[1]] EXCEPT ![f[2]] = row]]
  BY DEF SaveRow
<1> DEFINE rows == [outbox[f[1]] EXCEPT ![f[2]] = row]
<1>3. rows \in Seq(RowType) /\ Len(rows) = Len(outbox[f[1]]) /\ rows[f[2]] = row
      /\ \A n \in 1..Len(rows) : n # f[2] => rows[n] = outbox[f[1]][n]
  BY <1>1
<1> HIDE DEF rows
<1>4. outbox' \in [Orders -> Seq(RowType)] /\ outbox'[f[1]] = rows
      /\ \A o \in Orders \ {f[1]} : outbox'[o] = outbox[o]
  BY <1>1, <1>2, <1>3 DEF rows
<1>5. \A o \in Orders : Len(outbox'[o]) = Len(outbox[o])
  BY <1>3, <1>4
<1>6. Recorded' = Recorded
  BY <1>5 DEF Recorded, Facts
<1>7. RowOf(f)' = row
  BY <1>3, <1>4 DEF RowOf
<1>8. ASSUME NEW g \in Recorded \ {f} PROVE RowOf(g)' = RowOf(g)
  <2>1. g[1] \in Orders /\ g[2] \in 1..Len(outbox[g[1]]) /\ g = <<g[1], g[2]>>
    BY FactParts
  <2>2. CASE g[1] # f[1]
    BY <1>4, <2>1, <2>2 DEF RowOf
  <2>3. CASE g[1] = f[1]
    <3>1. g[2] # f[2]
      BY <1>1, <2>1, <2>3
    <3> QED
      BY <1>3, <1>4, <2>1, <2>3, <3>1 DEF RowOf
  <2> QED
    BY <2>2, <2>3
<1>9. Logged' = Logged
  BY DEF Logged
<1>10. ASSUME NEW g \in Recorded, Published(g) PROVE Published(g)'
  BY <1>7, <1>8, <1>10 DEF Published
<1> QED
  BY <1>4, <1>5, <1>6, <1>7, <1>8, <1>9, <1>10 DEF Grows

\* A relay writes the row of a fact whose earlier facts are published, and
\* marks it published only when it is logged.
LEMMA RowsMove ==
  ASSUME OutboxHold, NEW f \in Recorded, NEW row \in RowType, SaveRow(f, row),
         Published(f) => row.state = "published",
         row.state = "published" => Published(f) \/ (f \in Logged /\ FirstOfOrder(f)),
         UNCHANGED <<created, wire, log, consumer, settled>>,
         relay' \in [Relays -> BatchType], \A r \in Relays : relay'[r].late \subseteq Recorded,
         \A r \in Relays : BatchKept(relay'[r]),
         faults' \in 0..MaxFaults
  PROVE OutboxHold'
<1>1. /\ outbox' \in [Orders -> Seq(RowType)] /\ \A o \in Orders : Len(outbox'[o]) = Len(outbox[o])
      /\ Recorded' = Recorded /\ Logged' = Logged /\ Grows
      /\ RowOf(f)' = row /\ \A g \in Recorded \ {f} : RowOf(g)' = RowOf(g)
  BY SaveRowKeeps
<1>2. OutboxTypeOK'
  BY <1>1 DEF OutboxHold, CommittedIsSettled, OutboxTypeOK
<1>3. PublishedIsLogged'
  <2> SUFFICES ASSUME NEW g \in Recorded, Published(g)' PROVE g \in Logged /\ FirstOfOrder(g)'
    BY <1>1 DEF PublishedIsLogged
  <2>1. g \in Logged /\ FirstOfOrder(g)
    BY <1>1 DEF Published, OutboxHold, CommittedIsSettled, PublishedIsLogged
  <2> QED
    BY <1>1, <2>1, FirstStays
<1>4. AppliedOnce' /\ FirstSeenInOrder' /\ OutcomesLogged' /\ HandledIsSettled'
  BY <1>1 DEF OutboxHold, CommittedIsSettled, AppliedOnce, FirstSeenInOrder, OutcomesLogged, HandledIsSettled
<1>5. BatchesKept'
  <2> SUFFICES ASSUME NEW r \in Relays PROVE BatchKept(relay[r])'
    BY DEF BatchesKept
  <2>1. PICK b : b = relay'[r]
    OBVIOUS
  <2> QED
    BY <1>1, <2>1, BatchStays
<1>6. WireKept'
  BY <1>1, WireStays
<1> QED
  BY <1>2, <1>3, <1>4, <1>5, <1>6 DEF OutboxHold, CommittedIsSettled

\* The other relays put the fact off.
LEMMA LateKept ==
  ASSUME OutboxHold, NEW q \in Relays, NEW f \in Recorded
  PROVE /\ LateFor(f, relay[q]) \in BatchType /\ LateFor(f, relay[q]).late \subseteq Recorded
        /\ BatchKept(LateFor(f, relay[q]))
<1> DEFINE b == LateFor(f, relay[q])
<1>1. /\ relay[q] \in BatchType /\ BatchKept(relay[q]) /\ relay[q].late \subseteq Recorded
      /\ Recorded \subseteq Facts
  BY Types DEF OutboxHold, CommittedIsSettled, OutboxTypeOK, BatchesKept
<1>2. /\ b.pc = relay[q].pc /\ b.fact = relay[q].fact /\ b.tried = relay[q].tried
      /\ b.late = IF relay[q].pc = "asleep" THEN {} ELSE relay[q].late \cup {f}
  BY DEF LateFor, Batch
<1>3. b \in BatchType
  BY <1>1 DEF LateFor, Batch, BatchType
<1>4. b.late \subseteq Recorded
  BY <1>1, <1>2
<1> HIDE DEF b
<1>5. BatchKept(b)
  BY <1>1, <1>2 DEF BatchKept
<1> QED
  BY <1>3, <1>4, <1>5 DEF b

\* The candidates are pending, and first among the pending facts of their
\* order.
LEMMA Claimable ==
  ASSUME OutboxHold, NEW r \in Relays, NEW f \in Candidates(r)
  PROVE f \in Recorded /\ ~Published(f) /\ FirstOfOrder(f) /\ f \notin relay[r].late
  BY DEF Candidates, Due

\* A claim: the relay knows that the earlier facts are published.
LEMMA ClaimStep ==
  ASSUME OutboxHold, NEW r \in Relays, Claim(r) \/ ClaimFails(r) PROVE OutboxHold'
<1>1. PICK pc \in {"claimed", "asleep"} : ClaimOrderFact(r, pc)
  BY DEF Claim, ClaimFails
<1>2. faults' \in 0..MaxFaults
  BY Types, OutboxAssumption DEF Claim, ClaimFails, Fault
<1>3. PICK f \in Candidates(r) :
        /\ SaveRow(f, Row("pending", r, "live"))
        /\ relay' = [q \in Relays |->
             IF q # r THEN LateFor(f, relay[q])
             ELSE IF pc = "asleep" THEN Asleep
             ELSE Batch(pc, f, relay[r].late \cup {f}, relay[r].left - 1, relay[r].tried \cup {f})]
  BY <1>1 DEF ClaimOrderFact
<1>4. f \in Recorded /\ ~Published(f) /\ FirstOfOrder(f)
  BY Claimable
<1>5. Row("pending", r, "live") \in RowType /\ Row("pending", r, "live").state = "pending"
  BY DEF Row, RowType
<1> DEFINE b == Batch("claimed", f, relay[r].late \cup {f}, relay[r].left - 1, relay[r].tried \cup {f})
<1>6. /\ relay[r] \in BatchType /\ BatchKept(relay[r]) /\ relay[r].late \subseteq Recorded
      /\ Recorded \subseteq Facts /\ relay[r].left > 0
  BY <1>1, Types DEF OutboxHold, CommittedIsSettled, OutboxTypeOK, BatchesKept, ClaimOrderFact
<1>7. b \in BatchType /\ b.late \subseteq Recorded /\ BatchKept(b)
  <2>1. relay[r].left - 1 \in 0..BatchLimit
    BY <1>6, OutboxAssumption DEF BatchType
  <2>2. b \in BatchType
    BY <1>4, <1>6, <2>1 DEF Batch, BatchType
  <2>3. b.pc = "claimed" /\ b.fact = f /\ b.late = relay[r].late \cup {f} /\ b.tried = relay[r].tried \cup {f}
    BY DEF Batch
  <2> HIDE DEF b
  <2>4. BatchKept(b)
    BY <1>4, <1>6, <2>3 DEF BatchKept
  <2> QED
    BY <1>4, <1>6, <2>2, <2>3, <2>4
<1> HIDE DEF b
<1>8. ASSUME NEW q \in Relays
      PROVE relay'[q] \in BatchType /\ relay'[q].late \subseteq Recorded /\ BatchKept(relay'[q])
  <2>1. relay'[q] \in {b, Asleep} \/ relay'[q] = LateFor(f, relay[q])
    BY <1>3 DEF b
  <2> QED
    BY <1>4, <1>7, <2>1, AsleepKept, LateKept
<1>9. relay' \in [Relays -> BatchType]
  BY <1>3, <1>8
<1>10. UNCHANGED <<created, wire, log, consumer, settled>>
  BY <1>1 DEF ClaimOrderFact
<1> QED
  BY <1>2, <1>3, <1>4, <1>5, <1>8, <1>9, <1>10, RowsMove

\* When only one relay changes, the others keep what they know.
LEMMA OthersKept ==
  ASSUME OutboxHold, NEW r \in Relays, NEW b \in BatchType, relay' = [relay EXCEPT ![r] = b],
         b.late \subseteq Recorded, BatchKept(b)
  PROVE /\ relay' \in [Relays -> BatchType]
        /\ \A q \in Relays : relay'[q].late \subseteq Recorded /\ BatchKept(relay'[q])
<1>1. relay \in [Relays -> BatchType]
  BY Types
<1>2. \A q \in Relays : relay'[q] = b \/ relay'[q] = relay[q]
  BY <1>1
<1> QED
  BY <1>1, <1>2 DEF OutboxHold, CommittedIsSettled, OutboxTypeOK, BatchesKept

\* A fact is marked behind its acknowledgement, by the relay that owns it.
LEMMA MarkPublishedStep ==
  ASSUME OutboxHold, NEW r \in Relays, MarkPublished(r) PROVE OutboxHold'
<1>1. PICK f : f = relay[r].fact
  OBVIOUS
<1>2. /\ relay[r].pc = "acknowledged"
      /\ UNCHANGED <<created, wire, log, consumer, settled, faults>>
      /\ \/ Owns(r, f) /\ SaveRow(f, Row("published", NoRelay, "free")) /\ Goto(r, "claiming")
         \/ relay' = [relay EXCEPT ![r] = Asleep] /\ UNCHANGED outbox
  BY <1>1 DEF MarkPublished
<1>3. f \in Recorded /\ FirstOfOrder(f) /\ f \in Logged
  BY <1>1, <1>2 DEF OutboxHold, BatchesKept, BatchKept
<1>4. Row("published", NoRelay, "free") \in RowType /\ Row("published", NoRelay, "free").state = "published"
  BY DEF Row, RowType
<1>5. CASE Owns(r, f) /\ SaveRow(f, Row("published", NoRelay, "free")) /\ Goto(r, "claiming")
  <2>1. PICK b \in BatchType : relay' = [relay EXCEPT ![r] = b] /\ BatchKept(b) /\ b.late \subseteq Recorded
    BY <1>2, <1>5, GotoKeeps
  <2>2. /\ relay' \in [Relays -> BatchType]
        /\ \A q \in Relays : relay'[q].late \subseteq Recorded /\ BatchKept(relay'[q])
    BY <2>1, OthersKept
  <2> QED
    BY <1>2, <1>3, <1>4, <1>5, <2>2, Types, RowsMove
<1>6. CASE relay' = [relay EXCEPT ![r] = Asleep] /\ UNCHANGED outbox
  BY <1>2, <1>6, AsleepKept, OneRelayMoves, Types
<1> QED
  BY <1>2, <1>5, <1>6

\* A fact is put off by a lease of the relay that owns it.
LEMMA RetryStep ==
  ASSUME OutboxHold, NEW r \in Relays, Retry(r) PROVE OutboxHold'
<1>1. PICK f : f = relay[r].fact
  OBVIOUS
<1> DEFINE b == Batch("claiming", f, relay[r].late \cup {f}, relay[r].left, relay[r].tried)
<1>2. /\ relay[r].pc = "failed"
      /\ UNCHANGED <<created, wire, log, consumer, settled, faults>>
      /\ \/ /\ ~Published(f) /\ SaveRow(f, Row("pending", r, "live"))
            /\ relay' = [q \in Relays |-> IF q # r THEN LateFor(f, relay[q]) ELSE b]
         \/ Goto(r, "claiming") /\ UNCHANGED outbox
  BY <1>1 DEF Retry
<1>3. f \in Recorded /\ FirstOfOrder(f)
  BY <1>1, <1>2 DEF OutboxHold, BatchesKept, BatchKept
<1>4. Row("pending", r, "live") \in RowType /\ Row("pending", r, "live").state = "pending"
  BY DEF Row, RowType
<1>5. CASE /\ ~Published(f) /\ SaveRow(f, Row("pending", r, "live"))
           /\ relay' = [q \in Relays |-> IF q # r THEN LateFor(f, relay[q]) ELSE b]
  <2>1. /\ relay[r] \in BatchType /\ BatchKept(relay[r]) /\ relay[r].late \subseteq Recorded
        /\ Recorded \subseteq Facts
    BY Types DEF OutboxHold, CommittedIsSettled, OutboxTypeOK, BatchesKept
  <2>2. b \in BatchType
    BY <1>3, <2>1 DEF Batch, BatchType
  <2>3. b.pc = "claiming" /\ b.late = relay[r].late \cup {f} /\ b.tried = relay[r].tried
    BY DEF Batch
  <2> HIDE DEF b
  <2>4. BatchKept(b) /\ b.late \subseteq Recorded
    BY <1>3, <2>1, <2>3 DEF BatchKept
  <2>5. ASSUME NEW q \in Relays
        PROVE relay'[q] \in BatchType /\ relay'[q].late \subseteq Recorded /\ BatchKept(relay'[q])
    <3>1. relay'[q] = b \/ relay'[q] = LateFor(f, relay[q])
      BY <1>5
    <3> QED
      BY <1>3, <2>2, <2>4, <3>1, LateKept
  <2>6. relay' \in [Relays -> BatchType]
    BY <1>5, <2>5
  <2> QED
    BY <1>2, <1>3, <1>4, <1>5, <2>5, <2>6, Types, RowsMove
<1>6. CASE Goto(r, "claiming") /\ UNCHANGED outbox
  <2>1. PICK c \in BatchType : relay' = [relay EXCEPT ![r] = c] /\ BatchKept(c) /\ c.late \subseteq Recorded
    BY <1>2, <1>6, GotoKeeps
  <2> QED
    BY <1>2, <1>6, <2>1, OneRelayMoves, Types
<1> QED
  BY <1>2, <1>5, <1>6

\* A lease that runs out changes neither what is published nor what relays know.
LEMMA LeaseRunsOutStep ==
  ASSUME OutboxHold, NEW f \in Facts, LeaseRunsOut(f) PROVE OutboxHold'
<1>1. PICK row : row = Row(RowOf(f).state, RowOf(f).owner, "over")
  OBVIOUS
<1>2. /\ f \in Recorded /\ SaveRow(f, row) /\ UNCHANGED <<created, relay, wire, log, consumer, settled>>
      /\ faults' \in 0..MaxFaults
  BY <1>1, Types, OutboxAssumption DEF LeaseRunsOut, Fault
<1>3. RowOf(f) \in RowType
  BY <1>2, FactParts
<1>4. row \in RowType /\ row.state = RowOf(f).state
  BY <1>1, <1>3 DEF Row, RowType
<1>5. /\ Published(f) => row.state = "published"
      /\ row.state = "published" => Published(f) \/ (f \in Logged /\ FirstOfOrder(f))
  BY <1>4 DEF Published
<1>6. /\ relay' \in [Relays -> BatchType]
      /\ \A q \in Relays : relay'[q].late \subseteq Recorded
      /\ \A q \in Relays : BatchKept(relay'[q])
  BY <1>2, Types DEF OutboxHold, CommittedIsSettled, OutboxTypeOK, BatchesKept
<1> QED
  BY <1>2, <1>4, <1>5, <1>6, RowsMove

-----------------------------------------------------------------------------
(* The topics *)

\* A fact is appended to its topic: it is logged besides the others, and the
\* outcomes before it keep their offsets.
LEMMA LogAppends ==
  ASSUME OutboxHold, NEW f \in Recorded, log' = [log EXCEPT ![KindOf(f)] = Append(log[KindOf(f)], f)]
  PROVE /\ log' \in [Topics -> Seq(Facts)] /\ Logged' = Logged \cup {f}
        /\ Len(log["outcome"]) \in Nat /\ Len(log'["outcome"]) \in Nat
        /\ Len(log["outcome"]) <= Len(log'["outcome"])
        /\ \A i \in 1..Len(log["outcome"]) : log'["outcome"][i] = log["outcome"][i]
        /\ \A i \in 1..Len(log'["outcome"]) : i > Len(log["outcome"]) => log'["outcome"][i] = f /\ f[2] = LastFact
<1>1. log \in [Topics -> Seq(Facts)] /\ f \in Facts
  BY Types
<1>2. KindOf(f) \in Topics /\ "outcome" \in Topics /\ (KindOf(f) = "outcome" => f[2] = LastFact)
  BY DEF KindOf, Topics
<1> DEFINE k == KindOf(f)
           longer == Append(log[k], f)
<1>3. /\ longer \in Seq(Facts) /\ Len(longer) = Len(log[k]) + 1 /\ longer[Len(log[k]) + 1] = f
      /\ Len(log[k]) \in Nat /\ \A i \in 1..Len(log[k]) : longer[i] = log[k][i]
  BY <1>1, <1>2
<1> HIDE DEF longer
<1>4. /\ log' \in [Topics -> Seq(Facts)] /\ log'[k] = longer
      /\ \A t \in Topics \ {k} : log'[t] = log[t]
  BY <1>1, <1>2, <1>3 DEF longer
<1>5. ASSUME NEW g PROVE g \in Logged' <=> g \in Logged \cup {f}
  <2>1. g \in Logged <=> \E t \in Topics : \E i \in 1..Len(log[t]) : log[t][i] = g
    BY <1>1, LoggedIs
  <2>2. g \in Logged' <=> \E t \in Topics : \E i \in 1..Len(log'[t]) : log'[t][i] = g
    BY <1>4 DEF Logged, Range
  <2>3. ASSUME g \in Logged PROVE g \in Logged'
    <3>1. PICK t \in Topics : \E i \in 1..Len(log[t]) : log[t][i] = g
      BY <2>1, <2>3
    <3>2. PICK i \in 1..Len(log[t]) : log[t][i] = g
      BY <3>1
    <3>3. i \in 1..Len(log'[t]) /\ log'[t][i] = g
      BY <1>2, <1>3, <1>4, <3>2
    <3> QED
      BY <2>2, <3>3
  <2>4. f \in Logged'
    <3>1. Len(log[k]) + 1 \in 1..Len(log'[k]) /\ log'[k][Len(log[k]) + 1] = f
      BY <1>3, <1>4
    <3>2. \E t \in Topics : \E i \in 1..Len(log'[t]) : log'[t][i] = f
      BY <1>2, <3>1
    <3> QED
      BY <1>4, <3>2 DEF Logged, Range
  <2>5. ASSUME g \in Logged', g # f PROVE g \in Logged
    <3>1. PICK t \in Topics : \E i \in 1..Len(log'[t]) : log'[t][i] = g
      BY <2>2, <2>5
    <3>2. PICK i \in 1..Len(log'[t]) : log'[t][i] = g
      BY <3>1
    <3>3. i \in 1..Len(log[t]) /\ log[t][i] = g
      BY <1>2, <1>3, <1>4, <2>5, <3>2
    <3> QED
      BY <2>1, <3>3
  <2> QED
    BY <2>3, <2>4, <2>5
<1>6. Logged' = Logged \cup {f}
  BY <1>5
<1>7. CASE k = "outcome"
  BY <1>2, <1>3, <1>4, <1>6, <1>7
<1>8. CASE k # "outcome"
  BY <1>1, <1>2, <1>4, <1>6, <1>8
<1> QED
  BY <1>7, <1>8

\* A message reaches its topic: from the relay that claimed it, or late.
LEMMA LogGrows ==
  ASSUME OutboxHold, NEW f \in Recorded, FirstOfOrder(f),
         log' = [log EXCEPT ![KindOf(f)] = Append(log[KindOf(f)], f)],
         UNCHANGED <<outbox, created, consumer, settled, faults>>, wire' \subseteq wire,
         relay' \in [Relays -> BatchType], \A r \in Relays : relay'[r].late \subseteq Recorded,
         BatchesKept'
  PROVE OutboxHold'
<1>1. /\ log' \in [Topics -> Seq(Facts)] /\ Logged' = Logged \cup {f}
      /\ Len(log["outcome"]) \in Nat /\ Len(log'["outcome"]) \in Nat
      /\ Len(log["outcome"]) <= Len(log'["outcome"])
      /\ \A i \in 1..Len(log["outcome"]) : log'["outcome"][i] = log["outcome"][i]
      /\ \A i \in 1..Len(log'["outcome"]) : i > Len(log["outcome"]) => log'["outcome"][i] = f /\ f[2] = LastFact
  BY LogAppends
<1>2. Recorded' = Recorded /\ \A g : (Published(g)' <=> Published(g)) /\ (FirstOfOrder(g)' <=> FirstOfOrder(g))
  BY DEF Recorded, Published, RowOf, FirstOfOrder
<1>3. Grows
  BY <1>1, <1>2 DEF Grows
<1>4. consumer.committed \in 0..Len(log["outcome"])
  BY Types
<1>5. OutboxTypeOK'
  <2>1. consumer' \in [pc : {"stopped", "reading", "handled"}, committed : 0..Len(log'["outcome"])]
    BY <1>1, Types
  <2> QED
    BY <1>1, <1>2, <2>1, Types DEF OutboxHold, CommittedIsSettled, OutboxTypeOK
<1>6. AppliedOnce'
  BY <1>1, <1>4 DEF OutboxHold, CommittedIsSettled, AppliedOnce
<1>7. PublishedIsLogged'
  BY <1>1, <1>2 DEF OutboxHold, CommittedIsSettled, PublishedIsLogged
<1>8. FirstSeenInOrder'
  <2> SUFFICES ASSUME NEW g \in Logged \cup {f}, NEW n \in 1..(g[2] - 1)
               PROVE <<g[1], n>> \in Logged \cup {f}
    BY <1>1 DEF FirstSeenInOrder
  <2>1. CASE g \in Logged
    BY <2>1 DEF OutboxHold, CommittedIsSettled, FirstSeenInOrder
  <2>2. CASE g = f
    <3>1. <<f[1], n>> \in Recorded
      BY <2>2, FactParts
    <3>2. Published(<<f[1], n>>)
      BY <2>2 DEF FirstOfOrder
    <3> QED
      BY <2>2, <3>1, <3>2 DEF OutboxHold, CommittedIsSettled, PublishedIsLogged
  <2> QED
    BY <2>1, <2>2
<1>9. OutcomesLogged'
  BY <1>1 DEF OutboxHold, OutcomesLogged
<1>10. HandledIsSettled'
  BY <1>1, <1>4 DEF OutboxHold, HandledIsSettled
<1>11. WireKept'
  BY <1>3, WireStays
<1> QED
  BY <1>5, <1>6, <1>7, <1>8, <1>9, <1>10, <1>11 DEF OutboxHold, CommittedIsSettled

\* Publish: the relay claimed the fact behind the earlier ones.
LEMMA PublishStep ==
  ASSUME OutboxHold, NEW r \in Relays, Publish(r) PROVE OutboxHold'
<1>1. PICK f : f = relay[r].fact
  OBVIOUS
<1>2. /\ relay[r].pc = "claimed" /\ log' = [log EXCEPT ![KindOf(f)] = Append(log[KindOf(f)], f)]
      /\ Goto(r, "acknowledged") /\ UNCHANGED <<outbox, created, wire, consumer, settled, faults>>
  BY <1>1 DEF Publish, Sending
<1>3. f \in Recorded /\ FirstOfOrder(f)
  BY <1>1, <1>2 DEF OutboxHold, BatchesKept, BatchKept
<1>4. Logged' = Logged \cup {f}
  BY <1>2, <1>3, LogAppends
<1>5. Recorded' = Recorded /\ \A g : (Published(g)' <=> Published(g)) /\ (FirstOfOrder(g)' <=> FirstOfOrder(g))
  BY <1>2 DEF Recorded, Published, RowOf, FirstOfOrder
<1>6. Grows
  BY <1>4, <1>5 DEF Grows
<1>7. PICK b : b = [relay[r] EXCEPT !.pc = "acknowledged"]
  OBVIOUS
<1>8. /\ relay[r] \in BatchType /\ BatchKept(relay[r]) /\ relay[r].late \subseteq Recorded
      /\ relay \in [Relays -> BatchType]
  BY Types DEF OutboxHold, CommittedIsSettled, OutboxTypeOK, BatchesKept
<1>9. b \in BatchType /\ b.pc = "acknowledged" /\ b.fact = f /\ b.late = relay[r].late /\ b.tried = relay[r].tried
  BY <1>1, <1>7, <1>8 DEF BatchType
<1>10. relay' = [relay EXCEPT ![r] = b]
  BY <1>2, <1>7 DEF Goto
<1>11. BatchKept(b)'
  BY <1>3, <1>4, <1>5, <1>8, <1>9 DEF BatchKept
<1>12. relay' \in [Relays -> BatchType] /\ \A q \in Relays : relay'[q].late \subseteq Recorded
  BY <1>8, <1>9, <1>10 DEF OutboxHold, CommittedIsSettled, OutboxTypeOK
<1>13. BatchesKept'
  <2> SUFFICES ASSUME NEW q \in Relays PROVE BatchKept(relay[q])'
    BY DEF BatchesKept
  <2>1. CASE q = r
    BY <1>8, <1>10, <1>11, <2>1
  <2>2. CASE q # r
    <3>1. PICK c : c = relay[q]
      OBVIOUS
    <3>2. relay'[q] = c /\ BatchKept(c)
      BY <1>8, <1>10, <2>2, <3>1 DEF OutboxHold, BatchesKept
    <3> QED
      BY <1>6, <3>2, BatchStays
  <2> QED
    BY <2>1, <2>2
<1> QED
  BY <1>2, <1>3, <1>12, <1>13, LogGrows

\* A message arrives late, however long ago its relay gave it up.
LEMMA ArriveStep ==
  ASSUME OutboxHold, NEW f \in Facts, Arrive(f) PROVE OutboxHold'
<1>1. /\ f \in wire /\ wire' \subseteq wire /\ log' = [log EXCEPT ![KindOf(f)] = Append(log[KindOf(f)], f)]
      /\ UNCHANGED <<outbox, created, relay, consumer, settled, faults>>
  BY DEF Arrive
<1>2. f \in Recorded /\ FirstOfOrder(f)
  BY <1>1, Types DEF OutboxHold, WireKept
<1>3. Logged' = Logged \cup {f}
  BY <1>1, <1>2, LogAppends
<1>4. Recorded' = Recorded /\ \A g : Published(g)' <=> Published(g)
  BY <1>1 DEF Recorded, Published, RowOf
<1>5. Grows
  BY <1>3, <1>4 DEF Grows
<1>6. BatchesKept'
  <2> SUFFICES ASSUME NEW q \in Relays PROVE BatchKept(relay[q])'
    BY DEF BatchesKept
  <2>1. PICK c : c = relay[q]
    OBVIOUS
  <2>2. relay'[q] = c /\ BatchKept(c)
    BY <1>1, <2>1 DEF OutboxHold, BatchesKept
  <2> QED
    BY <1>5, <2>2, BatchStays
<1>7. relay' \in [Relays -> BatchType] /\ \A q \in Relays : relay'[q].late \subseteq Recorded
  BY <1>1, Types DEF OutboxHold, CommittedIsSettled, OutboxTypeOK
<1> QED
  BY <1>1, <1>2, <1>6, <1>7, LogGrows

-----------------------------------------------------------------------------
(* Recording and consuming *)

\* The facts of a new revision are appended, pending.
LEMMA RecordStep ==
  ASSUME OutboxHold, NEW o \in Orders, Record(o) PROVE OutboxHold'
<1>a. PICK n : n = IF Len(outbox[o]) = Revisions - 1 THEN 2 ELSE 1
  OBVIOUS
<1>b. PICK first : first = Len(outbox[o]) + 1
  OBVIOUS
<1>c. n \in {1, 2} /\ first \in Nat /\ first + n - 1 <= LastFact
  <2>1. Len(outbox[o]) \in Nat /\ Revisions \in Nat /\ first <= Revisions
    BY <1>b, Types, OutboxAssumption DEF Record
  <2>2. LastFact = Revisions + 1
    BY DEF LastFact
  <2>3. CASE Len(outbox[o]) = Revisions - 1
    <3>1. n = 2
      BY <1>a, <2>3
    <3> QED
      BY <1>b, <2>1, <2>2, <2>3, <3>1
  <2>4. CASE Len(outbox[o]) # Revisions - 1
    <3>1. n = 1
      BY <1>a, <2>4
    <3> QED
      BY <1>b, <2>1, <2>2, <2>4, <3>1
  <2> QED
    BY <2>3, <2>4
<1>1. /\ outbox' = [outbox EXCEPT ![o] = outbox[o] \o [i \in 1..n |-> Row("pending", NoRelay, "free")]]
      /\ created' = created \o [i \in 1..n |-> <<o, first + i - 1>>]
      /\ UNCHANGED <<relay, wire, log, consumer, settled, faults>>
  BY <1>a, <1>b DEF Record
<1>2. /\ outbox \in [Orders -> Seq(RowType)] /\ created \in Seq(Facts) /\ Len(outbox[o]) \in Nat
      /\ LastFact \in Nat /\ outbox[o] \in Seq(RowType)
  BY Types
<1> DEFINE added == [i \in 1..n |-> Row("pending", NoRelay, "free")]
           rows == outbox[o] \o added
           facts == [i \in 1..n |-> <<o, first + i - 1>>]
<1>3. Row("pending", NoRelay, "free") \in RowType
  BY DEF Row, RowType
<1>4. added \in Seq(RowType) /\ Len(added) = n
  BY <1>3, <1>c
<1> HIDE DEF added
<1>5. /\ rows \in Seq(RowType) /\ Len(rows) = Len(outbox[o]) + n
      /\ \A i \in 1..Len(outbox[o]) : rows[i] = outbox[o][i]
      /\ \A i \in 1..n : rows[Len(outbox[o]) + i] = added[i]
  BY <1>2, <1>4, <1>c
<1>6. \A i \in 1..n : added[i].state = "pending"
  BY DEF added, Row
<1> HIDE DEF rows
<1>7. /\ outbox' \in [Orders -> Seq(RowType)] /\ outbox'[o] = rows
      /\ \A x \in Orders \ {o} : outbox'[x] = outbox[x]
  BY <1>1, <1>2, <1>5 DEF rows, added
<1>8. ASSUME NEW i \in 1..n PROVE facts[i] \in Facts
  BY <1>b, <1>c, <1>2 DEF Facts
<1>9. facts \in Seq(Facts) /\ Len(facts) = n
  BY <1>8, <1>c
<1>10. \A i \in 1..n : facts[i] = <<o, first + i - 1>>
  OBVIOUS
<1> HIDE DEF facts
<1>11. /\ created' \in Seq(Facts) /\ Len(created') = Len(created) + n /\ Len(created) \in Nat
       /\ \A i \in 1..Len(created) : created'[i] = created[i]
       /\ \A i \in 1..n : created'[Len(created) + i] = facts[i]
  <2>1. created' = created \o facts
    BY <1>1 DEF facts
  <2> QED
    BY <1>2, <1>9, <1>c, <2>1
<1>12. ASSUME NEW f \in Facts
       PROVE f \in Recorded' <=> f \in Recorded \/ \E i \in 1..n : f = facts[i]
  <2>1. f = <<f[1], f[2]>> /\ f[1] \in Orders /\ f[2] \in 1..LastFact
    BY DEF Facts
  <2>2. CASE f[1] # o
    BY <1>7, <1>10, <2>1, <2>2 DEF Recorded
  <2>3. CASE f[1] = o
    <3>1. f \in Recorded' <=> f[2] <= Len(outbox[o]) + n
      BY <1>5, <1>7, <2>3 DEF Recorded
    <3>2. f \in Recorded <=> f[2] <= Len(outbox[o])
      BY <2>3 DEF Recorded
    <3>3. (\E i \in 1..n : f = facts[i]) <=> \E i \in 1..n : f[2] = first + i - 1
      BY <1>10, <2>1, <2>3
    <3>4. (\E i \in 1..n : f[2] = first + i - 1) <=> f[2] \in (Len(outbox[o]) + 1)..(Len(outbox[o]) + n)
      <4>1. ASSUME f[2] \in (Len(outbox[o]) + 1)..(Len(outbox[o]) + n)
            PROVE \E i \in 1..n : f[2] = first + i - 1
        <5> DEFINE len == Len(outbox[o])
        <5>1. f[2] \in Int /\ len \in Nat /\ n \in Nat /\ first = len + 1
          BY <1>b, <1>c, <1>2, <4>1
        <5> HIDE DEF len
        <5>2. f[2] - len \in 1..n /\ f[2] = first + (f[2] - len) - 1
          BY <4>1, <5>1 DEF len
        <5> QED
          BY <5>2
      <4> QED
        BY <1>b, <1>c, <1>2, <2>1, <4>1
    <3> QED
      BY <1>c, <1>2, <2>1, <3>1, <3>2, <3>3, <3>4
  <2> QED
    BY <2>2, <2>3
<1>13. Recorded \subseteq Recorded' /\ Recorded \subseteq Facts /\ Recorded' \subseteq Facts
  BY <1>12 DEF Recorded
<1>14. ASSUME NEW f \in Recorded PROVE RowOf(f)' = RowOf(f)
  BY <1>5, <1>7, FactParts DEF RowOf
<1>15. ASSUME NEW f \in Recorded', f \notin Recorded PROVE ~Published(f)'
  <2>1. PICK i \in 1..n : f = facts[i]
    BY <1>12, <1>13, <1>15
  <2>2. f[1] = o /\ f[2] = Len(outbox[o]) + i
    BY <1>b, <1>c, <1>2, <1>10, <2>1
  <2> QED
    BY <1>5, <1>6, <1>7, <2>2 DEF Published, RowOf
<1>16. Logged' = Logged
  BY <1>1 DEF Logged
<1>17. Grows
  BY <1>13, <1>14, <1>16 DEF Grows, Published
<1>18. Range(created') = Recorded'
  <2>1. Range(created) = Recorded
    BY DEF OutboxHold, CommittedIsSettled, OutboxTypeOK
  <2>2. ASSUME NEW f \in Range(created') PROVE f \in Recorded'
    <3>1. PICK j \in 1..Len(created') : f = created'[j]
      BY <1>11 DEF Range
    <3>2. CASE j <= Len(created)
      <4>1. created[j] \in Range(created)
        BY <1>2, <1>11, <3>2 DEF Range
      <4> QED
        BY <1>11, <1>13, <2>1, <3>1, <3>2, <4>1
    <3>3. CASE j > Len(created)
      <4>1. PICK i \in 1..n : j = Len(created) + i
        BY <1>11, <1>c, <3>1, <3>3
      <4> QED
        BY <1>8, <1>11, <1>12, <3>1, <4>1 DEF facts
    <3> QED
      BY <1>11, <3>2, <3>3
  <2>3. ASSUME NEW f \in Recorded' PROVE f \in Range(created')
    <3>1. CASE f \in Recorded
      <4>1. PICK j \in 1..Len(created) : created[j] = f
        BY <1>2, <2>1, <3>1 DEF Range
      <4>2. j \in 1..Len(created') /\ created'[j] = f
        BY <1>11, <1>c, <4>1
      <4> QED
        BY <1>11, <4>2 DEF Range
    <3>2. CASE f \notin Recorded
      <4>1. PICK i \in 1..n : f = facts[i]
        BY <1>12, <1>13, <3>2
      <4>2. Len(created) + i \in 1..Len(created') /\ created'[Len(created) + i] = f
        BY <1>11, <1>c, <4>1
      <4> QED
        BY <1>11, <4>2 DEF Range
    <3> QED
      BY <3>1, <3>2
  <2> QED
    BY <2>2, <2>3
<1>19. OutboxTypeOK'
  <2>1. \A x \in Orders : Len(outbox'[x]) <= LastFact
    <3>1. Len(outbox'[o]) <= LastFact
      BY <1>b, <1>c, <1>2, <1>5, <1>7
    <3> QED
      BY <1>7, <3>1 DEF OutboxHold, CommittedIsSettled, OutboxTypeOK
  <2>2. \A r \in Relays : relay[r].late \subseteq Recorded'
    BY <1>13 DEF OutboxHold, CommittedIsSettled, OutboxTypeOK
  <2> QED
    BY <1>1, <1>7, <1>11, <1>13, <1>16, <1>18, <2>1, <2>2, Types DEF OutboxTypeOK
<1>20. PublishedIsLogged'
  <2> SUFFICES ASSUME NEW f \in Recorded', Published(f)' PROVE f \in Logged /\ FirstOfOrder(f)'
    BY <1>16 DEF PublishedIsLogged
  <2>1. f \in Recorded /\ Published(f)
    BY <1>14, <1>15 DEF Published
  <2>2. f \in Logged /\ FirstOfOrder(f)
    BY <2>1 DEF OutboxHold, CommittedIsSettled, PublishedIsLogged
  <2> QED
    BY <1>17, <2>1, <2>2, FirstStays
<1>21. AppliedOnce' /\ FirstSeenInOrder' /\ OutcomesLogged' /\ HandledIsSettled'
  BY <1>1, <1>16 DEF OutboxHold, CommittedIsSettled, AppliedOnce, FirstSeenInOrder, OutcomesLogged, HandledIsSettled
<1>22. BatchesKept'
  <2> SUFFICES ASSUME NEW q \in Relays PROVE BatchKept(relay[q])'
    BY DEF BatchesKept
  <2>1. PICK c : c = relay[q]
    OBVIOUS
  <2>2. relay'[q] = c /\ BatchKept(c)
    BY <1>1, <2>1 DEF OutboxHold, BatchesKept
  <2> QED
    BY <1>17, <2>2, BatchStays
<1>23. WireKept'
  BY <1>1, <1>17, WireStays
<1> QED
  BY <1>19, <1>20, <1>21, <1>22, <1>23 DEF OutboxHold, CommittedIsSettled

\* A step of the consumer, which leaves the rows, the relays and the topics
\* alone.
LEMMA ConsumerMoves ==
  ASSUME OutboxHold, UNCHANGED <<outbox, created, relay, wire, log>>,
         consumer' \in [pc : {"stopped", "reading", "handled"}, committed : 0..Len(log["outcome"])],
         settled' \in [Orders -> Nat], faults' \in 0..MaxFaults,
         AppliedOnce', HandledIsSettled'
  PROVE OutboxHold'
<1>1. Recorded' = Recorded /\ Logged' = Logged
  BY DEF Recorded, Logged
<1>2. \A f : (Published(f)' <=> Published(f)) /\ (FirstOfOrder(f)' <=> FirstOfOrder(f))
  BY DEF Published, RowOf, FirstOfOrder
<1>3. Grows
  BY <1>1, <1>2 DEF Grows
<1>4. OutboxTypeOK'
  BY <1>1 DEF OutboxHold, CommittedIsSettled, OutboxTypeOK
<1>5. PublishedIsLogged' /\ FirstSeenInOrder' /\ OutcomesLogged'
  BY <1>1, <1>2 DEF OutboxHold, CommittedIsSettled, PublishedIsLogged, FirstSeenInOrder, OutcomesLogged
<1>6. BatchesKept'
  <2> SUFFICES ASSUME NEW q \in Relays PROVE BatchKept(relay[q])'
    BY DEF BatchesKept
  <2>1. PICK c : c = relay[q]
    OBVIOUS
  <2>2. relay'[q] = c /\ BatchKept(c)
    BY <2>1 DEF OutboxHold, BatchesKept
  <2> QED
    BY <1>3, <2>2, BatchStays
<1>7. WireKept'
  BY <1>3, WireStays
<1> QED
  BY <1>4, <1>5, <1>6, <1>7 DEF OutboxHold, CommittedIsSettled

\* A subscriber starts or stops; what it handled and did not commit is
\* delivered again.
LEMMA SubscriberStep ==
  ASSUME OutboxHold, Subscribe \/ SubscriptionStops PROVE OutboxHold'
<1>1. consumer \in [pc : {"stopped", "reading", "handled"}, committed : 0..Len(log["outcome"])]
  BY Types
<1>2. /\ consumer'.committed = consumer.committed /\ consumer'.pc # "handled"
      /\ consumer' \in [pc : {"stopped", "reading", "handled"}, committed : 0..Len(log["outcome"])]
  BY <1>1 DEF Subscribe, SubscriptionStops
<1>3. UNCHANGED <<outbox, created, relay, wire, log, settled>> /\ faults' \in 0..MaxFaults
  BY Types, OutboxAssumption DEF Subscribe, SubscriptionStops, Fault
<1>4. AppliedOnce' /\ HandledIsSettled'
  BY <1>2, <1>3 DEF OutboxHold, CommittedIsSettled, AppliedOnce, HandledIsSettled
<1> QED
  BY <1>2, <1>3, <1>4, ConsumerMoves, Types

\* The delivery is an outcome that was logged.
LEMMA DeliveryIs ==
  ASSUME OutboxHold, consumer.committed < Len(log["outcome"])
  PROVE /\ Delivery \in Logged /\ Delivery[1] \in Orders /\ Delivery[2] = LastFact
        /\ consumer.committed \in Nat /\ Len(log["outcome"]) \in Nat
<1>1. /\ log \in [Topics -> Seq(Facts)] /\ "outcome" \in Topics
      /\ consumer.committed \in 0..Len(log["outcome"])
  BY Types DEF Topics
<1>2. consumer.committed + 1 \in 1..Len(log["outcome"]) /\ consumer.committed \in Nat
  BY <1>1
<1>3. Delivery \in Facts /\ Delivery[2] = LastFact
  BY <1>1, <1>2 DEF Delivery, OutboxHold, OutcomesLogged
<1>4. Delivery \in Logged
  BY <1>1, <1>2, LoggedIs DEF Delivery
<1> QED
  BY <1>1, <1>2, <1>3, <1>4 DEF Facts

\* The handler applies the outcome once, however often it is delivered.
LEMMA HandleStep ==
  ASSUME OutboxHold, Handle PROVE OutboxHold'
<1>1. PICK o : o = Delivery[1]
  OBVIOUS
<1>2. /\ consumer.committed < Len(log["outcome"])
      /\ settled' = [settled EXCEPT ![o] = ApplyOutcome(o)]
      /\ consumer' = [consumer EXCEPT !.pc = "handled"]
      /\ UNCHANGED <<outbox, created, relay, wire, log, faults>>
  BY <1>1 DEF Handle
<1>3. consumer \in [pc : {"stopped", "reading", "handled"}, committed : 0..Len(log["outcome"])]
      /\ settled \in [Orders -> Nat] /\ o \in Orders /\ faults \in 0..MaxFaults
  BY <1>1, <1>2, DeliveryIs, Types
<1>4. consumer'.committed = consumer.committed
      /\ consumer' \in [pc : {"stopped", "reading", "handled"}, committed : 0..Len(log["outcome"])]
  BY <1>2, <1>3
<1>5. ApplyOutcome(o) = 1
  BY <1>3 DEF ApplyOutcome, OutboxHold, CommittedIsSettled, AppliedOnce
<1>6. settled' \in [Orders -> Nat] /\ settled'[o] = 1 /\ \A x \in Orders \ {o} : settled'[x] = settled[x]
  BY <1>2, <1>3, <1>5
<1>7. AppliedOnce'
  <2>1. \A x \in Orders : settled'[x] <= 1 /\ (settled[x] = 1 => settled'[x] = 1)
    BY <1>6 DEF OutboxHold, CommittedIsSettled, AppliedOnce
  <2>2. ASSUME NEW i \in 1..consumer.committed PROVE settled'[log["outcome"][i][1]] = 1
    <3>1. log["outcome"][i] \in Facts
      BY <1>3, Types DEF Topics
    <3> QED
      BY <2>1, <3>1 DEF Facts, OutboxHold, CommittedIsSettled, AppliedOnce
  <2> QED
    BY <1>2, <1>4, <2>1, <2>2 DEF AppliedOnce
<1>8. HandledIsSettled'
  BY <1>1, <1>2, <1>4, <1>6 DEF HandledIsSettled, Delivery
<1> QED
  BY <1>2, <1>3, <1>4, <1>6, <1>7, <1>8, ConsumerMoves

\* The offset moves past what was handled.
LEMMA CommitStep ==
  ASSUME OutboxHold, Commit PROVE OutboxHold'
<1>1. /\ consumer.pc = "handled" /\ consumer' = Subscription("reading", consumer.committed + 1)
      /\ UNCHANGED <<outbox, created, relay, wire, log, settled, faults>>
  BY DEF Commit
<1>2. consumer.committed < Len(log["outcome"]) /\ settled[log["outcome"][consumer.committed + 1][1]] = 1
  BY <1>1 DEF OutboxHold, HandledIsSettled
<1>3. consumer.committed \in Nat /\ Len(log["outcome"]) \in Nat
  BY <1>2, DeliveryIs
<1>4. consumer'.pc = "reading" /\ consumer'.committed = consumer.committed + 1
      /\ consumer' \in [pc : {"stopped", "reading", "handled"}, committed : 0..Len(log["outcome"])]
  BY <1>1, <1>2, <1>3 DEF Subscription
<1>5. AppliedOnce'
  BY <1>1, <1>2, <1>3, <1>4 DEF OutboxHold, CommittedIsSettled, AppliedOnce
<1>6. HandledIsSettled'
  BY <1>4 DEF HandledIsSettled
<1> QED
  BY <1>1, <1>4, <1>5, <1>6, Types, ConsumerMoves

-----------------------------------------------------------------------------
(* Theorems *)

\* Every step preserves the invariant.
LEMMA OutboxStep ==
  ASSUME OutboxHold, [OutboxNext]_vars PROVE OutboxHold'
<1>1. ASSUME NEW r \in Relays, RelayStep(r) PROVE OutboxHold'
  BY <1>1, BeginDrainStep, ClaimStep, SleepStep, EncodeFailsStep, PublishStep, MarkPublishedStep, RetryStep
  DEF RelayStep
<1>2. ASSUME NEW r \in Relays, ClaimFails(r) \/ PublishFails(r) \/ CrashRelay(r) PROVE OutboxHold'
  BY <1>2, ClaimStep, PublishFailsStep, SleepStep
<1>3. ASSUME NEW f \in Facts, Arrive(f) \/ LeaseRunsOut(f) PROVE OutboxHold'
  BY <1>3, ArriveStep, LeaseRunsOutStep
<1>4. ASSUME Subscribe \/ Handle \/ Commit \/ SubscriptionStops PROVE OutboxHold'
  BY <1>4, SubscriberStep, HandleStep, CommitStep
<1>5. ASSUME NEW o \in Orders, Record(o) PROVE OutboxHold'
  BY <1>5, RecordStep
<1>6. ASSUME UNCHANGED vars PROVE OutboxHold'
  <2>1. UNCHANGED <<outbox, created, relay, wire, log, consumer, settled, faults>>
    BY <1>6 DEF vars
  <2>2. AppliedOnce' /\ HandledIsSettled'
    BY <2>1 DEF OutboxHold, CommittedIsSettled, AppliedOnce, HandledIsSettled
  <2> QED
    BY <2>1, <2>2, Types, ConsumerMoves
<1> QED
  BY <1>1, <1>2, <1>3, <1>4, <1>5, <1>6 DEF OutboxNext

\* In every behaviour of the outbox, whatever relays, messages and consumers
\* know of a fact is true of it.
THEOREM OutboxSafe == OutboxSpec => []OutboxHold
<1>1. OutboxHold /\ [OutboxNext]_vars => OutboxHold'
  BY OutboxStep
<1> QED
  BY <1>1, OutboxBegins, PTL DEF OutboxSpec

\* Whatever relays stall, crash or repeat, an offset is committed only behind
\* outcomes that were applied, once; a row is marked as published behind its
\* acknowledgement, and topics see an order's facts in order (relay.go,
\* subscriber.go, outcome.go).
THEOREM Deliveries == OutboxSpec => []CommittedIsSettled
  BY OutboxSafe, PTL DEF OutboxHold

-----------------------------------------------------------------------------
(* A batch claims a fact once *)

\* Only a claim takes a relay from claiming to claimed.
LEMMA OnlyClaims ==
  ASSUME OutboxHold, [OutboxNext]_vars, NEW r \in Relays,
         relay[r].pc = "claiming", relay'[r].pc = "claimed"
  PROVE Claim(r)
<1>1. relay \in [Relays -> BatchType]
  BY Types
<1>2. ASSUME NEW f, NEW q \in Relays PROVE LateFor(f, relay[q]).pc = relay[q].pc
  BY DEF LateFor, Batch
<1>3. Asleep.pc = "asleep"
  BY DEF Asleep, Batch
<1>4. ASSUME NEW q \in Relays, BeginDrain(q) \/ EndDrain(q) \/ CrashRelay(q) PROVE FALSE
  BY <1>1, <1>3, <1>4 DEF BeginDrain, EndDrain, CrashRelay, Batch
<1>5. ASSUME NEW q \in Relays, EncodeFails(q) \/ Publish(q) \/ PublishFails(q) PROVE FALSE
  BY <1>1, <1>5 DEF EncodeFails, Publish, PublishFails, Goto, BatchType
<1>6. ASSUME NEW q \in Relays, MarkPublished(q) PROVE FALSE
  BY <1>1, <1>3, <1>6 DEF MarkPublished, Goto, BatchType
<1>7. ASSUME NEW q \in Relays, Retry(q) PROVE FALSE
  BY <1>1, <1>2, <1>7 DEF Retry, Goto, BatchType, Batch
<1>8. ASSUME NEW q \in Relays, ClaimFails(q) PROVE FALSE
  BY <1>1, <1>2, <1>3, <1>8 DEF ClaimFails, ClaimOrderFact
<1>9. ASSUME NEW q \in Relays, Claim(q) PROVE q = r
  BY <1>1, <1>2, <1>9 DEF Claim, ClaimOrderFact
<1>10. ASSUME UNCHANGED relay PROVE FALSE
  BY <1>10
<1> QED
  BY <1>4, <1>5, <1>6, <1>7, <1>8, <1>9, <1>10
  DEF OutboxNext, RelayStep, Record, Arrive, LeaseRunsOut, Subscribe, Handle, Commit, SubscriptionStops, vars

\* A fact that a batch put off is not claimed again by the same batch, though
\* its lease may run out before the batch ends (relay.go: "a deferred fact
\* cannot become due again").
THEOREM Claims == OutboxSpec => OneClaimPerBatch
<1> DEFINE A == \A r \in Relays :
                  relay[r].pc = "claiming" /\ relay'[r].pc = "claimed" => relay'[r].fact \notin relay[r].tried
<1>1. OutboxHold /\ [OutboxNext]_vars => [A]_vars
  <2> SUFFICES ASSUME OutboxHold, [OutboxNext]_vars, NEW r \in Relays,
                      relay[r].pc = "claiming", relay'[r].pc = "claimed"
               PROVE relay'[r].fact \notin relay[r].tried
    OBVIOUS
  <2>1. Claim(r)
    BY OnlyClaims
  <2>2. PICK f \in Candidates(r) :
          relay'[r] = Batch("claimed", f, relay[r].late \cup {f}, relay[r].left - 1, relay[r].tried \cup {f})
    BY <2>1 DEF Claim, ClaimOrderFact
  <2>3. relay'[r].fact = f /\ f \notin relay[r].late
    BY <2>2, Claimable DEF Batch
  <2> QED
    BY <2>3 DEF OutboxHold, BatchesKept, BatchKept
<1>2. OneClaimPerBatch <=> [][A]_vars
  BY DEF OneClaimPerBatch
<1> HIDE DEF A
<1>3. OutboxSpec => [][OutboxNext]_vars
  BY DEF OutboxSpec
<1> QED
  BY <1>1, <1>2, <1>3, OutboxSafe, PTL

-----------------------------------------------------------------------------
(* The contract of the outbox *)

\* The first k numbers.
LEMMA FirstNumbers ==
  ASSUME NEW k \in Nat PROVE IsFiniteSet(1..k) /\ Cardinality(1..k) = k
  BY FS_Interval

\* What consumers have seen of an order is a finite set of recorded facts.
LEMMA SeenIs ==
  ASSUME OutboxHold, NEW o \in Orders
  PROVE /\ SeenOf(o) \subseteq 1..LastFact /\ IsFiniteSet(SeenOf(o)) /\ Cardinality(SeenOf(o)) \in Nat
        /\ SeenOf(o) \subseteq 1..Len(outbox[o]) /\ Cardinality(SeenOf(o)) <= Len(outbox[o])
        /\ Len(outbox[o]) \in Nat /\ LastFact \in Nat
<1>1. LastFact \in Nat /\ Len(outbox[o]) \in Nat /\ Logged \subseteq Recorded
  BY Types
<1>2. SeenOf(o) \subseteq 1..LastFact
  BY DEF SeenOf
<1>3. ASSUME NEW n \in SeenOf(o) PROVE n \in 1..Len(outbox[o])
  <2>1. <<o, n>> \in Recorded
    BY <1>1 DEF SeenOf
  <2> QED
    BY <1>1, <2>1 DEF Recorded, SeenOf
<1>4. IsFiniteSet(1..Len(outbox[o])) /\ Cardinality(1..Len(outbox[o])) = Len(outbox[o])
  BY <1>1, FirstNumbers
<1>5. IsFiniteSet(SeenOf(o)) /\ Cardinality(SeenOf(o)) <= Len(outbox[o])
  BY <1>3, <1>4, FS_Subset
<1> QED
  BY <1>1, <1>2, <1>3, <1>5, FS_CardinalityType

\* While nothing is logged, nothing is seen.
LEMMA SeenStays ==
  ASSUME OutboxHold, Logged' = Logged PROVE SeenCount' = SeenCount
  BY DEF SeenCount, SeenOf

\* A repeated message is not seen again; a new one is the next of its order.
LEMMA SeenGrows ==
  ASSUME OutboxHold, OutboxHold', NEW f \in Recorded, Logged' = Logged \cup {f},
         UNCHANGED <<outbox, settled>>
  PROVE UNCHANGED <<RecordedCount, SeenCount, settled>> \/ Contract!See(f[1])
<1>1. f[1] \in Orders /\ f = <<f[1], f[2]>> /\ f[2] \in 1..LastFact
  BY FactParts
<1>2. PICK o \in Orders, n \in 1..LastFact : f = <<o, n>> /\ o = f[1]
  BY <1>1
<1>3. RecordedCount' = RecordedCount
  BY DEF RecordedCount
<1>4. CASE f \in Logged
  BY <1>3, <1>4, SeenStays
<1>5. CASE f \notin Logged
  <2>1. SeenOf(o)' = SeenOf(o) \cup {n} /\ n \notin SeenOf(o)
    BY <1>2, <1>5 DEF SeenOf
  <2>2. \A x \in Orders \ {o} : SeenOf(x)' = SeenOf(x)
    BY <1>2 DEF SeenOf
  <2>3. Cardinality(SeenOf(o) \cup {n}) = Cardinality(SeenOf(o)) + 1
    BY <2>1, SeenIs, FS_AddElement
  <2>4. Cardinality(SeenOf(o)') <= Len(outbox[o])
    <3>1. SeenOf(o)' \subseteq 1..Len(outbox[o])
      <4> SUFFICES ASSUME NEW m \in SeenOf(o)' PROVE m \in 1..Len(outbox[o])
        OBVIOUS
      <4>1. m \in SeenOf(o) \/ m = n
        BY <2>1
      <4>2. n \in 1..Len(outbox[o])
        BY <1>2, FactParts
      <4> QED
        BY <4>1, <4>2, SeenIs
    <3>2. Len(outbox[o]) \in Nat
      BY SeenIs
    <3>3. IsFiniteSet(1..Len(outbox[o])) /\ Cardinality(1..Len(outbox[o])) = Len(outbox[o])
      BY <3>2, FirstNumbers
    <3> QED
      BY <3>1, <3>3, FS_Subset
  <2>5. Cardinality(SeenOf(o)) + 1 <= Len(outbox[o])
    BY <2>1, <2>3, <2>4
  <2>6. SeenCount' = [SeenCount EXCEPT ![o] = SeenCount[o] + 1]
    BY <2>1, <2>2, <2>3 DEF SeenCount
  <2>7. SeenCount[o] < RecordedCount[o]
    BY <2>5, SeenIs DEF SeenCount, RecordedCount
  <2> QED
    BY <1>2, <1>3, <2>6, <2>7 DEF Contract!See
<1> QED
  BY <1>4, <1>5

\* The rows may change their state, but not their number.
LEMMA NothingSeen ==
  ASSUME OutboxHold, UNCHANGED <<log, settled>>, \A o \in Orders : Len(outbox'[o]) = Len(outbox[o])
  PROVE UNCHANGED <<RecordedCount, SeenCount, settled>>
<1>1. Logged' = Logged
  BY DEF Logged
<1> QED
  BY <1>1, SeenStays DEF RecordedCount

\* A row is written and no fact is recorded.
LEMMA RowSaved ==
  ASSUME OutboxHold, NEW f \in Recorded, NEW row, SaveRow(f, row)
  PROVE \A o \in Orders : Len(outbox'[o]) = Len(outbox[o])
<1>1. f[1] \in Orders /\ f[2] \in 1..Len(outbox[f[1]]) /\ outbox \in [Orders -> Seq(RowType)]
  BY FactParts, Types
<1>2. outbox' = [outbox EXCEPT ![f[1]] = [outbox[f[1]] EXCEPT ![f[2]] = row]]
  BY DEF SaveRow
<1>3. Len([outbox[f[1]] EXCEPT ![f[2]] = row]) = Len(outbox[f[1]])
  BY <1>1
<1> QED
  BY <1>1, <1>2, <1>3

\* Recording a revision records its facts for the contract.
LEMMA RecordImplements ==
  ASSUME OutboxHold, NEW o \in Orders, Record(o)
  PROVE \E n \in 1..2 : Contract!Record(o, n)
<1>1. PICK n : n = IF Len(outbox[o]) = Revisions - 1 THEN 2 ELSE 1
  OBVIOUS
<1>2. /\ outbox' = [outbox EXCEPT ![o] = outbox[o] \o [i \in 1..n |-> Row("pending", NoRelay, "free")]]
      /\ Len(outbox[o]) + 1 <= Revisions /\ UNCHANGED <<log, settled>>
  BY <1>1 DEF Record
<1>3. outbox \in [Orders -> Seq(RowType)] /\ Len(outbox[o]) \in Nat /\ Revisions \in Nat
  BY Types, OutboxAssumption
<1>4. n \in 1..2 /\ Len(outbox[o]) + n <= LastFact
  <2>1. CASE Len(outbox[o]) = Revisions - 1
    BY <1>1, <1>3, <2>1 DEF LastFact
  <2>2. CASE Len(outbox[o]) # Revisions - 1
    BY <1>1, <1>2, <1>3, <2>2 DEF LastFact
  <2> QED
    BY <2>1, <2>2
<1> DEFINE added == [i \in 1..n |-> Row("pending", NoRelay, "free")]
<1>5. added \in Seq(RowType) /\ Len(added) = n
  BY <1>4 DEF Row, RowType
<1> HIDE DEF added
<1>6. Len(outbox[o] \o added) = Len(outbox[o]) + n
  BY <1>3, <1>5
<1>7. RecordedCount' = [RecordedCount EXCEPT ![o] = RecordedCount[o] + n]
  BY <1>2, <1>3, <1>6 DEF RecordedCount, added
<1>8. RecordedCount[o] + n <= LastFact
  BY <1>4 DEF RecordedCount
<1>9. Logged' = Logged
  BY <1>2 DEF Logged
<1> QED
  BY <1>2, <1>4, <1>7, <1>8, <1>9, SeenStays DEF Contract!Record

\* Handling an outcome settles an order whose facts were all seen, or changes
\* nothing.
LEMMA HandleImplements ==
  ASSUME OutboxHold, Handle
  PROVE UNCHANGED <<RecordedCount, SeenCount, settled>> \/ \E o \in Orders : Contract!SettleOutcome(o)
<1>1. PICK o : o = Delivery[1]
  OBVIOUS
<1>2. /\ consumer.committed < Len(log["outcome"]) /\ settled' = [settled EXCEPT ![o] = ApplyOutcome(o)]
      /\ UNCHANGED <<outbox, log>>
  BY <1>1 DEF Handle
<1>3. /\ o \in Orders /\ Delivery \in Logged /\ Delivery[1] = o /\ Delivery[2] = LastFact
      /\ settled \in [Orders -> Nat] /\ LastFact \in Nat \ {0} /\ Logged \subseteq Recorded
  BY <1>1, <1>2, DeliveryIs, Types
<1>4. RecordedCount' = RecordedCount /\ SeenCount' = SeenCount
  <2>1. Logged' = Logged
    BY <1>2 DEF Logged
  <2> QED
    BY <1>2, <2>1, SeenStays DEF RecordedCount
<1>5. CASE settled[o] > 0
  BY <1>2, <1>3, <1>4, <1>5 DEF ApplyOutcome
<1>6. CASE settled[o] = 0
  <2>1. settled' = [settled EXCEPT ![o] = 1]
    BY <1>2, <1>6 DEF ApplyOutcome
  <2>2. <<o, LastFact>> \in Logged
    BY <1>3, FactParts
  <2>3. \A n \in 1..(LastFact - 1) : <<o, n>> \in Logged
    BY <1>3 DEF OutboxHold, CommittedIsSettled, FirstSeenInOrder
  <2>4. ASSUME NEW n \in 1..LastFact PROVE n \in SeenOf(o)
    BY <1>3, <2>2, <2>3 DEF SeenOf
  <2>5. SeenOf(o) = 1..LastFact
    BY <2>4 DEF SeenOf
  <2>6. SeenCount[o] = LastFact
    BY <1>3, <2>5, FirstNumbers DEF SeenCount
  <2> QED
    BY <1>3, <1>4, <1>6, <2>1, <2>6 DEF Contract!SettleOutcome
<1> QED
  BY <1>3, <1>5, <1>6

\* Every step of the outbox is a step of the contract, or none.
LEMMA StepImplements ==
  ASSUME OutboxHold, OutboxHold', [OutboxNext]_vars
  PROVE [Contract!FactsNext]_(Contract!factVars)
<1> DEFINE Stutter == UNCHANGED <<RecordedCount, SeenCount, settled>>
<1>1. ASSUME NEW r \in Relays, Claim(r) \/ ClaimFails(r) PROVE Stutter
  <2>1. PICK f \in Candidates(r) : SaveRow(f, Row("pending", r, "live"))
    BY <1>1 DEF Claim, ClaimFails, ClaimOrderFact
  <2>2. UNCHANGED <<log, settled>>
    BY <1>1 DEF Claim, ClaimFails, ClaimOrderFact
  <2> QED
    BY <2>1, <2>2, Claimable, RowSaved, NothingSeen
<1>2. ASSUME NEW r \in Relays, MarkPublished(r) \/ Retry(r) PROVE Stutter
  <2>1. relay[r].fact \in Recorded
    BY <1>2 DEF MarkPublished, Retry, OutboxHold, BatchesKept, BatchKept
  <2>2. UNCHANGED outbox \/ \E row : SaveRow(relay[r].fact, row)
    BY <1>2 DEF MarkPublished, Retry
  <2>3. UNCHANGED <<log, settled>>
    BY <1>2 DEF MarkPublished, Retry
  <2>4. \A o \in Orders : Len(outbox'[o]) = Len(outbox[o])
    BY <2>1, <2>2, RowSaved
  <2> QED
    BY <2>3, <2>4, NothingSeen
<1>3. ASSUME NEW f \in Facts, LeaseRunsOut(f) PROVE Stutter
  <2>1. f \in Recorded /\ \E row : SaveRow(f, row)
    BY <1>3 DEF LeaseRunsOut
  <2>2. UNCHANGED <<log, settled>>
    BY <1>3 DEF LeaseRunsOut
  <2> QED
    BY <2>1, <2>2, RowSaved, NothingSeen
<1>4. ASSUME UNCHANGED <<outbox, log, settled>> PROVE Stutter
  BY <1>4, NothingSeen
<1>5. ASSUME NEW r \in Relays, Publish(r) PROVE Stutter \/ \E o \in Orders : Contract!See(o)
  <2>1. PICK f : f = relay[r].fact
    OBVIOUS
  <2>2. f \in Recorded /\ log' = [log EXCEPT ![KindOf(f)] = Append(log[KindOf(f)], f)]
        /\ UNCHANGED <<outbox, settled>>
    BY <1>5, <2>1 DEF Publish, Sending, OutboxHold, BatchesKept, BatchKept
  <2>3. Logged' = Logged \cup {f}
    BY <2>2, LogAppends
  <2> QED
    BY <2>2, <2>3, SeenGrows, FactParts
<1>6. ASSUME NEW f \in Facts, Arrive(f) PROVE Stutter \/ \E o \in Orders : Contract!See(o)
  <2>1. f \in Recorded /\ log' = [log EXCEPT ![KindOf(f)] = Append(log[KindOf(f)], f)]
        /\ UNCHANGED <<outbox, settled>>
    BY <1>6, Types DEF Arrive
  <2>2. Logged' = Logged \cup {f}
    BY <2>1, LogAppends
  <2> QED
    BY <2>1, <2>2, SeenGrows, FactParts
<1>7. ASSUME NEW o \in Orders, Record(o) PROVE \E n \in 1..2 : Contract!Record(o, n)
  BY <1>7, RecordImplements
<1>8. ASSUME Handle PROVE Stutter \/ \E o \in Orders : Contract!SettleOutcome(o)
  BY <1>8, HandleImplements
<1>9. Stutter \/ Contract!FactsNext
  <2>1. CASE \E r \in Relays : Claim(r) \/ ClaimFails(r) \/ MarkPublished(r) \/ Retry(r)
    BY <1>1, <1>2, <2>1
  <2>2. CASE \E r \in Relays : BeginDrain(r) \/ EndDrain(r) \/ EncodeFails(r) \/ PublishFails(r) \/ CrashRelay(r)
    BY <1>4, <2>2 DEF BeginDrain, EndDrain, EncodeFails, PublishFails, CrashRelay
  <2>3. CASE \E r \in Relays : Publish(r)
    BY <1>5, <2>3 DEF Contract!FactsNext
  <2>4. CASE \E f \in Facts : Arrive(f) \/ LeaseRunsOut(f)
    BY <1>3, <1>6, <2>4 DEF Contract!FactsNext
  <2>5. CASE \E o \in Orders : Record(o)
    BY <1>7, <2>5 DEF Contract!FactsNext
  <2>6. CASE Handle
    BY <1>8, <2>6 DEF Contract!FactsNext
  <2>7. CASE Subscribe \/ Commit \/ SubscriptionStops \/ UNCHANGED vars
    BY <1>4, <2>7 DEF Subscribe, Commit, SubscriptionStops, vars
  <2> QED
    BY <2>1, <2>2, <2>3, <2>4, <2>5, <2>6, <2>7 DEF OutboxNext, RelayStep
<1> QED
  BY <1>9 DEF Contract!factVars

\* The outbox, its relays and the subscription implement the contract of
\* ordered facts: consumers first see an order's facts in the order in which
\* they were recorded and settle its outcome once, whatever is repeated.
THEOREM OrderedFactsImplemented == OutboxSpec => ImplementsOrderedFacts
<1>1. OutboxInit => Contract!FactsInit
  <2> SUFFICES ASSUME OutboxInit PROVE Contract!FactsInit
    OBVIOUS
  <2>1. Logged = {}
    BY DEF OutboxInit, Logged, Range, Topics
  <2>2. \A o \in Orders : SeenOf(o) = {}
    BY <2>1 DEF SeenOf
  <2>3. SeenCount = [o \in Orders |-> 0]
    BY <2>2, FS_EmptySet DEF SeenCount
  <2>4. RecordedCount = [o \in Orders |-> 0]
    BY DEF RecordedCount, OutboxInit
  <2> QED
    BY <2>3, <2>4 DEF Contract!FactsInit, OutboxInit
<1>2. OutboxHold /\ OutboxHold' /\ [OutboxNext]_vars => [Contract!FactsNext]_(Contract!factVars)
  BY StepImplements
<1>3. OutboxSpec => OutboxInit /\ [][OutboxNext]_vars
  BY DEF OutboxSpec
<1> QED
  BY <1>1, <1>2, <1>3, OutboxSafe, PTL DEF ImplementsOrderedFacts, Contract!FactsSpec
=============================================================================
