------------------------------- MODULE Outbox -------------------------------
(***************************************************************************)
(* The outbox of the order service, the relays that publish it to Kafka,   *)
(* and the subscription of the credit service that consumes the outcomes.  *)
(*                                                                         *)
(* A fact is a pair <<order, n>>: the n-th fact the order recorded, in the *)
(* order of (revision, ordinal). Every revision records a status change;   *)
(* the last one also records the outcome, in the same transaction.         *)
(*                                                                         *)
(* Times are kept only as far as the relay compares them. A lease is live  *)
(* until it runs out, and a relay claims against the moment its batch      *)
(* began: what was leased then, or since, is late for that batch even if   *)
(* its lease has run out meanwhile.                                        *)
(***************************************************************************)
EXTENDS Integers, Sequences, SequencesExt, FiniteSets

CONSTANTS Orders,     \* numbered, so that older orders come first
          Revisions,  \* of every order; the last is terminal
          Relays,     \* one per instance of the order service
          Unencodable,\* facts whose payload encode refuses
          BatchLimit, \* of Drain
          MaxFaults   \* bound on stalls, crashes, refused and lost calls

NoRelay == 0

ASSUME OutboxAssumption ==
  /\ Revisions \in Nat \ {0} /\ BatchLimit \in Nat /\ MaxFaults \in Nat
  /\ NoRelay \notin Relays

LastFact == Revisions + 1

VARIABLES
  outbox,    \* order_outbox: the rows of every order, in order
  created,   \* the facts by created_at
  relay,     \* the batch every relay is working on
  wire,      \* messages whose acknowledgement was lost and that may yet arrive
  log,       \* the partition of every topic
  consumer,  \* the credit service's subscription to the outcomes
  settled,   \* how often the outcome of an order changed the credit service
  faults     \* faults so far

vars == <<outbox, created, relay, wire, log, consumer, settled, faults>>

Topics == {"status_changed", "outcome"}
Facts == Orders \X (1..LastFact)
KindOf(f) == IF f[2] = LastFact THEN "outcome" ELSE "status_changed"

\* A row of the outbox is pending or published; its lease is free, live or over.
Row(state, owner, lease) == [state |-> state, owner |-> owner, lease |-> lease]
RowOf(f) == outbox[f[1]][f[2]]
Published(f) == RowOf(f).state = "published"
SaveRow(f, row) == outbox' = [outbox EXCEPT ![f[1]][f[2]] = row]
Recorded == {f \in Facts : f[2] <= Len(outbox[f[1]])}
Logged == UNION {Range(log[t]) : t \in Topics}

\* A relay within Drain: the fact it claimed, the facts this batch may not
\* claim, how many claims are left, and the claims it made.
Batch(pc, fact, late, left, tried) ==
  [pc |-> pc, fact |-> fact, late |-> late, left |-> left, tried |-> tried]
NoFact == <<NoRelay, NoRelay>>
Asleep == Batch("asleep", NoFact, {}, 0, {})

Subscription(pc, committed) == [pc |-> pc, committed |-> committed]

OutboxInit ==
  /\ outbox = [o \in Orders |-> <<>>]
  /\ created = <<>>
  /\ relay = [r \in Relays |-> Asleep]
  /\ wire = {}
  /\ log = [t \in Topics |-> <<>>]
  /\ consumer = Subscription("stopped", 0)
  /\ settled = [o \in Orders |-> 0]
  /\ faults = 0

\* One more fault, while the bound allows it.
Fault == faults < MaxFaults /\ faults' = faults + 1

-----------------------------------------------------------------------------
(* Recording *)

\* A change of the order commits its facts with the order's new revision.
Record(o) ==
  LET n == IF Len(outbox[o]) = Revisions - 1 THEN 2 ELSE 1
      first == Len(outbox[o]) + 1
  IN /\ first <= Revisions
     /\ outbox' = [outbox EXCEPT ![o] = @ \o [i \in 1..n |-> Row("pending", NoRelay, "free")]]
     /\ created' = created \o [i \in 1..n |-> <<o, first + i - 1>>]
     /\ UNCHANGED <<relay, wire, log, consumer, settled, faults>>

-----------------------------------------------------------------------------
(* The relay *)

\* Drain begins: eligibility is frozen at this moment.
BeginDrain(r) ==
  /\ relay[r].pc = "asleep"
  /\ relay' = [relay EXCEPT ![r] =
       Batch("claiming", NoFact, {f \in Recorded : RowOf(f).lease = "live"}, BatchLimit, {})]
  /\ UNCHANGED <<outbox, created, wire, log, consumer, settled, faults>>

\* A lease that ran out is never taken over.
DueFree(r, f) == ~Published(f) /\ RowOf(f).lease = "free"
\* The candidates of the claim: unpublished, free or run out before the batch.
Due(r, f) == ~Published(f) /\ RowOf(f).lease # "live" /\ f \notin relay[r].late

AnyOfOrder(f) == TRUE
\* No unpublished fact of the same order comes before f.
FirstOfOrder(f) == \A n \in 1..(f[2] - 1) : Published(<<f[1], n>>)

Candidates(r) == {f \in Recorded : Due(r, f) /\ FirstOfOrder(f)}

\* f is the oldest of the candidates fs, by created_at.
Oldest(f, fs) == \E i \in 1..Len(created) :
                   created[i] = f /\ \A j \in 1..(i - 1) : created[j] \notin fs

\* A lease taken now is late for every batch under way.
LateFor(f, q) ==
  Batch(q.pc, q.fact, IF q.pc = "asleep" THEN {} ELSE q.late \cup {f}, q.left, q.tried)

\* The lease is stored, whatever Claim reads afterwards; pc is where r goes on.
ClaimOrderFact(r, pc) ==
  LET b == relay[r] IN
  /\ b.pc = "claiming" /\ b.left > 0
  /\ \E f \in Candidates(r) :
       /\ Oldest(f, Candidates(r))
       /\ SaveRow(f, Row("pending", r, "live"))
       /\ relay' = [q \in Relays |->
            IF q # r THEN LateFor(f, relay[q])
            ELSE IF pc = "asleep" THEN Asleep
            ELSE Batch(pc, f, b.late \cup {f}, b.left - 1, b.tried \cup {f})]
  /\ UNCHANGED <<created, wire, log, consumer, settled>>

Claim(r) == ClaimOrderFact(r, "claimed") /\ UNCHANGED faults

\* The reads after the claim fail: the batch ends with the lease taken.
ClaimFails(r) == ClaimOrderFact(r, "asleep") /\ Fault

\* Nothing left to claim, or the batch is full: wait for the next tick.
EndDrain(r) ==
  /\ relay[r].pc = "claiming" /\ (relay[r].left = 0 \/ Candidates(r) = {})
  /\ relay' = [relay EXCEPT ![r] = Asleep]
  /\ UNCHANGED <<outbox, created, wire, log, consumer, settled, faults>>

\* encode: the version is known and the payload agrees with the row.
Encodes(f) == f \notin Unencodable

Goto(r, pc) == relay' = [relay EXCEPT ![r].pc = pc]

EncodeFails(r) ==
  /\ relay[r].pc = "claimed" /\ ~Encodes(relay[r].fact)
  /\ Goto(r, "failed")
  /\ UNCHANGED <<outbox, created, wire, log, consumer, settled, faults>>

Sending(r) == relay[r].pc = "claimed" /\ Encodes(relay[r].fact)

\* Every replica acknowledged the message.
Publish(r) ==
  LET f == relay[r].fact IN
  /\ Sending(r)
  /\ log' = [log EXCEPT ![KindOf(f)] = Append(@, f)]
  /\ Goto(r, "acknowledged")
  /\ UNCHANGED <<outbox, created, wire, consumer, settled, faults>>

\* The call fails: the message is refused, or sent and not acknowledged.
PublishFails(r) ==
  /\ Sending(r) /\ Fault
  /\ wire' \in {wire, wire \cup {relay[r].fact}}
  /\ Goto(r, "failed")
  /\ UNCHANGED <<outbox, created, log, consumer, settled>>

Arrive(f) ==
  /\ f \in wire
  /\ wire' = wire \ {f}
  /\ log' = [log EXCEPT ![KindOf(f)] = Append(@, f)]
  /\ UNCHANGED <<outbox, created, relay, consumer, settled, faults>>

\* The row is r's under a lease that has not run out.
Owns(r, f) == RowOf(f).owner = r /\ RowOf(f).lease = "live" /\ ~Published(f)

\* Published: a lease lost meanwhile is an error and ends the batch.
MarkPublished(r) ==
  LET f == relay[r].fact IN
  /\ relay[r].pc = "acknowledged"
  /\ IF Owns(r, f)
     THEN /\ SaveRow(f, Row("published", NoRelay, "free"))
          /\ Goto(r, "claiming")
     ELSE /\ relay' = [relay EXCEPT ![r] = Asleep]
          /\ UNCHANGED outbox
  /\ UNCHANGED <<created, wire, log, consumer, settled, faults>>

\* Retry: the fact is put off by a short lease of the same token, and the
\* batch goes on with other orders; a lost token changes nothing.
Retry(r) ==
  LET b == relay[r]
      f == b.fact
      mine == RowOf(f).owner = r /\ ~Published(f)
  IN /\ b.pc = "failed"
     /\ IF mine
        THEN /\ SaveRow(f, Row("pending", r, "live"))
             /\ relay' = [q \in Relays |->
                  IF q # r THEN LateFor(f, relay[q])
                  ELSE Batch("claiming", f, b.late \cup {f}, b.left, b.tried)]
        ELSE Goto(r, "claiming") /\ UNCHANGED outbox
     /\ UNCHANGED <<created, wire, log, consumer, settled, faults>>

\* The process stops, or a database call of the batch fails.
CrashRelay(r) ==
  /\ relay[r].pc # "asleep" /\ Fault
  /\ relay' = [relay EXCEPT ![r] = Asleep]
  /\ UNCHANGED <<outbox, created, wire, log, consumer, settled>>

\* A lease runs out. While its owner still works on the fact that is a stall
\* of the owner, which publishes and records within a fraction of the lease.
LeaseRunsOut(f) ==
  /\ f \in Recorded /\ RowOf(f).lease = "live"
  /\ SaveRow(f, Row(RowOf(f).state, RowOf(f).owner, "over"))
  /\ IF \E r \in Relays : relay[r].fact = f /\ relay[r].pc \in {"claimed", "acknowledged", "failed"}
     THEN Fault ELSE UNCHANGED faults
  /\ UNCHANGED <<created, relay, wire, log, consumer, settled>>

-----------------------------------------------------------------------------
(* The subscription *)

\* consume: a new subscriber reads on from the committed offset.
Subscribe ==
  /\ consumer.pc = "stopped"
  /\ consumer' = [consumer EXCEPT !.pc = "reading"]
  /\ UNCHANGED <<outbox, created, relay, wire, log, settled, faults>>

Delivery == log["outcome"][consumer.committed + 1]

SettledAgain(o) == settled[o] + 1
\* ApplyOutcome: a settled reservation never changes again.
ApplyOutcome(o) == IF settled[o] > 0 THEN settled[o] ELSE settled[o] + 1

Handle ==
  /\ consumer.pc = "reading" /\ consumer.committed < Len(log["outcome"])
  /\ settled' = [settled EXCEPT ![Delivery[1]] = ApplyOutcome(Delivery[1])]
  /\ consumer' = [consumer EXCEPT !.pc = "handled"]
  /\ UNCHANGED <<outbox, created, relay, wire, log, faults>>

\* A commit before the handler: a stop in between skips the delivery.
CommitEarly ==
  /\ consumer.pc = "reading" /\ consumer.committed < Len(log["outcome"])
  /\ consumer' = Subscription("reading", consumer.committed + 1)
  /\ UNCHANGED <<outbox, created, relay, wire, log, settled, faults>>

\* The offset is committed only after the handler succeeded.
Commit ==
  /\ consumer.pc = "handled"
  /\ consumer' = Subscription("reading", consumer.committed + 1)
  /\ UNCHANGED <<outbox, created, relay, wire, log, settled, faults>>

\* A fetch, a handler or a commit fails, or the process stops.
SubscriptionStops ==
  /\ consumer.pc # "stopped" /\ Fault
  /\ consumer' = [consumer EXCEPT !.pc = "stopped"]
  /\ UNCHANGED <<outbox, created, relay, wire, log, settled>>

-----------------------------------------------------------------------------
(* The specification *)

RelayStep(r) ==
  \/ BeginDrain(r) \/ Claim(r) \/ EndDrain(r) \/ EncodeFails(r)
  \/ Publish(r) \/ MarkPublished(r) \/ Retry(r)

OutboxNext ==
  \/ \E o \in Orders : Record(o)
  \/ \E r \in Relays : RelayStep(r) \/ ClaimFails(r) \/ PublishFails(r) \/ CrashRelay(r)
  \/ \E f \in Facts : Arrive(f) \/ LeaseRunsOut(f)
  \/ Subscribe \/ Handle \/ Commit \/ SubscriptionStops

ConsumerStep == Subscribe \/ Handle \/ Commit

\* Run ticks for ever, time passes, and consume starts a new subscriber
\* whenever one stops. Nothing makes a late message arrive.
OutboxFairness ==
  /\ \A r \in Relays : WF_vars(RelayStep(r))
  /\ \A f \in Facts : WF_vars(LeaseRunsOut(f))
  /\ WF_vars(ConsumerStep)

OutboxSpec == OutboxInit /\ [][OutboxNext]_vars /\ OutboxFairness

-----------------------------------------------------------------------------
(* Properties *)

RowType == [state : {"pending", "published"}, owner : Relays \cup {NoRelay},
            lease : {"free", "live", "over"}]
BatchType ==
  [pc : {"asleep", "claiming", "claimed", "acknowledged", "failed"}, fact : Facts \cup {NoFact},
   late : SUBSET Facts, left : 0..BatchLimit, tried : SUBSET Facts]

\* The shape of the rows, the relays, the topic and the consumer: nothing is
\* claimed, sent or logged that was not recorded.
OutboxTypeOK ==
  /\ outbox \in [Orders -> Seq(RowType)]
  /\ \A o \in Orders : Len(outbox[o]) <= LastFact
  /\ created \in Seq(Facts) /\ Range(created) = Recorded
  /\ relay \in [Relays -> BatchType]
  /\ \A r \in Relays : relay[r].late \subseteq Recorded
  /\ log \in [Topics -> Seq(Facts)]
  /\ wire \subseteq Recorded /\ Logged \subseteq Recorded
  /\ consumer \in [pc : {"stopped", "reading", "handled"}, committed : 0..Len(log["outcome"])]
  /\ settled \in [Orders -> Nat]
  /\ faults \in 0..MaxFaults

\* A fact the outbox calls published is in its topic (relay.go: the row is
\* marked only after the broker acknowledged it), and the relay never leaves a
\* fact of an order behind: what is published is a prefix of what was recorded.
PublishedIsLogged ==
  \A f \in Recorded : Published(f) => f \in Logged /\ FirstOfOrder(f)

\* However often relays stall, crash and repeat themselves, a consumer sees
\* every fact for the first time after all earlier facts of its order (the
\* claim's NOT EXISTS), so the outcome never overtakes a status change.
FirstSeenInOrder ==
  \A f \in Logged : \A n \in 1..(f[2] - 1) : <<f[1], n>> \in Logged

\* An offset is committed only for outcomes that were applied, and no
\* redelivery or repeated publication applies one twice (outcome.go).
AppliedOnce ==
  /\ \A i \in 1..consumer.committed : settled[log["outcome"][i][1]] = 1
  /\ \A o \in Orders : settled[o] <= 1

\* Behind the committed offset every outcome was applied, once; and a row is
\* marked as published only behind its acknowledgement, never ahead of an
\* earlier fact of its order.
CommittedIsSettled == OutboxTypeOK /\ AppliedOnce /\ PublishedIsLogged /\ FirstSeenInOrder

\* A fact put off by a batch is not claimed again by the same batch, so one
\* order that cannot be published does not use up the batch (relay.go: "a
\* deferred fact cannot become due again").
OneClaimPerBatch ==
  [][\A r \in Relays :
       relay[r].pc = "claiming" /\ relay'[r].pc = "claimed" => relay'[r].fact \notin relay[r].tried]_vars

\* The contract of the outbox (OrderedFacts): how many facts of an order were
\* recorded, and how many of them consumers have seen.
RecordedCount == [o \in Orders |-> Len(outbox[o])]
SeenOf(o) == {n \in 1..LastFact : <<o, n>> \in Logged}
SeenCount == [o \in Orders |-> Cardinality(SeenOf(o))]
Contract == INSTANCE OrderedFacts WITH recorded <- RecordedCount, seen <- SeenCount

\* Consumers first see the facts of an order in the order in which they were
\* recorded, and settle its outcome once, whatever the relays repeat.
ImplementsOrderedFacts == Contract!FactsSpec
=============================================================================
