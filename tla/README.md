# A TLA+ model of FoC

FoC is a campus errand service: a requester posts an order with a reward in
credits, couriers accept it or propose a higher price, one of them picks the
item up and delivers it, and the credits move from the requester to the
courier. It is built of Go services with one PostgreSQL database each, which
call each other by RPC and exchange facts over Kafka.

This directory holds TLA+ specifications of the services in which something
can go wrong that a test would hardly reach: transactions that interleave, calls
that are lost or late, processes that stop between two steps, loops that must
get on. `PROJECT.json` maps every definition to the lines it models and lists
the hazards of the code, each with the properties that are about it.

## 1. Inventory

### Credit service (`credit-service/internal`)

- **State.** `accounts` (balance, reserved), the ledger, `reservations` (one
  per order: HELD, ASSIGNED, RELEASED, SETTLED), `assignments` (what an
  accepted attempt adjusted, and whether it was reverted) and the recorded
  `operations`, one per operation key, which answer a repeated call.
- **Operations.** `Open` (users.create, or the first reservation), `Reserve`,
  `AdjustReservation`, `RevertAdjustment`, `ReleaseReservation`, `ApplyOutcome`
  for the order.outcome event, and the pages of the ledger a user reads.
- **Hard.** A revert or a release that overtakes what it undoes; replays after
  the state moved on; two orders of one requester; a settlement that touches
  two accounts and one reservation; accounts locked in opposite orders.
- **Correct when** no account is overdrawn, what is reserved is the sum of the
  open holds, each operation takes effect at most once, a closed reservation
  stays closed, and credits are neither made nor lost.

### Order service (`order-service/internal`)

- **Admission and images** (`order/creation.go`, `order/idempotency.go`,
  `order/itemimages.go`). Idempotency keys, images with their objects. A request
  is checked, prepared with remote lookups, and admitted in one transaction.
- **Sagas** (`order/creationrecovery.go`, `order/assignment*.go`,
  `order/cancellation*.go`). A workflow row with a phase, a generation and a
  lease; an RPC to Credit between two transactions; recovery loops that take over.
- **Commands** (`order/assignment.go`, `order/cancellation.go`). MakeOffer,
  AcceptOrder, AcceptOffer and CancelConfirmed, with keys and confirmed revisions.
- **The aggregate** (`order/transitions.go`, `order/progress.go`,
  `order/events.go`, `order/mutation.go`, `order/postgres.go`). The table of
  transitions and the transaction that writes order, offers, history, audit and facts.
- **Timers** (`order/*timers.go`). Expiry and delivery deadlines, found by a
  paging scanner with backoff.
- **Delivery proofs** (`order/proof*.go`, `order/postgresproofs.go`). Uploads,
  fences, receipts, confirmations, outages; handlers, a recovery loop, a cleaner
  and a prober, with object storage between transactions.
- **Readers** (`order/postgresreader.go`). Lists, orders and offers as shown.
- **Outbox** (`outbox/`). Facts are claimed with a lease, published and marked.
- **Hard.** Between two transactions the order may have changed, the lease may
  have been lost and the answer may never come; users repeat and cancel at any
  of these points; timers race late answers.
- **Correct when** an order that a courier relies on is funded, a refusal holds,
  a command counts once, everything that was begun ends, and an outcome is
  never one that Credit must refuse.

### User service (`user-service/internal`)

Accounts, roles, single-use links, refresh sessions, reviews with their
statistics, an outbox for users.create. Transactions run under READ COMMITTED
with a few row locks. *Correct when* a link or a cookie counts once, a change of
role is permitted by the roles in force when it is committed, and statistics are
those of the live reviews.

### Supplier service (`supplier-service/internal`)

Locations, proposals and their review, disablements, edits with masks, a seed
import, retained idempotency keys. *Correct when* what is approved is what was
reviewed, intervals do not overlap and every place computes their state alike.

### Communication service (`communication-service/internal`)

Telegram links, a projection of orders from Kafka, a relay of chat messages in
stages, notices. *Correct when* a message reaches the participant it was meant
for, once, and notices are neither lost nor repeated without need.

### Shared

`pkg/kafka` (publisher, subscriber), `pkg/auth` (a cache of public keys), and
the `main` of every service, which starts and joins the workers of all the above.

## 2. Modules

| module | models | part of the runs |
| --- | --- | --- |
| `Sums`, `Payout` | sums over 1..n; the lateness rule | through `Credit` |
| `Credit` | accounts, reservations, assignments, operations | `credit`, and inside the sagas |
| `Escrow` | what Credit promises: purses and pots | refined by `Credit` |
| `Ledger` | ledger entries, pages, answers to the order service | `credit` |
| `OrderCreation`, `OrderLifecycle` | the sagas, each with `Credit` | `sagas`, `live` |
| `Commands` | commands on an open order and their repeats | `sagas` |
| `Admission` | Create up to its admission; item images and their cleaner | `requests`, `live` |
| `Aggregate` | transitions, repeats, and the transaction that writes them | `requests` |
| `DeliveryProof` | uploads, receipts, cleaner, probers, delivery timer | `delivery`, `live` |
| `Readers` | lists, orders and offers read while orders change | `delivery` |
| `Outbox` | relays, topic and the consumer of outcomes | `events`, `live` |
| `OrderedFacts` | what the outbox promises | refined by `Outbox` |
| `Onboarding` | users.create from registration to the opened account | `events`, `live` |
| `Notices` | consumer, projection, Telegram and records | `events`, `live` |
| `TimerScan` | the lifecycle scanner | `events`, `live` |
| `Process` | start, serving and end of each service | `events`, `live` |
| `KeyCache` | the authenticator's cache of public keys | `events` |
| `Sessions`, `Accounts`, `Reviews` | the user service | `users` |
| `Linking` | Telegram codes and links | `users` |
| `AdditionRequests`, `Disablements`, `LocationAdmin` | the supplier service | `supplier` |
| `ChatRelay` | the relay of chat messages, projection and retention | `chat` |
| `CreditSafety` | theorems on sums, types and books of `Credit` | TLAPS |
| `CreditHistory` | theorems on its records, balances and the refinement of `Escrow` | TLAPS |
| `LifecycleProofs` | theorems on `OrderLifecycle`, with `Credit` inside | TLAPS |
| `OutboxProofs` | theorems on `Outbox`, and the refinement of `OrderedFacts` | TLAPS |
| `SessionsProofs`, `AdmissionProofs` | theorems on `Sessions` and `Admission` | TLAPS |
| `DeliveryProofs`, `ChatProofs` | theorems on `DeliveryProof` and `ChatRelay` | TLAPS |

**One run, several parts.** A suite `MC*` instantiates several modules, or one
module several times with other constants. Its first state chooses which
instance moves, in the variable `part`; the variables of the others stay as they
are. A property of the suite is a conjunction of what it says of each part.
`MCCredit`, `MCSagas`, `MCEvents`, `MCUsers`, `MCRequests`, `MCDelivery` and
`MCChat` extend the module that has theorems, so that the run evaluates its
assumptions and checks the very formulas that are proved. In `MCCredit`,
`MCSagas`, `MCRequests` and `MCDelivery` the parts share the constants of that
module, and `Scope` says which of them a part makes use of (`InScope`): which
orders, users and couriers its calls name, how old orders and images get, how
many workers, photographs, bytes, outages and faults there are. In `MCChat` the parts are members of the constant `Scenes`: what the
order service and Telegram have in store for the chat.

### Credit, Escrow, Ledger

A transaction on an order's reservation is serialised by its row lock and by
those of the accounts, so every operation is one action. `operations` maps an
operation key (kind, order, assignment) to its recorded status, payload and
the revision of the reservation it returned; `Recorded`, `ReplayAnswer` and
`NoEffect` are the replay path of `mutate`. A refusal for missing credits is
recorded too (`SaveInsufficient`), which is why a late repeat stays refused.
Tombstones, the rows that a revert or a release writes when it finds nothing
to undo, are ordinary rows.

`Escrow` is the abstract specification: users have purses, an order has a pot
that is filled from its owner's purse, resized, and closed once, by paying a
part of it to one user and the rest back to its owner. `ImplementsEscrow`
states that `Credit` implements it: no replay, refusal or tombstone moves
credits. The run checks it and `CreditHistory` proves it.

`Ledger` keeps the entries. Their time is read behind the lock of the order and
before those of the accounts, so an entry may be posted *below* others that a
user has seen (`MaxWaits`). It follows one assignment.

### OrderCreation, OrderLifecycle, Commands

The sagas instantiate `Credit` and let its actions happen only as a delivered
RPC or event. A worker is a process between the two transactions of
`ProcessCreation`, `ProcessAssignment` or `ProcessCancellation`: it claims
(with the generation), calls, reads, and finishes (comparing generation, phase
and lease). A call can be answered, or time out; then it is kept in `sent` and
may still arrive at any later time. A worker may crash, and a lease may run out
under one that is merely slow. The request and the recovery loop run the same
code, so both are workers.

`Commands` looks at the same order from its callers: a command is a transaction
that resolves its key, checks and writes, and a second one that reads the answer;
answers are lost and commands repeated. The outcome of a workflow is a step of
its environment. A courier who loses leaves one rejected attempt
behind, and contends again without a retained identity (`HasRejectedAcceptance`);
the branch of `AcceptOrder` for a closed order is not reached, for an
earlier check returns.

### Admission, Aggregate, Readers

`Admission` splits `Create` at its remote lookups. The advisory lock of a
caller makes the transactions of one caller atomic; `Prepare`'s reads are one
step. `Aggregate` has a step for every statement of `Apply`, any of which may
fail, and every transition, actor and amendment; the offers are those of
`OrderLifecycle`. `Readers` splits a call at its statements and pages; the writers
are coarse, with "assigned" and "closed" for several statuses.

### DeliveryProof

One order from its pickup (clock 0) on. Handlers that leave the transaction to
sign a URL or to read an object are split at that point. Requests that differ
in nothing but their identity are members of a set (`signing`, `verifying`,
`verified`, `seen`); the processing of a receipt has workers. Storage is the
environment: it fails and recovers, and a PUT made under a URL may end at any
later time. A prober probes, reads the time of the database and publishes in
three steps, between which others come in: an object left by an earlier probe is
deleted first (`DeleteProbe`), the answer is counted (`ProbeOnce`), the outage is
dated by a time that is read *after* the answer, within the context of the probe
(`ReadServerTime`, `ProbeTimeout`), and replaces whatever was published since
(`Publish`). Either statement may fail, and the count stays (`PublishFails`); a
restart forgets it.

### Outbox, Onboarding, Notices, TimerScan, Process, KeyCache

`Outbox` has relays with leases, a topic and a consumer with offsets; its
contract `OrderedFacts` is a set of recorded facts of which consumers first see
those of one order in order, and settle each once. `Onboarding` is the relay of
the user service, the consumer at Credit, and transactions that open and lock
accounts one by one. `Notices` ends in Telegram, which may refuse, and in
records that may not be saved. `Process` treats the services alike and takes
their differences from operators (`CancelsRequests`, `FatalExits`,
`DiesOfSignal`, ...): order and credit pass the process context to their
requests, so a signal cancels them; a failed listener makes order's `serve`
return with the other open; user and communication leave on a fatal error past
their defers; supplier panics, which runs them, and handles no signal. In `KeyCache` requests refresh one at a
time under the mutex; token expiry is left out.

### Sessions, Accounts, Reviews, Linking; supplier; chat

Handlers are split into statements wherever another transaction can come in
between; a write under READ COMMITTED sees what is committed when it gets the
row lock. `ChatRelay` has the stages of a message, the continuations in memory,
which a restart loses, and the projection fed by replayed facts. Its `scene`, the
revisions of every order and the updates Telegram holds, is chosen in the first
state and never changes; the theorems hold for any set of scenes.

### Abstractions

- Retry delays are "due at any time", which allows every order of retries.
- An aborted transaction changes nothing, so its retry is not seen.
- Texts, reasons, amounts of text and images are model values or left out.
- `OrderLifecycle.offers` keeps the last counteroffer of each courier.
- Administrative cancel and unassign are in the transition table (`Aggregate`),
  but no code performs them.
- `DeliveryProof`: the unattended flag, the hourly budget of identities, the
  pacing of retries and the scan for candidates of the cleaner are left out;
  all conditions under the lock are there. One clock stands for that of the
  database and of the contexts.
- `Commands`: suspended callers are refused before anything is read
  (`assignmentCaller`), so none of the callers is suspended.
- `AdditionRequests`: the total of a list is a second statement that nothing
  relies on, and is left out.
- `Admission`: `CleanupOnce` stops at the first storage failure; failures are
  transient.
- `Accounts`: the development seeder, warnings, favourites and the store
  operations that nothing calls are left out. Bootstrap administrators emit no
  event (user-service/README.md).
- `LocationAdmin`: a change of nothing but categories by the import leaves the
  revision of the location alone, as in the code.
- `ChatRelay`: duplicates of an order's facts arrive within the retention of its
  end, and a step of a handler takes far less than the grace period.
- `Process`: one worker stands for all loops of a service, and `LoadConfig` of
  order for those of all.
- A historical courier without offers gets not_found from ListOffers. The open
  list of others' orders may miss one across pages; only own lists are claimed
  to be complete.

## 3. Runs

| run | parts | shows |
| --- | --- | --- |
| `credit` | two orders; one order with two assignments; ledger | solvency, backing, truthful replays, finality, refinement of `Escrow` |
| `sagas` | creation, lifecycle, offers, commands | both services agree about an order; a command counts once |
| `requests` | admission, images, aggregate, amendments | one order per key, records that agree, a past that stays |
| `delivery` | one, two, outage, pages, offers | an admitted receipt is kept, reads show one state |
| `events` | outbox, relaying, onboarding, opening, notices, scan, process, keys | order of facts, offsets, locks, backoffs, shutdown, keys |
| `users` | sessions, accounts, domains, reviews, linking | one session per sign-in, permitted changes, current statistics |
| `supplier` | proposals, disablements, retry, locations | approvals as reviewed, one view of a state, exact changes |
| `chat` | relay, menu | the right participant, once |
| `live` | creation, lifecycle, proof, admission, scan, outbox, onboarding, notices, process | what is awaited happens, nothing is left over |
| `logout_all`, `suspension`, `chat_silent` | parts of `users` and `chat` | violated, see Findings |

**Bounds.** Two of a kind are what a race needs: two workers are one that stalls
and one that takes over, two transactions are one that reads what the other
writes, two relays are one that lost its lease. Three credits are enough for
one order and not for two; amounts of one, two and four make reserves and
adjustments that succeed and are refused. Two assignments let an attempt follow
one that was rejected, reverted or withdrawn; a third would start from the state
in which the second did. Elapsed times are in time, late by half and at twice
the allowed duration. `MaxFaults` counts lost answers, failed reads, crashes and
stalls: two faults are a call that arrives late and a worker that lost its
lease. In `DeliveryProof` two receipts are one more than the invariants allow,
and the clock passes the deadline by the lifetime of a URL. Its outage has two
probers, three publications, one fault and one receipt: enough for an outage that
is published, revoked or replaced by an older answer, and used late; probers are
followed until the receipt is admitted. A list is overtaken by one write, the
offers of an order by two. The supplier's callers are an owner, a suspended user
and an administrator; disablements are edited by masks of one and of both ends. In `users` one of the
three users edits a profile, on which nothing else depends. In
`chat` one scene is an order whose courier changes, the other two orders, a menu,
a choice and a reply to a relayed message. `MaxRevision` 6 in
`Commands` is an order that is accepted, given up, accepted again and
cancelled; `Aggregate` has enough for an order that is assigned twice, picked
up, failed and amended. Pages are of one or two rows, so that a list ends at
a full page.

**Deadlock** is not checked: an order that is closed and settled has nothing
left to do, and the bounded instances stop when their calls are used up. Waiting
for each other is a property where it can happen (`AccountsNotDeadlocked` within
`CommittedIsOpened`, `StatsCurrent`, `WaitsEnd`).

**Symmetry** is used for names that are interchangeable (workers, assignments,
photographs, transactions), in runs that check safety only.

**Fairness** (`live`). Weak fairness of the workers (a process that runs takes
its next step, and recovery loops scan every second or so), of leases running
out, of relays and consumers, of the cleaners, the timers and time, and of
storage coming back; in `Process` of its steps, its workers and the handlers of
requests. `Onboarding` assumes strong fairness of publishing and of opening and
committing an account: failures may repeat, but not for ever. Nothing is assumed of users, and faults are finite:
without that no retry need ever succeed. The outbox gets on only while fewer
orders are blocked by facts that can not be encoded than fit in a batch (50);
the instance has one.

## 4. Properties

Each is stated in words above its definition, in the suite or in the module it
is about; the parts it is made of are stated in the modules. Each has a mutant, a definition changed as a
plausible bug would change it, under which TLC finds it violated; the mutants
stand in front of what they replace and are marked as such.

- `credit`: `TypeOK`, `Solvent`, `HoldsBacked`, `OffersAgree`; `BooksBalance`
  (every balance is explained, no credit is made or lost); `ReplayTruthful`;
  `LedgerAgrees` (entries, pages and answers); `DecisionsFinal`
  (`RefusedStaysRefused`, `TerminalIsFinal`, `RevertIsFinal`); `ImplementsEscrow`.
- `sagas`: `SagasPaidFor` (a creation holds credits exactly while it is open, and
  retries are bounded by what goes wrong), `AssignmentsAgree`, `OutcomeAccepted`,
  `CommandsOnce`.
- `requests`: `OneOrderPerKey` (with `PendingIsPinned`, `AnsweredWithOwn`),
  `ImagesKept`, `RecordsAgree`, `PastIsKept` (with `NotRefused` of `Admission`).
- `delivery`: `AdmittedIsKept`, `DeliveredOnce`, `ReadsAgree`,
  `ExceptionIsCertified`.
- `events`: `CommittedIsSettled`, `CommittedIsOpened`, `CommittedIsTold`,
  `StopsCleanly`, `KeysCurrent`, `PacingKept` (with `OneClaimPerBatch`),
  `ImplementsOrderedFacts`.
- `users`: `OneLivePerSignIn`, `RoleStaleOnce`, `StatsCurrent`, `LinksHold`,
  `AdminsHold`.
- `supplier`: `ApprovedAsReviewed`, `StatesAgree`, `ChangesExact`.
- `chat`: `RelayedToParticipant`, `RelayedOnce`.
- `live`: `WaitsEnd`, `NothingLeftOver`.

Observations the properties make precise. Credit alone fences a late
adjustment: a read that shows a held reservation proves nothing while a call is
under way, so an attempt is rejected only after an acknowledged revert. A
courier who asked to withdraw must not pick up the item meanwhile, for Credit
may have given the reward back already. A courier who was told that an
acceptance is rejected keeps that answer, because the loser's key is retained.
An admitted receipt is never refused: what it names can be neither abandoned nor
cleaned, and storage that does not answer only delays it. Other services accept
a token of a replaced key until their cache of keys expires, an hour and a fetch
at most, or an unknown key makes them refresh it.

### Findings

- **Signing out everywhere** (`logout_all`, a bug of the code).
  `RevokeAllForUser` revokes the sessions it sees; a refresh that is under way has
  inserted its successor without having committed, and survives.
- **Suspension** (`suspension`, documents and code disagree). The requirement that
  suspension revokes sessions within a minute (user-service/REQUIREMENTS.md:123)
  is not met: `ChangeUserRole` revokes nothing, and a sign-in from before the
  suspension goes on refreshing. The property is about those sign-ins only. A
  test (`TestSuspendedUserCanAuthenticateAndRefreshRole`, auth_test.go:555) wants
  users who sign in while suspended to be let in and to refresh.
- **A silent loss** (`chat_silent`, comment and code disagree). When a read fails
  before anything was recorded (relay.go:96-98, 115-117), the update is confirmed
  and the sender hears nothing, although the comment (relay.go:87-88) says that the
  sender is told.

## 5. Proofs

Seven modules are proved about, for every value of their constants.
`PROJECT.json` names for each theorem the property of a run that it states.

| theorem | module | states |
| --- | --- | --- |
| `TypeCorrect` | `CreditSafety` | `Spec => []TypeOK` |
| `BooksHold`, `Agreement`, `Backing`, `Solvency` | `CreditSafety` | `[]Books`; `OffersAgree`, `HoldsBacked`, `Solvent` |
| `RecordsHold`, `Replays` | `CreditHistory` | `[]RecordsKept`; `ReplayTruthful` |
| `Refusals`, `Endings`, `Reverts`, `Decisions` | `CreditHistory` | the action properties of `DecisionsFinal` |
| `Balances` | `CreditHistory` | `BooksBalance` |
| `EscrowImplemented` | `CreditHistory` | `ImplementsEscrow`: `Credit` implements `Escrow` |
| `LifecycleIsInvariant`, `OrderAndCreditAgree`, `OutcomesAreAccepted` | `LifecycleProofs` | `[]LifecycleHold`; `AssignmentsAgree`, `OutcomeAccepted` |
| `OutboxSafe`, `Deliveries`, `Claims` | `OutboxProofs` | `[]OutboxHold`; `CommittedIsSettled`; `OneClaimPerBatch` |
| `OrderedFactsImplemented` | `OutboxProofs` | `ImplementsOrderedFacts`: `Outbox` implements `OrderedFacts` |
| `SessionsSafe`, `SignIns`, `RoleAge` | `SessionsProofs` | `[]SessionsHold`; `OneLivePerSignIn`, `RoleStaleOnce` |
| `AdmissionSafe`, `KeysMakeOneOrder`, `ImagesStay` | `AdmissionProofs` | `[]AdmissionHold`; `OneOrderPerKey`, `ImagesKept` |
| `TwinsNotRefused` | `AdmissionProofs` | the action property `NotRefused` |
| `DeliveryIsInvariant`, `AdmittedReceiptsAreKept`, `OrderIsDeliveredOnce` | `DeliveryProofs` | `[]DeliveryHold`; `AdmittedIsKept`, `DeliveredOnce` |
| `ExceptionsAreCertified` | `DeliveryProofs` | the action property `ExceptionIsCertified` |
| `RelayIsInvariant`, `MessagesReachParticipants`, `UpdatesAreRelayedOnce` | `ChatProofs` | `[]RelayHold`; `RelayedToParticipant`, `RelayedOnce` |

**Assumptions** are named in the module that declares the constants, and
evaluated by the run that extends it. `Credit`: the numbers of orders and users
and the starting grant are naturals, amounts are integers (the guards refuse
those that are not positive), the allowed duration is positive, and the absent
assignment is not an assignment. `OrderLifecycle`: the order and its requester
exist, the bound on faults is a natural and the absent assignment is not an
assignment; the reward, the amounts, the couriers
and the workers may be anything. `Outbox`, `Sessions` and `Admission`: bounds
are naturals (an order has at least one revision and a user at least one role),
the absent relay or body is none of them, and a body names images that exist.
`DeliveryProof`: the deadline, the lifetime of a URL and the age of an outage are
positive, and the time a probe may take is a natural. `ChatRelay`: every order has a requester, a scene has a sequence of
revisions for every order and a sequence of updates, and nobody is neither a
user nor a chat nor an order.
The bounds remain constants: a theorem holds whatever they are.

### Credit

**Typing.** `TypeOK` says what the columns hold, which is not inductive: an
adjustment or a settlement posts to the requester of the row it finds. `Owned`
adds that a row that is held, assigned or settled has a requester; a tombstone
has none. `Typing` proves the conjunction, one step per action.

**The books.** Solvency (`0 <= reserved <= balance`) is not inductive either:
a settlement takes the hold of one order out of `reserved`, and that this does
not become negative depends on `reserved` being the *sum* of the holds. The
invariant `Books` therefore has five parts:

- `RowsSane`: a closed reservation holds nothing, an open one has a requester
  and holds a positive amount;
- `Funded`: the requester of an open reservation has an account, so no grant is
  added to it later;
- `OffersAgree`: a held reservation is at its original amount with no offer
  applied; an assigned one holds exactly the one applied offer, which a
  settlement splits;
- `HoldsBacked`: `reserved[u]` is the sum of the holds of `u`'s orders;
- `Covered`: `reserved[u] <= balance[u]`.

Each action changes the reservation of one order, so the sum of one user
changes by the difference of two holds. That is `SumUpdate`: two
functions that differ at one point have sums that differ by the difference
there. `SumBounds`, that no summand exceeds a sum of naturals, keeps `reserved`
above zero. Sums are recursive functions over 1..n; each lemma is proved from
the partial sums, by the least index at which it would fail (`NatMin`).

**The history.** First, what a step may write at all: an outcome is recorded
once, a row moves along its states, an offer is applied and reverted, never
applied again. `RecordsKept` then ties every record to what it answers for: a
Reserve that was done names a revision that held its amount; an applied offer
has a done Adjust whose revision was assigned to it; an acknowledged Revert has
fenced its offer. The last is what makes a revert final when the Adjust comes
*after* it: `RevertIsFinal` is false of a state in which the revert is recorded
and its offer still applied, and only `RecordsKept` excludes that.

**The escrow.** `Explained` says that what a user has beyond the grant is the
sum of what settled orders moved, and that over all users this is zero. It has
the grants on the other side of `BooksBalance`, so that opening an account
changes neither sum. For the refinement a purse is `balance - reserved` and a
pot what a reservation holds. `Books` is needed in every step: that a hold fits
in the purse it is taken from, and that a settlement takes its payment and its
refund from the same pot. Replays, refusals and tombstones of an order that
exists are stutters.

### The order and its reservation

`OrderLifecycle` runs against the whole of `Credit`, so the theorems relate two
databases that are never read in one transaction. A worker assigns an order on
what it *has read* at Credit, rejects an attempt on a revert it has seen
acknowledged, and calls it gave up arrive later. `AssignmentsAgree` says nothing
of any of that and is not inductive. `LifecycleHold` adds:

- `RowKept`, `OutcomeKept`: the reservation is the requester's, at its first
  amount unless the offer of the one applied attempt raised it, and is closed
  by the order's outcome and by nothing else;
- `AttemptKept`: an offer is applied only to the reservation that names it, a
  reverted one belongs to an attempt that Order has turned to its revert or to
  its withdrawal (`Reverting`), and a recorded revert has fenced its offer;
- `OrderKept`: a courier who has the order has the attempt that succeeded, and
  its offer stays applied unless the courier withdraws;
- `OffersKept`: the offer that is being accepted is that of the active attempt;
- `RunKept`: a call under way or given up is about an attempt, and a revert
  about one that Order has turned; a worker that reads behind a revert does so
  only when the offer is fenced, and what it has read as assigned was applied.

The argument is that nothing a worker relies on is taken back (`Lasting`): an
attempt stays one, a turn to the revert is for good, an offer Credit knows stays
known, a fence stays. So an old read is safe without a lock across the services:
an attempt that is still "adjustment_pending" has not been turned, hence nobody
has sent a revert for it, hence the assignment that was read still stands. And a
rejection waits for the acknowledged revert, for only the fence keeps a delayed
adjustment from being applied to an order that is open to others again. Withdrawals
rest on the same two facts. Retries and their bound (`RetriesBounded`) are left
to the run.

### Outbox

That a fact reaches its topic only after the earlier ones of its order is not
inductive: it was true when the fact was claimed, and the message may arrive
after the lease has run out and another relay has published. `OutboxHold` says
of every relay at work and of every message under way that the earlier facts of
that order are published (`FirstOfOrder`), which stays true since a published row
is never claimed again; of an acknowledged fact that it is in the topic; of a
handled message that its outcome is applied before its offset is committed. For
`OrderedFacts`, what consumers have seen of an order is the *number* of its
facts in the topics. That a repeated message adds none and a new one exactly one
takes the order just described and the cardinality of intervals.

### Sessions

That a sign-in has one live session depends on row locks held between two
statements. `SessionsHold` adds what a request under way knows (`InFlight`: its
link is unspent, the session whose row it holds is live, the role it has read is
no older than the session's) and that two requests hold different rows
(`LocksDiffer`). The theorem on roles says how stale a signed role may be. That
signing out everywhere leaves no session is false of the code (Findings).

### Admission

That a key makes one order is about orders, of which the state keeps all;
what decides is the one stored key. `Superseded` connects them: an order is the
one its key names, or it is resolved and a day old, and the key names a later one
or none. That an order keeps its images depends on what a request saw when it
prepared them, several steps before it attached them: `RequestKept` says that a
prepared image has its object unless the row is no longer "uploading", and then
`AttachItemImage` refuses it. `ImageKept` says that the cleaner only ever works on
rows it has fenced, and those are too old for a PUT. `NotRefused` follows from the
invariant: a refusal comes from a step that has just found the key free under the
caller's lock.

### Delivery

That an admitted receipt is never rejected is about a worker which found, two
transactions and a storage read ago, that it was pending; meanwhile the cleaner,
other workers, new uploads of the same photograph and the users have moved.
`DeliveryHold` says what protects it:

- `PendingIsReady`: what a pending receipt names is staged and was verified
  before the receipt came, since neither cleaner nor abandonment touch a reserved
  identity and a second verification keeps the first time;
- `BytesStay`: verified bytes stay in storage until the identity is fenced, and
  the cleaner deletes only what is fenced;
- `WorkIsSound`: a worker past its validation has read exactly the evidence the
  rows still show, and gives a receipt up only for an order that does not wait;
- `DecidedWithOrder`, `ConfirmedAsAccepted`: receipts are decided in the
  transaction that moves the order, and the confirmation names what was accepted;
- `OutageWasSeen`: an outage in force is dated at most `ProbeTimeout` after a
  probe met a 5xx, and so is what a prober is about to publish. The second half is
  what the first needs: a prober may be overtaken between its answer, its clock
  and its publication.

`AcceptedOnce` is in the invariant itself, and needs `ProofTypeOK` for the unique
index on pending receipts. `ExceptionIsCertified` follows in one step: the
admission compares the outage it has read with the one in force, generation and
age, in the transaction that inserts the receipt. The failure behind it is then
less than `OutageAge + ProbeTimeout` old, and not `OutageAge`, since the outage
is dated by a clock that is read after the answer.

### Chat

That an update is relayed once per run and under a record is a fact about what
was *sent*, decided by where the poller is. `RelayHold` adds what each step of the
poller may rely on: from "selecting" on the message is recorded, or the retention
of its order is over (`RecordedFirst`); from "checked" on the participants were
read again and are those of the revision the attempt has read (`CheckedFirst`);
whatever was sent in this run belongs to earlier updates, or the poller is past
its send (`SentBefore`). The last is why a failure to save the reply target must
retry that write alone, and not the update. A restart begins a new run, and
Telegram may deliver an unconfirmed update again: that is the one repeat left,
and the theorem says so by counting runs. `NewestCourier` needs the guard of the
upsert (a lower revision never wins) for replayed events, and that a deleted
row's order stays expired.

### Only model-checked

Liveness under fairness and `ENABLED`, which are out of the prover's reach, so
`WaitsEnd` and `NothingLeftOver` stay with `live`. Facts about what a page holds
after any number of entries (`LedgerAgrees`, `ReadsAgree`) would take an
induction over sequences, which the installed provers do not do. `Ledger`,
`OrderCreation`, `Commands`, `Aggregate`, `Readers`, `Onboarding`, `Notices`, `TimerScan`,
`Process`, `KeyCache`, `Accounts`, `Reviews`, `Linking` and the supplier service
have no theorems.

## 6. Not modelled

- The frontend, a client that keeps no state the services rely on.
- Generated protocol code, database schema, deployment files and the scripts that
  drive them; development seeders.
- Byte formats: decoding of photographs, signatures of URLs and tokens, mail,
  Telegram's protocol; conversions between rows and messages.
- Discovery filters and other reads of the supplier and user services, apart
  from the state of a disablement and what others see of a proposal.
- `validateAssignmentOffers`, which checks once more what the commands have
  established under the same lock.

## 7. Plan

1. *Done, models*: all services at the level of their transactions; the
   contracts `Escrow` and `OrderedFacts`; liveness of every loop.
2. *Done, theorems*: Credit, from its books to the refinement of `Escrow`; the
   outbox, to the refinement of `OrderedFacts`; sign-ins; admissions and images;
   delivery proofs and receipts; the relay of the chat; an open order and its
   reservation.
3. *Next, theorems*: the creation saga, along the argument of `LifecycleHold`;
   `RejectionIsFinal` and `OneWithdrawal` of `Commands`; the links of `Linking`.
4. *Next, models*: the contract of a delivery (an order with an admitted receipt
   is delivered or closed by a user), which `DeliveryProof` implements and which
   takes the place of the single steps in `OrderLifecycle`.

## 8. Running

    tlc -workers 2 -config MCCredit.cfg MCCredit   # and likewise for the other runs
    tlapm CreditHistory.tla                        # and the other modules of section 5

The larger suites take two to four minutes each.
