------------------------------ MODULE MCEvents ------------------------------
(***************************************************************************)
(* What happens behind the requests: the relays, consumers and timers. The *)
(* first state says which of eight small instances moves.                  *)
(*  - outbox: an order with two facts, two relays, and faults enough for a *)
(*    stall and a crash while the same fact is published twice;            *)
(*  - relaying: one new user and two relays of its event;                  *)
(*  - onboarding: two users, and a transaction of Credit that opens        *)
(*    accounts beside the consumer;                                        *)
(*  - opening: two such transactions, which open two accounts each;        *)
(*  - notices: an order that bob takes and gives up, which tells two       *)
(*    people of the second change;                                         *)
(*  - scan: pages of two orders and two workers. The first order always    *)
(*    fails and the second is protected;                                   *)
(*  - process: each service starts, serves a request on both listeners and *)
(*    stops, and the order service has two kinds of sagas to recover;      *)
(*  - keys: two requests with tokens of a key, of the one that replaces it *)
(*    or of none, over a time in which the cache of keys expires.          *)
(***************************************************************************)
EXTENDS Outbox, TLC

CONSTANTS r1, r2, o1, o2, q1, q2, ann, bob, None, Nobody

VARIABLES
  part,
  row, userRelay, userLog, offset, grants, tx,
  committed, subscriber, projected, linked, stale, recorded, targets, told, excused, doubts,
  noticeFaults, linkings,
  status, retries, after, scan, sleep, delay, scanFaults,
  svc, pc, pending, creditURL, signalled, stopping, attempts, pool, publisher,
  worker, counted, listener, drained, late, request, code,
  clock, signing, replaced, cache, lastMiss, holder, bearer

userVars == <<row, userRelay, userLog, offset, grants, tx>>
noticeVars == <<committed, subscriber, projected, linked, stale, recorded, targets, told,
                excused, doubts, noticeFaults, linkings>>
scanVars == <<status, retries, after, scan, sleep, delay, scanFaults>>
processVars == <<svc, pc, pending, creditURL, signalled, stopping, attempts, pool, publisher,
                 worker, counted, listener, drained, late, request, code>>
keyVars == <<clock, signing, replaced, cache, lastMiss, holder, bearer>>
eventsVars == <<part, vars, userVars, noticeVars, scanVars, processVars, keyVars>>

Onboarding == INSTANCE Onboarding WITH
  Users <- {1, 2}, Relays <- {r1}, Openers <- {o1}, MaxLog <- 3,
  relay <- userRelay, log <- userLog
Relaying == INSTANCE Onboarding WITH
  Users <- {1}, Relays <- {r1, r2}, Openers <- {o1}, MaxLog <- 3,
  relay <- userRelay, log <- userLog
Opening == INSTANCE Onboarding WITH
  Users <- {1, 2}, Relays <- {r1}, Openers <- {o1, o2}, MaxLog <- 1,
  relay <- userRelay, log <- userLog
Change(actor, courier, previous, to) ==
  [actor |-> actor, requester |-> ann, courier |-> courier, previous |-> previous, status |-> to]
Notices == INSTANCE Notices WITH
  Users <- {ann, bob}, Rejecting <- {}, MaxFaults <- 3, MaxLinkings <- 2,
  Events <- <<Change(bob, bob, Nobody, "awaiting_pickup"),
              Change(Nobody, Nobody, bob, "awaiting_courier")>>,
  consumer <- subscriber, row <- projected, faults <- noticeFaults
Scan == INSTANCE TimerScan WITH
  Orders <- 1..4, Broken <- {1}, Protected <- {2}, BatchSize <- 2, Workers <- 2,
  MaxDelay <- 4, MaxFaults <- 3, faults <- scanFaults
Process == INSTANCE Process WITH
  Requests <- {<<1, 1>>, <<2, 2>>}, Sagas <- {"creations", "assignments"}, MaxAttempts <- 1
Keys == INSTANCE KeyCache WITH
  Requests <- {q1, q2}, Kinds <- {"admin", "user", "refresh"}, Lifetime <- 3, MissGap <- 2,
  Timeout <- 1, MaxKeys <- 2, MaxTime <- 4, request <- bearer

EventsInit ==
  /\ OutboxInit /\ Notices!NoticesInit /\ Scan!TimerScanInit /\ Process!ProcessInit /\ Keys!KeyCacheInit
  /\ \/ part = "opening" /\ Opening!OnboardingInit
     \/ part = "relaying" /\ Relaying!OnboardingInit
     \/ part \in {"outbox", "onboarding", "notices", "scan", "process", "keys"} /\ Onboarding!OnboardingInit
  /\ part # "scan" => \A o \in 1..4 : status[o] = "early"
  /\ part # "process" => svc.name = "credit"
EventsNext ==
  \/ part = "outbox" /\ OutboxNext
       /\ UNCHANGED <<part, userVars, noticeVars, scanVars, processVars, keyVars>>
  \/ part = "onboarding" /\ Onboarding!OnboardingNext
       /\ UNCHANGED <<part, vars, noticeVars, scanVars, processVars, keyVars>>
  \/ part = "relaying" /\ Relaying!OnboardingNext
       /\ UNCHANGED <<part, vars, noticeVars, scanVars, processVars, keyVars>>
  \/ part = "opening" /\ Opening!OnboardingNext
       /\ UNCHANGED <<part, vars, noticeVars, scanVars, processVars, keyVars>>
  \/ part = "notices" /\ Notices!NoticesNext
       /\ UNCHANGED <<part, vars, userVars, scanVars, processVars, keyVars>>
  \/ part = "scan" /\ Scan!TimerScanNext
       /\ UNCHANGED <<part, vars, userVars, noticeVars, processVars, keyVars>>
  \/ part = "process" /\ Process!ProcessNext
       /\ UNCHANGED <<part, vars, userVars, noticeVars, scanVars, keyVars>>
  \/ part = "keys" /\ Keys!KeyCacheNext
       /\ UNCHANGED <<part, vars, userVars, noticeVars, scanVars, processVars>>
EventsSpec == EventsInit /\ [][EventsNext]_eventsVars
EventsSymmetry == Permutations({r1, r2}) \cup Permutations({o1, o2}) \cup Permutations({q1, q2})

-----------------------------------------------------------------------------
(* Properties of the parts beside the outbox *)

\* An event users.create is behind the committed offset only when its account
\* is open, and a user is granted the starting credits once. Transactions that
\* open two accounts each, in opposite orders, do not wait for each other for
\* ever.
CommittedIsOpened ==
  /\ part = "onboarding" =>
       /\ Onboarding!OnboardingTypeOK /\ Onboarding!CommittedIsOpened /\ Onboarding!GrantedOnce
       /\ Onboarding!AccountsNotDeadlocked
  /\ part = "relaying" =>
       Relaying!OnboardingTypeOK /\ Relaying!CommittedIsOpened /\ Relaying!GrantedOnce
  /\ part = "opening" =>
       Opening!CommittedIsOpened /\ Opening!GrantedOnce /\ Opening!AccountsNotDeadlocked

\* A committed event was told to every recipient that was not passed over for
\* a reason the code names, after its participants were stored, and more than
\* once only for a failure between a message and its record.
CommittedIsTold ==
  part = "notices" =>
    /\ Notices!NoticesTypeOK /\ Notices!CommittedIsTold
    /\ Notices!ToldIsProjected /\ Notices!RepeatsAreDoubts

\* A batch does not claim a fact again that it has put off, and no backoff of
\* the timer scan is lost while it is needed, however the pages fall.
PacingKept == OneClaimPerBatch /\ []Scan!TimerScanTypeOK /\ Scan!PacingKept

\* A process that stops closes its pool and its publisher behind every worker,
\* whenever the workers were started; refuses a request that came through only
\* when its deadline passed or a listener was lost; reports success only with
\* nothing under way; and one that serves recovers what an earlier one left.
StopsCleanly ==
  part = "process" =>
    /\ Process!ClosedAfterWorkers /\ Process!RequestsServed
    /\ Process!SuccessIsClean /\ Process!PendingIsRecovered

\* Services accept a replaced key no longer than the cache that held it may
\* live, never go back to it, and find the new one except in the gap between
\* two early refreshes.
KeysCurrent ==
  [][part = "keys" => Keys!OldKeysEnd /\ Keys!CacheMovesOn /\ Keys!NewKeyFound]_eventsVars
=============================================================================
