------------------------------- MODULE MCLive -------------------------------
(***************************************************************************)
(* What must happen in the end. The first state says which of nine         *)
(* instances moves: the loops of the order service (creation, lifecycle,   *)
(* proof, admission, scan), the events between services (outbox,           *)
(* onboarding, notices) and a service's process. They are smaller than     *)
(* those of the safety runs, with a fault or two each.                     *)
(***************************************************************************)
EXTENDS Integers, Sequences, FiniteSets

CONSTANTS w1, w2, a1, a2, NoAssignment, p1, ann, bob, None, nobody

VARIABLES
  part,
  opened1, balance1, reserved1, reservations1, revisions1, assignments1, operations1,
  expired1, worker1, sent1, faults1, status, workflow,
  opened, balance, reserved, reservations, revisions, assignments, operations,
  expired, worker, sent, faults, order, attempts, offers, withdrawals, outcome,
  clock, delivery, uploads, fenced, receipts, confirmation, outage, storage, objects, granted,
  puts, outages, proofFaults, signing, verifying, verified, seen, work, retiring, prober, down,
  keys, orders, request, image, object, late, selectable, cleaner, requestFaults,
  timer, retries, after, scan, sleep, delay, scanFaults,
  outbox, created, relay, wire, log, consumer, settled, outboxFaults,
  row, userRelay, userLog, offset, grants, tx,
  committed, subscriber, projected, linked, stale, recorded, targets, told, excused, doubts,
  noticeFaults, linkings,
  svc, pc, pending, creditURL, signalled, stopping, fetches, pool, publisher, thread, counted,
  listener, drained, overdue, call, code

Creation == INSTANCE OrderCreation WITH
  OrderCount <- 2, UserCount <- 1, Assignments <- {}, Amounts <- {2}, StartingCredits <- 3,
  Allowed <- 1, Elapsed <- {}, Workers <- {w1, w2}, Reward <- 2, RivalAmount <- 2, MaxFaults <- 2,
  opened <- opened1, balance <- balance1, reserved <- reserved1, reservations <- reservations1,
  revisions <- revisions1, assignments <- assignments1, operations <- operations1,
  expired <- expired1, worker <- worker1, sent <- sent1, faults <- faults1
Lifecycle == INSTANCE OrderLifecycle WITH
  OrderCount <- 1, UserCount <- 2, Assignments <- {a1, a2}, Amounts <- {4},
  StartingCredits <- 3, Allowed <- 1, Elapsed <- {1}, Workers <- {w1}, Reward <- 1,
  MaxFaults <- 1
Proof == INSTANCE DeliveryProof WITH
  Proofs <- {p1}, Workers <- {w1, w2}, Probers <- {}, Deadline <- 1, Lifetime <- 1,
  OutageAge <- 1, ProbeTimeout <- 1, MaxStaged <- 1, MaxReceipts <- 1, MaxTime <- 2, MaxGenerations <- 1,
  MaxPuts <- 1, MaxOutages <- 1, MaxPublications <- 0, MaxFaults <- 1,
  order <- delivery, faults <- proofFaults
Body(valid) == [valid |-> valid, images |-> {1}]
Admission == INSTANCE Admission WITH
  Callers <- {1, 2}, Keys <- {1}, Requests <- {w1, w2}, Images <- {1},
  Bodies <- {Body(TRUE), Body(FALSE)}, Suspended <- {2}, Disabled <- {w2},
  MaxRecent <- 1, MaxOrders <- 1, MaxFaults <- 1, faults <- requestFaults
Scan == INSTANCE TimerScan WITH
  Orders <- 1..3, Broken <- {1}, Protected <- {2}, BatchSize <- 2, Workers <- 2,
  MaxDelay <- 2, MaxFaults <- 2, status <- timer, faults <- scanFaults
\* The first fact of the first, and oldest, order can not be encoded.
Outbox == INSTANCE Outbox WITH
  Orders <- {1, 2}, Revisions <- 1, Relays <- {1}, Unencodable <- {<<1, 1>>},
  BatchLimit <- 2, MaxFaults <- 2, faults <- outboxFaults
Onboarding == INSTANCE Onboarding WITH
  Users <- {1}, Relays <- {w1}, Openers <- {}, MaxLog <- 3,
  relay <- userRelay, log <- userLog
Change(actor, status2) ==
  [actor |-> actor, requester |-> ann, courier |-> bob, previous |-> nobody, status |-> status2]
Notices == INSTANCE Notices WITH
  Users <- {ann, bob}, Events <- <<Change(nobody, "delivering"), Change(bob, "delivered")>>,
  Rejecting <- {ann}, MaxFaults <- 2, MaxLinkings <- 2, Nobody <- nobody,
  consumer <- subscriber, row <- projected, faults <- noticeFaults
Process == INSTANCE Process WITH
  Requests <- {<<1, 1>>}, Sagas <- {"creations"}, MaxAttempts <- 1,
  attempts <- fetches, worker <- thread, late <- overdue, request <- call

LiveInit ==
  /\ part \in {"creation", "lifecycle", "proof", "admission", "scan", "outbox", "onboarding", "notices", "process"}
  /\ Creation!CreationInit /\ Lifecycle!LifecycleInit /\ Proof!ProofInit
  /\ Admission!AdmissionInit /\ Scan!TimerScanInit /\ Outbox!OutboxInit
  /\ Onboarding!OnboardingInit /\ Notices!NoticesInit
  /\ Process!ProcessInit
  /\ part # "scan" => \A o \in 1..3 : timer[o] = "early"
  /\ part # "process" => svc.name = "credit"

cv == <<opened1, balance1, reserved1, reservations1, revisions1, assignments1, operations1,
        expired1, worker1, sent1, faults1, status, workflow>>
lv == <<opened, balance, reserved, reservations, revisions, assignments, operations,
        expired, worker, sent, faults, order, attempts, offers, withdrawals, outcome>>
pv == <<clock, delivery, uploads, fenced, receipts, confirmation, outage, storage, objects,
        granted, puts, outages, proofFaults, signing, verifying, verified, seen, work, retiring,
        prober, down>>
av == <<keys, orders, request, image, object, late, selectable, cleaner, requestFaults>>
sv == <<timer, retries, after, scan, sleep, delay, scanFaults>>
ov == <<outbox, created, relay, wire, log, consumer, settled, outboxFaults>>
uv == <<row, userRelay, userLog, offset, grants, tx>>
nv == <<committed, subscriber, projected, linked, stale, recorded, targets, told, excused, doubts,
        noticeFaults, linkings>>
rv == <<svc, pc, pending, creditURL, signalled, stopping, fetches, pool, publisher, thread, counted,
        listener, drained, overdue, call, code>>
vars == <<part, cv, lv, pv, av, sv, ov, uv, nv, rv>>

LiveNext ==
  \/ part = "creation" /\ Creation!CreationNext /\ UNCHANGED <<part, lv, pv, av, sv, ov, uv, nv, rv>>
  \/ part = "lifecycle" /\ Lifecycle!LifecycleNext /\ UNCHANGED <<part, cv, pv, av, sv, ov, uv, nv, rv>>
  \/ part = "proof" /\ Proof!ProofNext /\ UNCHANGED <<part, cv, lv, av, sv, ov, uv, nv, rv>>
  \/ part = "admission" /\ Admission!AdmissionNext /\ UNCHANGED <<part, cv, lv, pv, sv, ov, uv, nv, rv>>
  \/ part = "scan" /\ Scan!TimerScanNext /\ UNCHANGED <<part, cv, lv, pv, av, ov, uv, nv, rv>>
  \/ part = "outbox" /\ Outbox!OutboxNext /\ UNCHANGED <<part, cv, lv, pv, av, sv, uv, nv, rv>>
  \/ part = "onboarding" /\ Onboarding!OnboardingNext /\ UNCHANGED <<part, cv, lv, pv, av, sv, ov, nv, rv>>
  \/ part = "notices" /\ Notices!NoticesNext /\ UNCHANGED <<part, cv, lv, pv, av, sv, ov, uv, rv>>
  \/ part = "process" /\ Process!ProcessNext /\ UNCHANGED <<part, cv, lv, pv, av, sv, ov, uv, nv>>

-----------------------------------------------------------------------------
(* The fairness of every component (CreationFairness and so on), for the   *)
(* part that it is: the loops run for ever, a step under way goes on, time *)
(* passes, and nothing is asked of users.                                  *)

LiveFairness ==
  /\ \A w \in {w1, w2} : WF_cv(part = "creation" /\ Creation!Process(w))
  /\ WF_cv(part = "creation" /\ Creation!LeaseRunsOut)
  /\ WF_lv(part = "lifecycle" /\ Lifecycle!Process(w1))
  /\ WF_lv(part = "lifecycle" /\ \E a \in {a1, a2} : Lifecycle!LeaseRunsOut(a))
  /\ WF_lv(part = "lifecycle" /\ Lifecycle!ApplyOutcome)
  /\ \A w \in {w1, w2} : WF_pv(part = "proof" /\ Proof!Step(w))
  /\ WF_pv(part = "proof" /\ \E w \in {w1, w2} : Proof!JoinReceipt(w, 1))
  /\ WF_pv(part = "proof" /\ Proof!Clean(p1))
  /\ WF_pv(part = "proof" /\ Proof!Timeout)
  /\ WF_pv(part = "proof" /\ (Proof!StorageRecovers \/ Proof!Tick))
  /\ WF_av(part = "admission" /\ Admission!CleanupOnce)
  /\ WF_av(part = "admission" /\ Admission!ImageAges(1))
  /\ WF_sv(part = "scan" /\ Scan!RunStep)
  /\ WF_sv(part = "scan" /\ Scan!AttemptEnds)
  /\ WF_sv(part = "scan" /\ Scan!Tick)
  /\ WF_ov(part = "outbox" /\ Outbox!RelayStep(1))
  /\ \A f \in {1, 2} \X {1, 2} : WF_ov(part = "outbox" /\ Outbox!LeaseRunsOut(f))
  /\ WF_ov(part = "outbox" /\ Outbox!ConsumerStep)
  /\ WF_uv(part = "onboarding" /\ Onboarding!TimePasses(1))
  /\ WF_uv(part = "onboarding" /\ Onboarding!RelayStep(w1))
  /\ WF_uv(part = "onboarding" /\ Onboarding!Deliver)
  /\ SF_uv(part = "onboarding" /\ Onboarding!Publish(w1))
  /\ \A o \in Onboarding!Everyone : SF_uv(part = "onboarding" /\ Onboarding!Open(o))
  /\ \A o \in Onboarding!Everyone : SF_uv(part = "onboarding" /\ Onboarding!CommitOpen(o))
  /\ WF_nv(part = "notices" /\ Notices!ConsumerStep)
  /\ WF_rv(part = "process" /\ Process!Main)
  /\ WF_rv(part = "process" /\ \E w \in Process!Workers : Process!Work(w))
  /\ WF_rv(part = "process" /\ Process!Handle(<<1, 1>>))

LiveSpec == LiveInit /\ [][LiveNext]_vars /\ LiveFairness

-----------------------------------------------------------------------------
(* Properties. What is awaited in each part, and must come to an end.      *)

Awaits ==
  CASE part = "creation" -> status = "pending_reservation"
    [] part = "lifecycle" -> (\E a \in {a1, a2} : Lifecycle!Active(a)) \/ order.withdrawing
    [] part = "proof" -> Proof!Pending(1) \/ (clock >= 1 /\ delivery.status = "delivering")
    [] part = "admission" -> FALSE
    [] part = "scan" -> timer[3] = "due"
    [] part = "outbox" -> \/ \E n \in {1, 2} : <<2, n>> \in Outbox!Recorded \ Outbox!Logged
                          \/ <<2, 2>> \in Outbox!Recorded /\ settled[2] = 0
    [] part = "onboarding" -> row[1] # None /\ grants[1] = 0
    [] part = "notices" -> committed < 2
    [] part = "process" -> Process!Underway

LeftOver ==
  CASE part = "lifecycle" -> /\ order.status \in {"completed", "cancelled", "expired", "failed"}
                             /\ reservations[1].status \notin {"RELEASED", "SETTLED"}
    [] part = "proof" -> Proof!Orphaned
    [] part = "admission" -> image[1].state \in {"uploading", "deleting"}
    [] part = "scan" -> \E o \in DOMAIN retries : timer[o] = "closed"
    [] OTHER -> FALSE

\* Whatever is awaited happens, although workers stop, calls are lost and
\* storage is away for a while: a creation, an assignment attempt and a
\* withdrawal are decided, a due order is attempted behind one that always
\* fails, a delivering order gets its answer; the outcome of an order is settled
\* although an older order's fact can not be encoded, a registered user gets an
\* account, and a message that Telegram always refuses does not hold later ones
\* up; and a service that starts, was signalled or lost a listener serves or
\* ends, for joining workers, draining requests and closing the pool do not
\* wait for each other.
WaitsEnd == Awaits ~> ~Awaits

\* Nothing is left over: a closed order gives its credits back, abandoned
\* objects, images and backoffs are cleaned up, and a creation is decided once
\* and for good.
NothingLeftOver ==
  /\ LeftOver ~> ~LeftOver
  /\ [][part = "creation" => Creation!KeepsResolution]_vars
=============================================================================
