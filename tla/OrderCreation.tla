---------------------------- MODULE OrderCreation ----------------------------
(***************************************************************************)
(* The creation saga of the order service, run against the credit service. *)
(* An order is admitted, its credits are reserved by an RPC, and it opens  *)
(* only once a read of the reservation confirms the hold. Several workers  *)
(* (the request that created the order and the recovery loops of several   *)
(* instances) process the same workflow under a lease and a generation; an *)
(* expiry races the reserve, and calls may be lost, late or repeated.      *)
(*                                                                         *)
(* The order of this saga is number 1. Order 2 is a rival of the same      *)
(* requester, so that credits may be missing when the reserve arrives and  *)
(* be back when it is repeated.                                            *)
(***************************************************************************)
EXTENDS Integers, FiniteSets

CONSTANTS OrderCount, UserCount, Assignments, NoAssignment, Amounts,
          StartingCredits, Allowed, Elapsed   \* of the credit service

CONSTANTS Workers,
          Reward,      \* what the order offers
          RivalAmount, \* what the rival order holds
          MaxFaults    \* bound on lost calls, failed reads, crashes and stalls

VARIABLES opened, balance, reserved, reservations, revisions, assignments, operations
bankVars == <<opened, balance, reserved, reservations, revisions, assignments, operations>>

VARIABLES
  status,     \* orders.status
  workflow,   \* the row of creation_workflows
  expired,    \* the order's deadline has passed
  worker,     \* the processing of the workflow in every worker
  sent,       \* calls that are in the network and may still arrive
  faults      \* faults so far

sagaVars == <<status, workflow, expired, worker, sent, faults>>
vars == <<bankVars, sagaVars>>

Bank == INSTANCE Credit

This == 1
Rival == 2
Requester == 1

-----------------------------------------------------------------------------
(* The workflow and its processing *)

Workflow(phase, generation, leased, rejection) ==
  [phase |-> phase, generation |-> generation, leased |-> leased, rejection |-> rejection]

Unknown == Bank!NoReservation

\* A worker between two transactions: what it claimed and what it observed.
Processing(pc, claimed, refused, view) ==
  [pc |-> pc, phase |-> claimed.phase, generation |-> claimed.generation,
   refused |-> refused, view |-> view]

Idle == Processing("idle", Workflow("none", 0, FALSE, "none"), FALSE, Unknown)

Resolved == workflow.phase \in {"opened", "rejected"}

CreationInit ==
  /\ Bank!Init
  /\ status = "none"
  /\ workflow = Workflow("none", 0, FALSE, "none")
  /\ expired = FALSE
  /\ worker = [w \in Workers |-> Idle]
  /\ sent = {}
  /\ faults = 0

\* Create: the order and its workflow are written in one transaction, after
\* the deadline was found to lie ahead.
Admit ==
  /\ status = "none" /\ ~expired
  /\ status' = "pending_reservation"
  /\ workflow' = Workflow("reserve_pending", 0, FALSE, "none")
  /\ UNCHANGED <<bankVars, expired, worker, sent, faults>>

-----------------------------------------------------------------------------
(* ProcessCreation, first transaction *)

Due == workflow.phase \in {"reserve_pending", "abort_pending"} /\ ~workflow.leased

\* Mutant: the lease is not taken.
ClaimedUnleased ==
  Workflow(IF expired THEN "abort_pending" ELSE workflow.phase,
           workflow.generation + 1, FALSE, "none")

\* A claim after the deadline turns the workflow to aborting.
Claimed ==
  Workflow(IF expired THEN "abort_pending" ELSE workflow.phase,
           workflow.generation + 1, TRUE, "none")

Claim(w) ==
  /\ worker[w] = Idle
  /\ status = "pending_reservation" /\ Due
  /\ workflow' = Claimed
  /\ worker' = [worker EXCEPT ![w] = Processing("calling", Claimed, FALSE, Unknown)]
  /\ UNCHANGED <<bankVars, status, expired, sent, faults>>

-----------------------------------------------------------------------------
(* observeCreation: the mutation, then the read that alone confirms it *)

Deliver(call) ==
  \/ /\ call = "RESERVE"
     /\ \/ Bank!Reserve(This, Requester, Reward)
        \/ Bank!NoEffect(Bank!ReserveKey(This), Bank!FirstReserve(This, Requester, Reward))
  \/ /\ call = "RELEASE"
     /\ \/ Bank!ReleaseReservation(This, "EXPIRED")
        \/ Bank!NoEffect(Bank!ReleaseKey(This), Bank!FirstRelease(This))

CallOf(phase) == IF phase = "abort_pending" THEN "RELEASE" ELSE "RESERVE"

\* Mutant: a call without an answer counts as refused.
RefusesUnlessOK(phase, answer) == phase = "reserve_pending" /\ answer # "OK"

\* Only the typed refusal of a reserve is definite.
Refuses(phase, answer) ==
  phase = "reserve_pending" /\ answer = "INSUFFICIENT_CREDITS"

Observed(w, answer) ==
  worker' = [worker EXCEPT ![w] =
    IF Refuses(worker[w].phase, answer)
      THEN Processing("finishing", worker[w], TRUE, Unknown)
      ELSE Processing("reading", worker[w], FALSE, Unknown)]

\* The call arrives and its answer comes back in time.
CallAnswered(w) ==
  /\ worker[w].pc = "calling"
  /\ Deliver(CallOf(worker[w].phase))
  /\ Observed(w, IF worker[w].phase = "abort_pending"
                   THEN Bank!ReleaseAnswer(This, "EXPIRED")
                   ELSE Bank!ReserveAnswer(This, Requester, Reward))
  /\ UNCHANGED <<status, workflow, expired, sent, faults>>

\* The call times out: it is lost, or it arrives later, once or more often.
CallUnanswered(w) ==
  /\ worker[w].pc = "calling" /\ faults < MaxFaults
  /\ sent' = sent \cup {CallOf(worker[w].phase)}
  /\ Observed(w, "UNAVAILABLE")
  /\ faults' = faults + 1
  /\ UNCHANGED <<bankVars, status, workflow, expired>>

ArriveLate(call) ==
  /\ call \in sent
  /\ Deliver(call)
  /\ UNCHANGED sagaVars

IsReleased(view) == view.status = "RELEASED" /\ view.reserved = 0

\* GetReservation: the adapter knows held and released reservations only, and
\* an abort is interested in nothing but the release.
Read(w) ==
  LET row == reservations[This]
      known == IF worker[w].phase = "abort_pending" THEN {"RELEASED"}
                                                    ELSE {"HELD", "RELEASED"}
      view == IF row.status \in known THEN row ELSE Unknown
  IN
  /\ worker[w].pc = "reading"
  /\ worker' = [worker EXCEPT ![w] = Processing("finishing", worker[w], FALSE, view)]
  /\ UNCHANGED <<bankVars, status, workflow, expired, sent, faults>>

ReadFails(w) ==
  /\ worker[w].pc = "reading" /\ faults < MaxFaults
  /\ worker' = [worker EXCEPT ![w] = Processing("finishing", worker[w], FALSE, Unknown)]
  /\ faults' = faults + 1
  /\ UNCHANGED <<bankVars, status, workflow, expired, sent>>

-----------------------------------------------------------------------------
(* ProcessCreation, second transaction *)

IsMatchingHold(view) ==
  /\ view.status = "HELD" /\ view.requester = Requester
  /\ view.original = Reward /\ view.reserved = Reward

\* The observation counts only for the claim it was made under.
Current(p) ==
  /\ workflow.generation = p.generation /\ workflow.phase = p.phase
  /\ workflow.leased

\* The phase and rejection an observation leads to.
Decision(p) ==
  IF p.phase = "abort_pending"
    THEN IF IsReleased(p.view) THEN <<"rejected", "creation_expired">>
                               ELSE <<"abort_pending", "none">>
  ELSE IF p.refused THEN <<"rejected", "insufficient_credits">>
  ELSE IF expired THEN <<"abort_pending", "none">>
  ELSE IF IsReleased(p.view) THEN <<"rejected", "reservation_released">>
  ELSE IF IsMatchingHold(p.view) THEN <<"opened", "none">>
  ELSE <<"reserve_pending", "none">>

StatusOf(phase) ==
  CASE phase = "opened" -> "awaiting_courier"
    [] phase = "rejected" -> "rejected"
    [] OTHER -> "pending_reservation"

\* The lease is given back; a superseded worker leaves everything as it is.
Finish(w) ==
  LET p == worker[w]
      decision == Decision(p)
  IN
  /\ p.pc = "finishing"
  /\ worker' = [worker EXCEPT ![w] = Idle]
  /\ \/ /\ Current(p)
        /\ workflow' = Workflow(decision[1], workflow.generation, FALSE, decision[2])
        /\ status' = StatusOf(decision[1])
     \/ /\ ~Current(p)
        /\ UNCHANGED <<workflow, status>>
  /\ UNCHANGED <<bankVars, expired, sent, faults>>

-----------------------------------------------------------------------------
(* The environment *)

\* The process dies or its transaction fails; a call under way may arrive.
Crash(w) ==
  /\ worker[w].pc # "idle" /\ faults < MaxFaults
  /\ worker' = [worker EXCEPT ![w] = Idle]
  /\ sent' = IF worker[w].pc = "calling" THEN sent \cup {CallOf(worker[w].phase)} ELSE sent
  /\ faults' = faults + 1
  /\ UNCHANGED <<bankVars, status, workflow, expired>>

Holder(w) ==
  worker[w].pc # "idle" /\ worker[w].generation = workflow.generation

\* The lease runs out: of a worker that is gone, or of one that is stalled.
LeaseRunsOut ==
  /\ workflow.leased
  /\ workflow' = Workflow(workflow.phase, workflow.generation, FALSE, workflow.rejection)
  /\ \/ /\ \A w \in Workers : ~Holder(w)
        /\ UNCHANGED faults
     \/ /\ \E w \in Workers : Holder(w)
        /\ faults < MaxFaults
        /\ faults' = faults + 1
  /\ UNCHANGED <<bankVars, status, expired, worker, sent>>

Deadline ==
  /\ ~expired
  /\ expired' = TRUE
  /\ UNCHANGED <<bankVars, status, workflow, worker, sent, faults>>

\* The rival order takes and returns credits of the same requester.
RivalStep ==
  /\ \/ Bank!Reserve(Rival, Requester, RivalAmount)
     \/ Bank!ReleaseReservation(Rival, "EXPIRED")
  /\ UNCHANGED sagaVars

CreationNext ==
  \/ Admit \/ LeaseRunsOut \/ Deadline \/ RivalStep
  \/ \E call \in sent : ArriveLate(call)
  \/ \E w \in Workers :
       Claim(w) \/ CallAnswered(w) \/ CallUnanswered(w) \/ Read(w) \/ ReadFails(w)
         \/ Finish(w) \/ Crash(w)

\* The recovery loop scans for due workflows once a second, a step under way
\* goes on, and a lease that is not renewed runs out.
Process(w) == Claim(w) \/ CallAnswered(w) \/ Read(w) \/ Finish(w)
CreationFairness == (\A w \in Workers : WF_vars(Process(w))) /\ WF_vars(LeaseRunsOut)

CreationSpec == CreationInit /\ [][CreationNext]_vars /\ CreationFairness

-----------------------------------------------------------------------------
(* Properties *)

\* Every claim that does not resolve the workflow is paid for by a fault or by
\* the deadline, so retries are bounded by what goes wrong.
CreationTypeOK ==
  /\ status \in {"none", "pending_reservation", "awaiting_courier", "rejected"}
  /\ workflow.phase \in {"none", "reserve_pending", "abort_pending", "opened", "rejected"}
  /\ workflow.generation \in 0..(MaxFaults + 2)
  /\ workflow.leased \in BOOLEAN
  /\ worker \in [Workers ->
       [pc : {"idle", "calling", "reading", "finishing"},
        phase : {"none", "reserve_pending", "abort_pending"},
        generation : 0..(MaxFaults + 2), refused : BOOLEAN, view : Bank!ReservationType]]
  /\ sent \subseteq {"RESERVE", "RELEASE"}
  /\ faults \in 0..MaxFaults

\* An order that was rejected holds no credits, not even when a reserve that
\* was given up on arrives after the rejection.
RejectedHoldsNothing ==
  status = "rejected" =>
    /\ reservations[This].status \in {"NONE", "RELEASED"}
    /\ Bank!ReserveAnswer(This, Requester, Reward)
         \in {"INSUFFICIENT_CREDITS", "RESERVATION_RELEASED"}

\* An order that is offered to couriers is backed by a hold of its reward.
OpenIsFunded ==
  status = "awaiting_courier" =>
    LET row == reservations[This] IN
    row.status = "HELD" /\ row.requester = Requester /\ row.reserved = Reward

\* What a worker resolved is never overwritten by a slower one.
KeepsResolution == Resolved => workflow' = workflow /\ status' = status
=============================================================================
