------------------------------- MODULE MCSagas ------------------------------
(***************************************************************************)
(* The order service's sagas with the credit service and its commands on   *)
(* four small instances; the first state says which of them runs.          *)
(*  - creation: two workers, three credits and a reward of two, so that    *)
(*    the reserve is refused while the rival order holds its two;          *)
(*  - lifecycle: an open order with a reward of one, two workers and one   *)
(*    courier, who makes a counteroffer of two;                            *)
(*  - offers: two couriers whose counteroffers compete, of two, which can  *)
(*    be paid, and of four, which can not, and one worker;                 *)
(*  - commands: two couriers and the requester, of whose calls two are on  *)
(*    their way at once, four in all; the names of workers and assignments *)
(*    stand for those of clients and couriers there.                       *)
(* Lifecycle and offers are scopes of one instance of OrderLifecycle.      *)
(***************************************************************************)
EXTENDS OrderLifecycle, TLC

CONSTANTS w1, w2, a1, a2

VARIABLES
  part,
  opened1, balance1, reserved1, reservations1, revisions1, assignments1, operations1,
  status, workflow, expired1, worker1, sent1, faults1,           \* of a creation
  listed, tries, proposals, cancellations, keys, request, told   \* of commands

creationVars ==
  <<opened1, balance1, reserved1, reservations1, revisions1, assignments1, operations1,
    status, workflow, expired1, worker1, sent1, faults1>>
commandVars == <<listed, tries, proposals, cancellations, keys, request, told>>
sagasVars == <<part, vars, creationVars, commandVars>>

Creation == INSTANCE OrderCreation WITH
  OrderCount <- 2, UserCount <- 1, Assignments <- {}, Amounts <- {2},
  Elapsed <- {}, Reward <- 2, RivalAmount <- 2, MaxFaults <- 3,
  opened <- opened1, balance <- balance1, reserved <- reserved1, reservations <- reservations1,
  revisions <- revisions1, assignments <- assignments1, operations <- operations1,
  expired <- expired1, worker <- worker1, sent <- sent1, faults <- faults1

\* What each part has of the instance: the couriers who propose and accept,
\* the amounts of their counteroffers, the workers and the faults.
Scope ==
  [lifecycle |-> [couriers |-> {2}, amounts |-> {2}, workers |-> 2, faults |-> 2],
   offers    |-> [couriers |-> {2, 3}, amounts |-> {2, 4}, workers |-> 1, faults |-> 1]]

InScope ==
  LET s == Scope[part] IN
  /\ faults <= s.faults
  /\ s.workers = 1 => Cardinality({w \in Workers : worker[w].pc # "idle"}) <= 1
  /\ \A i \in DOMAIN offers :
       offers[i].status # "none" => /\ offers[i].courier \in s.couriers
                                    /\ i \in Couriers => offers[i].credits \in s.amounts

Open == INSTANCE Commands WITH
  Couriers <- {a1, a2}, Keys <- {1}, Credits <- {2}, Requests <- {w1, w2}, MaxTries <- 2,
  MaxRevision <- 6, order <- listed, attempts <- tries, offers <- proposals

Unused == "unused"
NoCreation ==
  /\ opened1 = Unused /\ balance1 = Unused /\ reserved1 = Unused /\ reservations1 = Unused
  /\ revisions1 = Unused /\ assignments1 = Unused /\ operations1 = Unused
  /\ status = Unused /\ workflow = Unused /\ expired1 = Unused /\ worker1 = Unused
  /\ sent1 = Unused /\ faults1 = Unused
NoCommands ==
  /\ listed = Unused /\ tries = Unused /\ proposals = Unused /\ cancellations = Unused
  /\ keys = Unused /\ request = Unused /\ told = Unused

SagasInit ==
  /\ LifecycleInit
  /\ \/ part \in DOMAIN Scope /\ NoCreation /\ NoCommands
     \/ part = "creation" /\ Creation!CreationInit /\ NoCommands
     \/ part = "commands" /\ Open!CommandsInit /\ NoCreation
SagasNext ==
  \/ /\ part \in DOMAIN Scope /\ LifecycleNext
     /\ UNCHANGED <<part, creationVars, commandVars>>
     /\ InScope'
  \/ part = "creation" /\ Creation!CreationNext /\ UNCHANGED <<part, vars, commandVars>>
  \/ part = "commands" /\ Open!CommandsNext /\ UNCHANGED <<part, vars, creationVars>>
SagasSpec == SagasInit /\ [][SagasNext]_sagasVars
SagasSymmetry == Permutations({w1, w2}) \cup Permutations({a1, a2})

-----------------------------------------------------------------------------
(* Properties *)

\* An order is opened only on credits that are held for it, and one that is
\* rejected holds none, whichever of reserve, release, crash and stalled
\* worker comes first (creationrecovery.go). In a creation and in an
\* assignment, a claim that leads nowhere is paid for by a fault, the
\* deadline, the turn to the revert or a cancellation: retries are bounded by
\* what goes wrong.
SagasPaidFor ==
  /\ part = "creation" =>
       Creation!CreationTypeOK /\ Creation!OpenIsFunded /\ Creation!RejectedHoldsNothing
  /\ RetriesBounded

\* A command that is sent again, while others run, is done once. A courier told
\* that an acceptance is rejected never gets the order by it, not even after the
\* order reopens; there is one withdrawal at a time and one open offer of each
\* courier; a cancellation takes effect only on the revision its caller
\* confirmed; and a repeat of what was admitted is answered, not refused
\* (assignment.go, cancellation.go).
CommandsOnce ==
  [][part = "commands" =>
       /\ Open!RejectionIsFinal' /\ Open!OneWithdrawal' /\ Open!OneOpenOffer'
       /\ Open!ConfirmedIsCurrent /\ Open!RepeatsAnswered]_sagasVars
=============================================================================
