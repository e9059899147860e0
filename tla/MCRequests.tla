----------------------------- MODULE MCRequests -----------------------------
(***************************************************************************)
(* How an order comes into being, and its aggregate. The first state says  *)
(* which of four small instances runs.                                     *)
(*  - admission: two requests of one caller under one key, with and        *)
(*    without an image, while orders grow old, locations are archived and  *)
(*    deadlines pass;                                                      *)
(*  - images: two callers and two keys that name the same image, which is  *)
(*    uploaded, attached and cleaned up, or a body that is not valid;      *)
(*  - aggregate: revisions enough for an order that is assigned, given up, *)
(*    assigned again, picked up, failed and amended, with a write failing; *)
(*  - amendments: the same with the bookkeeping of offers and assignments. *)
(***************************************************************************)
EXTENDS Admission, TLC

CONSTANTS r1, r2

VARIABLES
  part,
  stored, tx, repeat, failed  \* Aggregate's

aggregateVars == <<stored, tx, repeat, failed>>
requestsVars == <<part, vars, aggregateVars>>

MCRequestIds == {r1, r2}

Plain == [valid |-> TRUE, images |-> {}]
Pictured == [valid |-> TRUE, images |-> {1}]
Malformed == [valid |-> FALSE, images |-> {1}]
Steps == {"confirm_reservation", "refuse_reservation", "assign", "accept_counteroffer",
          "cancel", "expire", "pickup", "withdraw", "unassign", "deliver", "timeout",
          "confirm_receipt", "begin_withdrawal", "record_item_location"}
Bookkeeping == {"propose_offer", "begin_assignment", "resolve_assignment"}

MCBodies == {Plain, Pictured, Malformed}

\* What the requests and uploads of a part name, and how old images and orders
\* get in it.
Scope ==
  [admission |-> [users |-> {1}, bodies |-> {Plain, Pictured},
                  objects |-> {"absent", "good"}, ages |-> {"new"}, orderAges |-> Ages],
   images    |-> [users |-> {1, 2}, bodies |-> {Pictured, Malformed},
                  objects |-> {"absent", "good", "other"}, ages |-> Ages,
                  orderAges |-> {"new", "minutes"}]]
InScope ==
  LET s == Scope[part] IN
  /\ \A r \in Requests :
       /\ request'[r].caller \in s.users \cup {Nobody} /\ request'[r].key \in s.users \cup {Nobody}
       /\ request'[r].body \in s.bodies \cup {NoBody}
  /\ \A i \in Images :
       /\ image'[i].owner \in s.users \cup {Nobody} /\ object'[i] \in s.objects
       /\ image'[i].age \in s.ages
  /\ \A o \in DOMAIN orders' : orders'[o].age \in s.orderAges
  /\ late' \subseteq s.bodies

Whole == INSTANCE Aggregate WITH
  Couriers <- {2, 3}, Actions <- Steps, MaxRevision <- 8, MaxFaults <- 1,
  tables <- stored, faults <- failed
Amended == INSTANCE Aggregate WITH
  Couriers <- {2, 3}, Actions <- Steps \cup Bookkeeping, MaxRevision <- 5, MaxFaults <- 0,
  tables <- stored, faults <- failed

Unused == "unused"
NoAggregate == stored = Unused /\ tx = Unused /\ repeat = Unused /\ failed = 0

RequestsInit ==
  /\ AdmissionInit
  /\ \/ part \in DOMAIN Scope /\ NoAggregate
     \/ part = "aggregate" /\ Whole!AggregateInit
     \/ part = "amendments" /\ Amended!AggregateInit
RequestsNext ==
  /\ UNCHANGED part
  /\ \/ part \in DOMAIN Scope /\ AdmissionNext /\ InScope /\ UNCHANGED aggregateVars
     \/ part = "aggregate" /\ Whole!AggregateNext /\ UNCHANGED vars
     \/ part = "amendments" /\ Amended!AggregateNext /\ UNCHANGED vars
RequestsSpec == RequestsInit /\ [][RequestsNext]_requestsVars
RequestsSymmetry == Permutations({r1, r2})

-----------------------------------------------------------------------------
(* Properties *)

\* Order, audit, facts and courier history tell the same story, whatever
\* writes failed on the way and whatever was amended; the consumers of the
\* outcome are told once, exactly when the order ended with a reservation to
\* settle, and only a courier who failed is warned. A repeat is recognised only
\* for the user whose action is in the audit, or the courier whose offer the
\* requester accepted.
RecordsAgree ==
  /\ part = "aggregate" =>
       /\ Whole!AggregateTypeOK /\ Whole!RecordsAgree /\ Whole!HistoryAgrees
       /\ Whole!OneOutcome /\ Whole!WarnedForFailure /\ Whole!RepeatIsProven
  /\ part = "amendments" => Amended!RecordsAgree

\* What was decided is not taken back: a deadline, an archived location or used
\* images never fail a request whose identical twin was admitted; from the
\* pickup on the courier does not change, and a closed order is amended in where
\* its item lies and in nothing else.
PastIsKept ==
  /\ NotRefused
  /\ [][/\ part = "aggregate" => Whole!KeepsCourier /\ Whole!KeepsClosed
        /\ part = "amendments" => Amended!KeepsClosed]_requestsVars
=============================================================================
