----------------------------- MODULE MCSupplier -----------------------------
(***************************************************************************)
(* The supplier service. The first state says which of four small          *)
(* instances runs; in each, two transactions are under way at once.        *)
(*  - proposals: one proposal, its owner, a suspended user and an          *)
(*    administrator: edits race approvals, decisions race each other;      *)
(*  - disablements: two intervals over three instants, which touch, nest   *)
(*    and overlap, start in the past and end at the current instant;       *)
(*  - retry: one key, and a clock that moves between a call and its repeat;*)
(*  - locations: a location of the dataset and one of an administrator:    *)
(*    edits of text, class and categories, an archive and an import.       *)
(* "absent" is a category that does not exist.                             *)
(***************************************************************************)
EXTENDS Integers, Sequences, FiniteSets, TLC

CONSTANTS u1, u2, a1, q1, l1, l2, k1, k2, s1, s2, None

VARIABLES
  part, keys, tx,
  linked,                                 \* of proposals or locations
  rows, locs, versions, answers, reply,
  now, archived, dis, refused,
  loc, done

requestVars == <<rows, locs, versions, answers, reply>>
disablementVars == <<now, archived, dis, refused>>
locationVars == <<loc, done>>
vars == <<part, keys, tx, linked, requestVars, disablementVars, locationVars>>

Proposal(supplier, cats) == [text |-> "text", supplier |-> supplier, cats |-> cats]
Proposals == INSTANCE AdditionRequests WITH
  Owners <- {u1, u2}, Suspended <- {u2}, Admins <- {a1}, Requests <- {q1}, Texts <- {"text"},
  Categories <- {"food", "absent"}, Known <- {"food"}, Keys <- {k1}, Servers <- {s1, s2},
  Submitted <- {Proposal(TRUE, {"food"}), Proposal(FALSE, {"food"}), Proposal(TRUE, {"absent"})},
  Patches <- {[prop |-> Proposal(FALSE, {}), paths |-> {"supplier"}],
              [prop |-> Proposal(TRUE, {"food"}), paths |-> {"supplier", "cats"}],
              [prop |-> Proposal(TRUE, {}), paths |-> {"cats"}],
              [prop |-> Proposal(FALSE, {"absent"}), paths |-> {"text", "cats"}]},
  MaxRevision <- 2

From(a, b) == [starts |-> a, ends |-> b]
Asked(never) == {From(never, never), From(never, 1), From(1, 2), From(2, never)}
Edit(a, b, mask) == [starts |-> a, ends |-> b, mask |-> mask]
Edited(never) ==
  {Edit(0, 1, {"starts_at", "ends_at"}), Edit(2, never, {"starts_at"}), Edit(0, never, {"ends_at"})}
Disablements == INSTANCE Disablements WITH
  Locations <- {l1}, Keys <- {k1, k2}, Servers <- {s1, s2}, Requested <- Asked(3),
  Edits <- Edited(3), MaxTime <- 1, KeyLife <- 1, MaxDisablements <- 2, MaxRevision <- 2
Retry == INSTANCE Disablements WITH
  Locations <- {l1}, Keys <- {k1}, Servers <- {s1, s2}, Requested <- Asked(4),
  Edits <- {Edit(2, 4, {"starts_at"})}, MaxTime <- 2, KeyLife <- 2, MaxDisablements <- 2, MaxRevision <- 2

In(text, supplier, cats) == [text |-> text, supplier |-> supplier, cats |-> cats]
Locations == INSTANCE LocationAdmin WITH
  Locations <- {l1, l2}, Dataset <- (l1 :> In("old", TRUE, {"food"})), Texts <- {"old", "new"},
  Categories <- {"food", "coffee", "absent"}, Known <- {"food", "coffee"},
  Inputs <- {In("old", TRUE, {"food"}), In("old", FALSE, {"food"})},
  Patches <- {[in |-> In("new", FALSE, {}), paths |-> {"text"}],
              [in |-> In("new", FALSE, {}), paths |-> {"supplier", "cats"}],
              [in |-> In("new", FALSE, {"coffee"}), paths |-> {"cats"}],
              [in |-> In("new", TRUE, {"absent"}), paths |-> {"supplier", "cats"}]},
  Keys <- {k1}, Servers <- {s1, s2}, MaxRevision <- 3

Unused == "unused"
NoProposals ==
  rows = Unused /\ locs = Unused /\ versions = Unused /\ answers = Unused /\ reply = Unused
NoDisablements == now = Unused /\ archived = Unused /\ dis = Unused /\ refused = Unused
NoLocations == loc = Unused /\ done = Unused

SupplierInit ==
  \/ part = "proposals" /\ Proposals!RequestsInit /\ NoDisablements /\ NoLocations
  \/ part = "disablements" /\ Disablements!DisablementsInit
       /\ linked = Unused /\ NoProposals /\ NoLocations
  \/ part = "retry" /\ Retry!DisablementsInit /\ linked = Unused /\ NoProposals /\ NoLocations
  \/ part = "locations" /\ Locations!LocationsInit /\ NoProposals /\ NoDisablements
SupplierNext ==
  \/ part = "proposals" /\ Proposals!RequestsNext
       /\ UNCHANGED <<part, disablementVars, locationVars>>
  \/ part = "disablements" /\ Disablements!DisablementsNext
       /\ UNCHANGED <<part, linked, requestVars, locationVars>>
  \/ part = "retry" /\ Retry!DisablementsNext
       /\ UNCHANGED <<part, linked, requestVars, locationVars>>
  \/ part = "locations" /\ Locations!LocationsNext
       /\ UNCHANGED <<part, requestVars, disablementVars>>
SupplierSpec == SupplierInit /\ [][SupplierNext]_vars
SupplierSymmetry ==
  Permutations({s1, s2}) \cup Permutations({k1, k2})

-----------------------------------------------------------------------------
(* Properties *)

\* The location an approval creates is the proposal the administrator
\* reviewed, one per approval; a decision anybody was told of stands, and
\* others see a request only when it is approved, without its submitter.
ApprovedAsReviewed ==
  part = "proposals" =>
    /\ Proposals!RequestsTypeOK /\ Proposals!ApprovedAsReviewed
    /\ Proposals!LocationPerApproval /\ Proposals!AnswersHold /\ Proposals!OthersSeeRedacted

\* Intervals of a location never overlap, the three places that compute the
\* state of one agree at every instant, and a repeated call is never taken for
\* a different one because the clock has moved.
StatesAgree ==
  /\ part = "disablements" =>
       Disablements!DisablementsTypeOK /\ Disablements!NoOverlap /\ Disablements!StatesAgree
  /\ part = "retry" =>
       Retry!DisablementsTypeOK /\ Retry!NoOverlap /\ Retry!StatesAgree /\ Retry!RetryRecognised

\* A change is exactly what was asked for, on what was committed right before
\* it: an edit changes the fields of its mask, an import leaves its locations
\* as the dataset has them, a location that is archived is not disabled, and
\* only suppliers have categories.
ChangesExact ==
  [][/\ part = "locations" =>
          Locations!LocationsTypeOK /\ Locations!MaskedOnly /\ Locations!ImportIsExact
     /\ part = "disablements" => Disablements!NoneWhenArchived]_vars
=============================================================================
