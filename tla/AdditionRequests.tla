-------------------------- MODULE AdditionRequests --------------------------
(***************************************************************************)
(* Location addition requests of the supplier service. An owner submits a  *)
(* proposal, owner and administrators edit it, and it is withdrawn,        *)
(* rejected or approved; approval creates the Location in the same         *)
(* transaction. Transactions run statement by statement on a READ          *)
(* COMMITTED database, holding the row lock that LockWorkflowRequest takes. *)
(***************************************************************************)
EXTENDS Integers, Sequences, FiniteSets

CONSTANTS Owners, Admins,
          Suspended,    \* the owners whose token says they are suspended
          Requests,     \* ids of requests
          Texts,        \* name, floor, hours, contact and details together
          Categories,
          Known,        \* the categories that exist
          Submitted,    \* proposals that are submitted
          Patches,      \* edits: a proposal and the fields taken from it
          Keys,         \* idempotency keys
          Servers,      \* transactions at work at the same time
          MaxRevision,  \* bound on edits
          None

VARIABLES
  rows,      \* location_addition_requests
  linked,    \* location_addition_request_categories
  locs,      \* the locations that approvals have created
  keys,      \* supplier_idempotency
  tx,        \* the transaction of every server
  versions,  \* for every request, the proposal at each revision
  answers,   \* decisions that callers were told have been taken
  reply      \* the answer that GetRequest or ListRequests has just given

vars == <<rows, linked, locs, keys, tx, versions, answers, reply>>

Callers == Owners \cup Admins
Fields == {"text", "supplier", "cats"}
Proposal == [text : Texts, supplier : BOOLEAN, cats : SUBSET Categories]
Decided == {"withdrawn", "rejected", "approved"}
\* A row of location_addition_requests.
RequestRow ==
  [owner : Owners, text : Texts, supplier : BOOLEAN, status : Decided \cup {"pending"},
   revision : Nat, location : Nat]

Idle == [pc |-> "idle"]
NoReply == [caller |-> None, items |-> {}]

RequestsInit ==
  /\ rows = [id \in Requests |-> None]
  /\ linked = [id \in Requests |-> {}]
  /\ locs = <<>>
  /\ keys = [k \in Owners \X Keys |-> None]
  /\ tx = [s \in Servers |-> Idle]
  /\ versions = [id \in Requests |-> <<>>]
  /\ answers = {}
  /\ reply = NoReply

Exists(id) == rows[id] # None

-----------------------------------------------------------------------------
(* Proposals *)

\* normalizeProposal: what is not a supplier has no categories.
Normalized(p) == IF p.supplier THEN p ELSE [p EXCEPT !.cats = {}]
Complete(p) == p.supplier => p.cats # {}
\* WorkflowCategoryExists
CategoryExists(c) == c \in Known
\* ValidateReferences: the building is left out, every category must exist.
ValidReferences(p) == \A c \in p.cats : CategoryExists(c)
\* parseFieldMask: at least one field, and only fields of a proposal.
ValidMask(paths) == paths # {} /\ paths \subseteq Fields
\* applyProposalPatch: the masked fields of the patch over the proposal.
Patched(p, patch) == [f \in Fields |-> IF f \in patch.paths THEN patch.prop[f] ELSE p[f]]

\* request(): the row and its categories as one proposal.
AsProposal(row, cats) == [text |-> row.text, supplier |-> row.supplier, cats |-> cats]

-----------------------------------------------------------------------------
(* Submission *)

Row(c, p) ==
  [owner |-> c, text |-> p.text, supplier |-> p.supplier,
   status |-> "pending", revision |-> 1, location |-> 0]

\* SetRequestCategories: the old links are deleted, the new ones inserted.
Relink(id, cats) == linked' = [linked EXCEPT ![id] = cats]

\* InsertWorkflowRequest and its categories, with the retry record: the lock on
\* the key lets one of several equal calls through at a time.
InsertRequest(c, k, p) ==
  \E id \in Requests :
    /\ ~Exists(id)
    /\ rows' = [rows EXCEPT ![id] = Row(c, p)]
    /\ Relink(id, p.cats)
    /\ versions' = [versions EXCEPT ![id] = <<p>>]
    /\ keys' = [keys EXCEPT ![<<c, k>>] = [hash |-> p, id |-> id]]

\* idempotent: a live key creates nothing; it answers with its request, or
\* conflicts.
Remembered(c, k) == keys[<<c, k>>] # None

\* A suspended user submits nothing, but may still edit and withdraw.
SubmitRequest(c, k, proposal) ==
  LET p == Normalized(proposal) IN
  /\ c \notin Suspended
  /\ Complete(p) /\ ValidReferences(p) /\ ~Remembered(c, k)
  /\ InsertRequest(c, k, p)
  /\ reply' = NoReply
  /\ UNCHANGED <<locs, tx, answers>>

\* The record of the key expires.
KeyExpires(k) ==
  /\ keys[k] # None
  /\ keys' = [keys EXCEPT ![k] = None]
  /\ reply' = NoReply
  /\ UNCHANGED <<rows, linked, locs, tx, versions, answers>>

-----------------------------------------------------------------------------
(* Reading *)

\* isVisible, and the WHERE clause of ListWorkflowRequests.
Visible(c, id) == c \in Admins \/ rows[id].owner = c \/ rows[id].status = "approved"
Listed(c, status) == {id \in Requests : Exists(id) /\ Visible(c, id) /\ status \in {"", rows[id].status}}

\* toProtoAdditionRequest
ToProto(id) == [id |-> id, status |-> rows[id].status, owner |-> rows[id].owner]
\* redactRequestForCaller: others see neither the submitter nor the review.
Redacted(c, id) ==
  [ToProto(id) EXCEPT !.owner = IF c \in Admins \/ rows[id].owner = c THEN @ ELSE None]

Answer(c, ids) ==
  /\ reply' = [caller |-> c, items |-> {Redacted(c, id) : id \in ids}]
  /\ UNCHANGED <<rows, linked, locs, keys, tx, versions, answers>>

Held(id) == \E s \in Servers : tx[s].pc \notin {"idle", "waiting"} /\ tx[s].call.id = id

GetRequest(c, id) == Exists(id) /\ ~Held(id) /\ Visible(c, id) /\ Answer(c, {id})
\* The statement that counts the rows for the page comes second, may count
\* others than are listed, and is left out with its total.
ListRequests(c, status) == Answer(c, Listed(c, status))

-----------------------------------------------------------------------------
(* Edits and decisions: one transaction each *)

Set(s, t) == tx' = [tx EXCEPT ![s] = t] /\ reply' = NoReply
Tables == <<rows, linked, locs, keys, versions>>

\* The call has passed the checks that need no row, and its first statement
\* has started.
Begin(s, call) ==
  /\ tx[s] = Idle /\ Exists(call.id)
  /\ call.op \in {"approved", "rejected"} => call.caller \in Admins
  /\ Set(s, [pc |-> "waiting", call |-> call])
  /\ UNCHANGED <<Tables, answers>>

\* LockWorkflowRequest: the newest row, once no other transaction holds it.
LockRequest(s) ==
  LET t == tx[s] IN
  /\ t.pc = "waiting" /\ ~Held(t.call.id)
  /\ Set(s, [pc |-> "locked", call |-> t.call, row |-> rows[t.call.id]])
  /\ UNCHANGED <<Tables, answers>>

\* WorkflowRequestCategoryIDs: a statement of its own, after the lock.
CategoryIDs(t) == linked[t.call.id]

ReadCategories(s) ==
  LET t == tx[s] IN
  /\ t.pc = "locked"
  /\ Set(s, [pc |-> "read", call |-> t.call, row |-> t.row, prop |-> AsProposal(t.row, CategoryIDs(t))])
  /\ UNCHANGED <<Tables, answers>>

AnyRevision(t) == TRUE
\* Approval and rejection name the revision that was reviewed.
RevisionAgrees(t) == t.call.op = "withdrawn" \/ t.row.revision = t.call.rev

MayEdit(t) ==
  /\ t.call.caller \in Admins \cup {t.row.owner}
  /\ t.row.status = "pending" /\ RevisionAgrees(t)

MayDecide(t) ==
  /\ t.call.op = "withdrawn" => t.row.owner = t.call.caller
  /\ t.row.status = "pending" /\ RevisionAgrees(t)

\* What SaveRequest will write.
Writing(t, p, status) ==
  [pc |-> "writing", call |-> t.call, row |-> t.row, prop |-> p, status |-> status]

UpdateRequest(s) ==
  LET t == tx[s]
      p == Normalized(Patched(t.prop, t.call.patch))
  IN /\ t.pc = "read" /\ t.call.op = "update" /\ MayEdit(t) /\ ValidMask(t.call.patch.paths)
     /\ Complete(p) /\ ValidReferences(p)
     /\ Set(s, Writing(t, p, "pending"))
     /\ UNCHANGED <<Tables, answers>>

\* transitionRequest: withdraw, reject or approve a pending request. What is
\* approved becomes a location with the write.
TransitionRequest(s) ==
  LET t == tx[s] IN
  /\ t.pc = "read" /\ t.call.op \in Decided /\ MayDecide(t)
  /\ t.call.op = "approved" => Complete(t.prop) /\ ValidReferences(t.prop)
  /\ Set(s, Writing(t, t.prop, t.call.op))
  /\ UNCHANGED <<Tables, answers>>

\* The decision that the call asks for has been taken.
SameDecision(t) == t.row.status = t.call.op

\* A repeated decision is told again, and writes nothing.
Repeat(s) ==
  LET t == tx[s] IN
  /\ t.pc = "read" /\ t.call.op \in Decided /\ SameDecision(t)
  /\ t.call.op = "withdrawn" => t.row.owner = t.call.caller
  /\ answers' = answers \cup {[id |-> t.call.id, status |-> t.call.op]}
  /\ Set(s, Idle)
  /\ UNCHANGED Tables

\* UpdateWorkflowRequest writes a row that is still pending at its revision.
Unchanged(t) == rows[t.call.id].status = "pending" /\ rows[t.call.id].revision = t.row.revision
Saving(id) == \E s \in Servers : tx[s].pc = "saved" /\ tx[s].call.id = id

SaveRequest(s) ==
  LET t == tx[s] IN
  /\ t.pc = "writing" /\ ~Saving(t.call.id)
  /\ Set(s, IF Unchanged(t) THEN [t EXCEPT !.pc = "saved"] ELSE Idle)
  /\ UNCHANGED <<Tables, answers>>

\* InsertWorkflowLocation: the location, and the revision that was reviewed.
LocationRow(t) == [from |-> t.call.id, prop |-> t.prop, reviewed |-> t.call.rev]
\* CreateLocation: only approval creates one.
Created(t) == IF t.status = "approved" THEN <<LocationRow(t)>> ELSE <<>>

Commit(s) ==
  LET t == tx[s]
      id == t.call.id
      made == locs \o Created(t)
  IN /\ t.pc = "saved"
     /\ locs' = made
     /\ rows' = [rows EXCEPT ![id] =
          [t.row EXCEPT !.text = t.prop.text, !.supplier = t.prop.supplier, !.status = t.status,
                        !.revision = @ + 1, !.location = IF t.status = "approved" THEN Len(made) ELSE 0]]
     /\ Relink(id, t.prop.cats)
     /\ versions' = [versions EXCEPT ![id] = Append(@, t.prop)]
     /\ answers' = IF t.status \in Decided THEN answers \cup {[id |-> id, status |-> t.status]} ELSE answers
     /\ Set(s, Idle)
     /\ UNCHANGED keys

\* A check refuses the call, a statement fails, or the process stops.
Rollback(s) ==
  /\ tx[s].pc # "idle"
  /\ Set(s, Idle)
  /\ UNCHANGED <<Tables, answers>>

-----------------------------------------------------------------------------
(* The specification *)

CallsOf(c, id) ==
  {[op |-> "update", caller |-> c, id |-> id, rev |-> rev, patch |-> patch] :
     rev \in 1..(MaxRevision - 1), patch \in Patches}
    \cup {[op |-> op, caller |-> c, id |-> id, rev |-> rev] : op \in Decided, rev \in 1..MaxRevision}

\* The proposal of a call, as it came over the wire.
Submitting == \E c \in Owners, k \in Keys, p \in Submitted : SubmitRequest(c, k, p)

RequestsNext ==
  \/ Submitting
  \/ \E k \in Owners \X Keys : KeyExpires(k)
  \/ \E c \in Callers, id \in Requests : GetRequest(c, id)
  \/ \E c \in Callers, status \in {"", "pending"} : ListRequests(c, status)
  \/ \E s \in Servers :
       \/ \E c \in Callers, id \in Requests : \E call \in CallsOf(c, id) : Begin(s, call)
       \/ LockRequest(s) \/ ReadCategories(s) \/ UpdateRequest(s) \/ TransitionRequest(s)
       \/ Repeat(s) \/ SaveRequest(s) \/ Commit(s) \/ Rollback(s)

RequestsSpec == RequestsInit /\ [][RequestsNext]_vars

-----------------------------------------------------------------------------
(* Properties *)

\* The shape of the state. A row and its categories, written by different
\* statements, stay one proposal of the recorded revision, and only suppliers
\* have categories.
RequestsTypeOK ==
  /\ \A id \in Requests : Exists(id) =>
       /\ rows[id] \in RequestRow /\ rows[id].revision = Len(versions[id])
       /\ AsProposal(rows[id], linked[id]) = versions[id][rows[id].revision]
       /\ rows[id].supplier = (linked[id] # {})
  /\ \A s \in Servers : tx[s].pc \in {"idle", "waiting", "locked", "read", "writing", "saved"}

\* The location that an approval creates is the proposal the administrator
\* reviewed: name, hours and categories of the revision named in the call,
\* whatever edits were under way (additionrequest/operations.go, "Compare before
\* creating a Location").
ApprovedAsReviewed ==
  \A i \in DOMAIN locs : locs[i].prop = versions[locs[i].from][locs[i].reviewed]

\* An approved request has one location and nothing else has one, also after
\* competing approvals and failures between the statements.
LocationPerApproval ==
  /\ \A i \in DOMAIN locs : Exists(locs[i].from) /\ rows[locs[i].from].location = i
  /\ \A id \in Requests : Exists(id) /\ rows[id].status = "approved" => rows[id].location \in DOMAIN locs

\* A decision that anybody was told of is the decision of the request, now and
\* later: competing administrators and the owner never both succeed.
AnswersHold == \A a \in answers : rows[a.id].status = a.status

\* Another user's request is answered only when it is approved, without its
\* submitter, by Get and by List alike.
OthersSeeRedacted ==
  \A item \in reply.items :
    reply.caller \in Admins \/ rows[item.id].owner = reply.caller
      \/ (item.status = "approved" /\ item.owner = None)
=============================================================================
