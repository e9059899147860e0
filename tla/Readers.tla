------------------------------ MODULE Readers ------------------------------
(***************************************************************************)
(* What the order service shows of its orders: GetOrder, the lists and     *)
(* ListOffers. A call reads with several statements of one read-only       *)
(* repeatable-read transaction while orders are written, checks the caller *)
(* and the clock before or after it, and projects every order for the      *)
(* caller.                                                                 *)
(*                                                                         *)
(* "assigned" stands for the three states with a courier and "closed" for  *)
(* the terminal ones: the readers do not tell them apart. How orders get   *)
(* there is Aggregate's and OrderLifecycle's; here it is only what a       *)
(* reader can find changed.                                                *)
(***************************************************************************)
EXTENDS Integers, Sequences, FiniteSets
LOCAL INSTANCE SequencesExt

CONSTANTS Callers,       \* who calls: records of Caller
          Requesters,    \* users who create orders
          Couriers,      \* users who take orders and make offers
          Calls,         \* the kinds of calls that are made
          PageSize,
          MaxOrders,     \* bound on the orders
          MaxEpisodes,   \* bound on the couriers an order has had
          MaxOvertakes   \* bound on the writes during one call

VARIABLES
  rows,    \* the orders, oldest first
  lapsed,  \* the orders whose expires_at the clock has passed
  call     \* the call under way

vars == <<rows, lapsed, call>>

Nobody == 0
Caller(id, admin, suspended) == [id |-> id, admin |-> admin, suspended |-> suspended]
Users == Requesters \cup Couriers
Orders == 1..Len(rows)

\* An order with the history of its couriers and, per courier, the statuses of
\* the offers.
Row(requester) ==
  [requester |-> requester, courier |-> Nobody, status |-> "pending",
   history |-> <<>>, offers |-> [u \in Couriers |-> {}]]

IsList(op) == op \in {"open", "mine", "user"}
NoAnswer == [code |-> "none", views |-> <<>>, total |-> 0, offers |-> {}]
Refusal(code) == [NoAnswer EXCEPT !.code = code]
NoCall ==
  [pc |-> "idle", kind |-> [op |-> "none"], caller |-> Caller(Nobody, FALSE, FALSE), order |-> 0, page |-> 0,
   now |-> {}, snap |-> <<>>, found |-> <<>>, answer |-> NoAnswer, overtaken |-> 0,
   member |-> {}, began |-> {}, seen |-> {}]

-----------------------------------------------------------------------------
(* What happens to the orders meanwhile *)

\* A write; the call under way is overtaken by it, and notes the orders whose
\* participant the caller becomes.
Overtakable == call.pc # "done" /\ call.overtaken < MaxOvertakes
Write(new) ==
  /\ Overtakable
  /\ rows' = new
  /\ call' = IF call = NoCall THEN call
             ELSE [call EXCEPT !.overtaken = @ + 1,
                    !.member = @ \cup {o \in DOMAIN new : call.caller.id \in {new[o].requester, new[o].courier}}]
  /\ UNCHANGED lapsed
Change(o, new) == Write([rows EXCEPT ![o] = new])

CreateOrder(u) == Len(rows) < MaxOrders /\ Write(Append(rows, Row(u)))
Confirm(o) == rows[o].status = "pending" /\ Change(o, [rows[o] EXCEPT !.status = "open"])
Void(statuses) == {IF s = "open" THEN "void" ELSE s : s \in statuses}
Propose(o, u) ==
  /\ rows[o].status = "open" /\ u # rows[o].requester
  /\ Change(o, [rows[o] EXCEPT !.offers[u] = Void(@) \cup {"open"}])
Assign(o, u) ==
  /\ rows[o].status = "open" /\ o \notin lapsed /\ u # rows[o].requester
  /\ Len(rows[o].history) < MaxEpisodes
  /\ Change(o, [rows[o] EXCEPT !.status = "assigned", !.courier = u, !.history = Append(@, u),
                               !.offers = [v \in Couriers |-> Void(@[v])]])
Unassign(o) ==
  /\ rows[o].status = "assigned"
  /\ Change(o, [rows[o] EXCEPT !.status = "open", !.courier = Nobody])
Close(o) ==
  /\ rows[o].status # "closed"
  /\ Change(o, [rows[o] EXCEPT !.status = "closed", !.offers = [v \in Couriers |-> Void(@[v])]])
Lapse(o) ==
  /\ o \notin lapsed /\ rows[o].status = "open" /\ Overtakable
  /\ lapsed' = lapsed \cup {o}
  /\ call' = IF call = NoCall THEN call ELSE [call EXCEPT !.overtaken = @ + 1]
  /\ UNCHANGED rows

-----------------------------------------------------------------------------
(* Who sees what *)

IsRequestedBy(row, u) == row.requester = u
IsAssignedTo(row, u) == row.courier # Nobody /\ row.courier = u
HasParticipant(row, u) == IsRequestedBy(row, u) \/ IsAssignedTo(row, u)
HasAssignmentHistory(row, u) == \E i \in 1..Len(row.history) : row.history[i] = u

\* The part of GetOrder, and of Offers, for those who are not involved.
Browsable(c, row, expired) == ~c.suspended /\ row.status = "open" /\ ~expired
GetVisible(c, row, expired) ==
  \/ c.admin \/ HasParticipant(row, c.id) \/ HasAssignmentHistory(row, c.id)
  \/ Browsable(c, row, expired)

\* A prior offer gives access to the courier's own offers.
OrderOffers(row) == {<<u, s>> \in Couriers \X {"open", "void"} : s \in row.offers[u]}
OwnOffers(c, row) == \E x \in OrderOffers(row) : x[1] = c.id
OffersVisible(c, row, expired) ==
  c.admin \/ HasParticipant(row, c.id) \/ OwnOffers(c, row) \/ Browsable(c, row, expired)
OffersShown(c, row, status) ==
  {x \in OrderOffers(row) :
     status \in {"any", x[2]} /\ (c.admin \/ IsRequestedBy(row, c.id) \/ x[1] = c.id)}

\* The WHERE of ListOrders and CountOrders: the open orders of others, or the
\* orders in which a user has a role.
OpenOnly(c, o, row, expired) == row.status = "open" /\ ~IsRequestedBy(row, c.id) /\ o \notin expired
InRole(row, u, role) ==
  \/ role \in {"any", "requester"} /\ IsRequestedBy(row, u)
  \/ role \in {"any", "courier"} /\ (IsAssignedTo(row, u) \/ HasAssignmentHistory(row, u))
Matches(c, kind, o, row, expired) ==
  IF kind.op = "open" THEN OpenOnly(c, o, row, expired)
  ELSE InRole(row, IF kind.op = "mine" THEN c.id ELSE kind.user, kind.role)

\* ListOrders: newest first, LIMIT and OFFSET; CountOrders.
Matching(c, kind, table, expired) ==
  SelectSeq([i \in 1..Len(table) |-> Len(table) + 1 - i], LAMBDA o : Matches(c, kind, o, table[o], expired))
ListOrders(found, page) ==
  LET first == (page - 1) * PageSize + 1
  IN SubSeq(found, first, IF first + PageSize - 1 < Len(found) THEN first + PageSize - 1 ELSE Len(found))
CountOrders(found) == Len(found)
TotalPages(total) == IF total = 0 THEN 0 ELSE (total - 1) \div PageSize + 1

\* ProjectForCaller and OrderView: the destination, and links to the images,
\* for participants.
ProjectForCaller(c, o, row) ==
  [order |-> o, status |-> row.status, courier |-> row.courier, exact |-> HasParticipant(row, c.id)]
OrderView(c, o, row) ==
  [view |-> ProjectForCaller(c, o, row), images |-> HasParticipant(row, c.id)]

-----------------------------------------------------------------------------
(* A call *)

Forbidden(c, kind) == (kind.op = "open" /\ c.suspended) \/ (kind.op = "user" /\ ~c.admin)

\* The checks before anything is read; a list reads the clock for its query.
Begin(c, kind, o) ==
  /\ call = NoCall
  /\ call' =
       LET fresh == [NoCall EXCEPT !.kind = kind, !.caller = c, !.order = o, !.page = 1, !.now = lapsed,
                       !.member = {p \in Orders : HasParticipant(rows[p], c.id)},
                       !.began = IF IsList(kind.op) THEN ToSet(Matching(c, kind, rows, lapsed)) ELSE {}]
       IN IF Forbidden(c, kind) THEN [fresh EXCEPT !.pc = "done", !.answer = Refusal("forbidden")]
          ELSE [fresh EXCEPT !.pc = "first"]
  /\ UNCHANGED <<rows, lapsed>>

CallGet(c, o) == \E kind \in Calls : kind.op = "get" /\ Begin(c, kind, o)
CallOffers(c, o) == \E kind \in Calls : kind.op = "offers" /\ Begin(c, kind, o)
CallOpen(c) == \E kind \in Calls : kind.op = "open" /\ Begin(c, kind, 0)
CallMine(c) == \E kind \in Calls : kind.op = "mine" /\ Begin(c, kind, 0)
CallUser(c) == \E kind \in Calls : kind.op = "user" /\ Begin(c, kind, 0)

\* The first statement fixes what the transaction sees.
\* Mutant: every statement sees what is committed.
SnapshotCommitted == rows
Snapshot == call.snap
FirstStatement ==
  /\ call.pc = "first"
  /\ call' = [call EXCEPT !.pc = "second", !.snap = rows,
       !.found = IF IsList(call.kind.op)
                 THEN ListOrders(Matching(call.caller, call.kind, rows, call.now), call.page) ELSE <<>>]
  /\ UNCHANGED <<rows, lapsed>>

\* The rest: the count, the history or the offers, and the answer.
List ==
  /\ call.pc = "second" /\ IsList(call.kind.op)
  /\ LET total == CountOrders(Matching(call.caller, call.kind, Snapshot, call.now))
     IN call' = [call EXCEPT !.pc = "view", !.seen = @ \cup ToSet(call.found),
          !.answer = [code |-> "ok", total |-> total, offers |-> {},
                      views |-> [i \in 1..Len(call.found) |->
                        OrderView(call.caller, call.found[i], call.snap[call.found[i]])]]]
  /\ UNCHANGED <<rows, lapsed>>
GetOrder ==
  /\ call.pc = "second" /\ call.kind.op = "get"
  /\ call' = [call EXCEPT !.pc = "view", !.answer =
       IF GetVisible(call.caller, Snapshot[call.order], call.order \in lapsed)
       THEN [code |-> "ok", total |-> 1, offers |-> {},
             views |-> <<OrderView(call.caller, call.order, call.snap[call.order])>>]
       ELSE Refusal("not_found")]
  /\ UNCHANGED <<rows, lapsed>>
Offers ==
  /\ call.pc = "second" /\ call.kind.op = "offers"
  /\ call' = [call EXCEPT !.pc = "done", !.answer =
       IF OffersVisible(call.caller, Snapshot[call.order], call.order \in lapsed)
       THEN [code |-> "ok", total |-> 1, views |-> <<>>,
             offers |-> OffersShown(call.caller, Snapshot[call.order], call.kind.status)]
       ELSE Refusal("not_found")]
  /\ UNCHANGED <<rows, lapsed>>

\* ForOrder signs the links; a view whose links cannot be signed fails the call.
\* The client of a list asks for the next page while there is one.
Signed(views) == \E i \in 1..Len(views) : views[i].images
NextPage(answer) == IsList(call.kind.op) /\ answer.code = "ok" /\ call.page < TotalPages(answer.total)
Views ==
  /\ call.pc = "view"
  /\ \/ call' = IF NextPage(call.answer)
                THEN [call EXCEPT !.pc = "first", !.page = @ + 1, !.now = lapsed, !.snap = <<>>, !.found = <<>>]
                ELSE [call EXCEPT !.pc = "done"]
     \/ Signed(call.answer.views) /\ call' = [call EXCEPT !.pc = "done", !.answer = Refusal("unavailable")]
  /\ UNCHANGED <<rows, lapsed>>

\* The client has the answer.
Return == call.pc = "done" /\ call' = NoCall /\ UNCHANGED <<rows, lapsed>>

-----------------------------------------------------------------------------
(* The specification *)

ReadersInit == rows = <<>> /\ lapsed = {} /\ call = NoCall

ReadersNext ==
  \/ \E u \in Requesters : CreateOrder(u)
  \/ \E o \in Orders :
       \/ Confirm(o) \/ Unassign(o) \/ Close(o) \/ Lapse(o)
       \/ \E u \in Couriers : Propose(o, u) \/ Assign(o, u)
       \/ \E c \in Callers : CallGet(c, o) \/ CallOffers(c, o)
  \/ \E c \in Callers : CallOpen(c) \/ CallMine(c) \/ CallUser(c)
  \/ FirstStatement \/ List \/ GetOrder \/ Offers \/ Views \/ Return

ReadersSpec == ReadersInit /\ [][ReadersNext]_vars

-----------------------------------------------------------------------------
(* Properties *)

\* What the Go code lets a caller open is what the queries list: outside the
\* lists of an administrator, an order is found by GetOrder exactly when it is
\* in ListMyOrders or in ListOpenOrders, before, during and after a courier's
\* time with it.
ListedIsFound ==
  LET mine == [op |-> "mine", role |-> "any"]
      open == [op |-> "open"]
  IN \A c \in Callers : ~c.admin => \A o \in Orders :
       GetVisible(c, rows[o], o \in lapsed) <=>
         \/ Matches(c, mine, o, rows[o], lapsed)
         \/ ~Forbidden(c, open) /\ Matches(c, open, o, rows[o], lapsed)

\* The page of a list and its total belong together, although orders are
\* created, taken and closed between the two statements.
PageAgreesWithTotal ==
  LET a == call.answer
      rest == a.total - (call.page - 1) * PageSize
  IN IsList(call.kind.op) /\ call.pc \in {"view", "done"} /\ a.code = "ok" =>
       Len(a.views) = IF rest < 0 THEN 0 ELSE IF rest < PageSize THEN rest ELSE PageSize

\* The destination and the images reach only a caller who was a participant at
\* some moment of the call: a courier who gave the order up before it, an
\* administrator or a browser sees neither.
ShownToParticipants ==
  \A i \in 1..Len(call.answer.views) :
    LET v == call.answer.views[i]
    IN v.view.exact \/ v.images => v.view.order \in call.member

\* A user who pages through the orders of their own sees every order that was
\* listed when they began: orders are added to that list, never taken away.
OwnPagesMissNothing ==
  call.pc = "done" /\ call.kind.op = "mine" /\ call.answer.code = "ok" => call.began \subseteq call.seen

\* An offer in an answer is the caller's own, or about an order of which the
\* caller was the requester; and whoever made one always finds it.
OffersReachTheirMaker ==
  /\ call.kind.op = "offers" /\ call.answer.code = "ok" /\ ~call.caller.admin =>
       \A x \in call.answer.offers : x[1] = call.caller.id \/ call.order \in call.member
  /\ call.kind.op = "offers" /\ call.answer.code = "not_found" => ~OwnOffers(call.caller, call.snap[call.order])
=============================================================================
