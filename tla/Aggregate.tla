----------------------------- MODULE Aggregate -----------------------------
(***************************************************************************)
(* The order aggregate as every operation of the order service writes it:  *)
(* the transition policy (Transition), the change with its audit row and   *)
(* facts (NewChange), and the transaction that applies it (Mutate, Apply,  *)
(* Within). The sagas of OrderLifecycle decide when to act; here any actor *)
(* may try any action at any time, so that what holds, holds by the policy *)
(* and the transaction alone.                                              *)
(*                                                                         *)
(* The order row is locked from LockOrder to the end of the transaction,   *)
(* so that one mutation is under way at a time. A write of Apply may fail  *)
(* on its own and the operation may swallow that. The offers Apply writes  *)
(* with the order are OrderLifecycle's.                                    *)
(***************************************************************************)
EXTENDS Integers, Sequences, FiniteSets, SequencesExt

CONSTANTS Couriers,     \* users other than the requester
          Actions,      \* the actions that are tried
          MaxRevision,  \* bound on the revisions of the order
          MaxFaults     \* bound on failed writes

VARIABLES
  tables,  \* what is committed: the order, its audit, facts and history
  tx,      \* the transaction that holds the lock of the order
  repeat,  \* the repeat that was just recognised
  faults   \* failed writes so far

vars == <<tables, tx, repeat, faults>>

Nobody == 0
Requester == 1
Users == {Requester} \cup Couriers

Actor(kind, id) == [kind |-> kind, id |-> id]
System == Actor("system", Nobody)
Admin == Actor("admin", Nobody)
Actors == {System, Admin} \cup {Actor("user", u) : u \in Users}

Order(status, courier, pickedUp, delivered, item, pending, revision) ==
  [status |-> status, courier |-> courier, pickedUp |-> pickedUp, delivered |-> delivered,
   item |-> item, pending |-> pending, revision |-> revision]
Missing == Order("none", Nobody, FALSE, FALSE, 0, FALSE, 0)

Tables(order, audit, facts, history) ==
  [order |-> order, audit |-> audit, facts |-> facts, history |-> history]
AuditRow(revision, action, actor, previous, status) ==
  [revision |-> revision, action |-> action, actor |-> actor,
   previous |-> previous, status |-> status]
Fact(revision, kind, courier) == [revision |-> revision, kind |-> kind, courier |-> courier]
Episode(courier, from, to) == [courier |-> courier, from |-> from, to |-> to]
Current == 0

\* A change: the order it was built from and the order it leaves.
Change(action, actor, before, after) ==
  [action |-> action, actor |-> actor, before |-> before, after |-> after]
NoChange == Change("none", System, Missing, Missing)
Tx(pc, change, staged, failed) ==
  [pc |-> pc, change |-> change, staged |-> staged, failed |-> failed]
NoTables == Tables(Missing, <<>>, <<>>, <<>>)
NoTx == Tx("idle", NoChange, NoTables, FALSE)
NoRepeat == [action |-> "none", actor |-> System]

AggregateInit ==
  /\ tables = NoTables
  /\ tx = NoTx
  /\ repeat = NoRepeat
  /\ faults = 0

-----------------------------------------------------------------------------
(* Transition: who may do what, and where it leads.                        *)

Terminal(status) == status \in {"completed", "cancelled", "expired", "failed", "rejected"}
IsRequester(actor) == actor = Actor("user", Requester)
IsCourier(o, actor) == actor.kind = "user" /\ o.courier # Nobody /\ actor.id = o.courier

isActionAllowed(o, action, actor) ==
  CASE o.status = "pending_reservation" ->
         actor = System /\ action \in {"confirm_reservation", "refuse_reservation"}
    [] o.status = "awaiting_courier" ->
         \/ action = "assign" /\ actor.kind = "user" /\ ~IsRequester(actor)
         \/ action = "accept_counteroffer" /\ IsRequester(actor)
         \/ action = "cancel" /\ (IsRequester(actor) \/ actor = Admin)
         \/ action = "expire" /\ actor = System
    [] o.status = "awaiting_pickup" ->
         \/ action \in {"pickup", "withdraw"} /\ IsCourier(o, actor)
         \/ action = "cancel" /\ (IsRequester(actor) \/ actor = Admin)
         \/ action = "unassign" /\ actor = Admin
    [] o.status = "delivering" ->
         \/ action = "deliver" /\ IsCourier(o, actor)
         \/ action = "cancel" /\ (IsRequester(actor) \/ IsCourier(o, actor))
         \/ action = "timeout" /\ actor = System
    [] o.status = "delivered" -> action = "confirm_receipt" /\ IsRequester(actor)
    [] OTHER -> FALSE

Destination(o, action, actor) ==
  CASE action = "confirm_reservation" -> "awaiting_courier"
    [] action = "refuse_reservation" -> "rejected"
    [] action \in {"assign", "accept_counteroffer"} -> "awaiting_pickup"
    [] action = "cancel" -> IF IsCourier(o, actor) THEN "failed" ELSE "cancelled"
    [] action = "expire" -> "expired"
    [] action = "pickup" -> "delivering"
    [] action \in {"withdraw", "unassign"} -> "awaiting_courier"
    [] action = "deliver" -> "delivered"
    [] action = "timeout" -> "failed"
    [] action = "confirm_receipt" -> "completed"

\* Only stored evidence that the same participant succeeded proves a repeat.
IsRepeat(o, action, actor) ==
  \/ action = "assign" /\ o.status = "awaiting_pickup" /\ IsCourier(o, actor)
  \/ action = "pickup" /\ o.status = "delivering" /\ IsCourier(o, actor) /\ ~o.pending
  \/ action = "confirm_receipt" /\ o.status = "completed" /\ IsRequester(actor)

Transitions(o, action, actor) ==
  /\ ~(action = "pickup" /\ o.pending) /\ ~Terminal(o.status)
  /\ isActionAllowed(o, action, actor)

-----------------------------------------------------------------------------
(* NewChange: the fields an action owns, and the records it writes.        *)

\* What an action leaves of the order; courier is whom an accepted counter-
\* offer names, item where a courier left the item.
After(o, action, actor, courier, item) ==
  LET moved == [o EXCEPT !.revision = @ + 1, !.status = Destination(o, action, actor)]
      amended == [o EXCEPT !.revision = @ + 1]
  IN CASE action = "assign" -> [moved EXCEPT !.courier = actor.id]
       [] action = "accept_counteroffer" -> [moved EXCEPT !.courier = courier]
       [] action = "pickup" -> [moved EXCEPT !.pickedUp = TRUE]
       [] action = "deliver" -> [moved EXCEPT !.delivered = TRUE]
       [] action \in {"cancel", "expire", "timeout", "refuse_reservation"} ->
            [moved EXCEPT !.pending = FALSE]
       [] action \in {"withdraw", "unassign"} ->
            [moved EXCEPT !.courier = Nobody, !.pending = FALSE]
       [] action = "begin_withdrawal" -> [amended EXCEPT !.pending = TRUE]
       [] action = "record_item_location" -> [amended EXCEPT !.item = item]
       [] action \in {"propose_offer", "begin_assignment", "resolve_assignment"} -> amended
       [] OTHER -> moved

\* Amendments leave the status and are checked one by one.
Amends(o, action, actor) ==
  \/ action = "begin_withdrawal" /\ o.status = "awaiting_pickup" /\ IsCourier(o, actor) /\ ~o.pending
  \/ /\ action = "record_item_location" /\ IsCourier(o, actor)
     /\ o.pickedUp /\ o.status \in {"cancelled", "failed"}
  \/ /\ action = "propose_offer" /\ o.status = "awaiting_courier"
     /\ actor.kind = "user" /\ ~IsRequester(actor)
  \/ action = "begin_assignment" /\ o.status = "awaiting_courier" /\ actor.kind = "user"
  \/ action = "resolve_assignment" /\ actor.kind = "user"

\* The end of a funded order has an outcome.
HasOutcome(change) == change.after.status \in {"completed", "cancelled", "expired", "failed"}

\* A courier is warned who cancels a delivery or lets it time out.
HasWarning(change) ==
  /\ change.before.status = "delivering"
  /\ \/ change.action = "cancel" /\ IsCourier(change.after, change.actor)
     \/ /\ change.action = "timeout" /\ change.actor = System
        /\ change.after.pickedUp /\ change.after.courier # Nobody

\* An amendment has no facts.
Facts(change) ==
  LET of(kind) == Fact(change.after.revision, kind, change.after.courier)
  IN IF change.after.status = change.before.status THEN <<>>
     ELSE <<of("status_changed")>>
            \o (IF HasOutcome(change) THEN <<of("outcome")>> ELSE <<>>)
            \o (IF HasWarning(change) THEN <<of("courier_warning")>> ELSE <<>>)

Audit(change) ==
  AuditRow(change.after.revision, change.action, change.actor,
           change.before.status, change.after.status)

-----------------------------------------------------------------------------
(* Mutate and Apply.                                                       *)

\* LockOrder: the baseline of the change.
LockOrder == tables.order

\* The change of an action on the locked row.
Built(o, action, actor, courier, item) ==
  Change(action, actor, o, After(o, action, actor, courier, item))

\* A courier who repeats where the item lies writes nothing.
SameLocation(o, action, item) == action = "record_item_location" /\ o.item = item

\* Mutate: the change is built from the locked row.
Begin(action, actor, courier, item) ==
  /\ tx = NoTx
  /\ LockOrder.revision \in 1..(MaxRevision - 1)
  /\ Transitions(LockOrder, action, actor) \/ Amends(LockOrder, action, actor)
  /\ ~SameLocation(LockOrder, action, item)
  /\ tx' = Tx("order", Built(LockOrder, action, actor, courier, item), tables, FALSE)
  /\ repeat' = NoRepeat
  /\ UNCHANGED <<tables, faults>>

NewOrder == Order("pending_reservation", Nobody, FALSE, FALSE, 0, FALSE, 1)
Create ==
  /\ tx = NoTx /\ tables.order = Missing
  /\ tx' = Tx("order", Change("create", Actor("user", Requester), Missing, NewOrder), tables, FALSE)
  /\ repeat' = NoRepeat
  /\ UNCHANGED <<tables, faults>>

\* advance: a recognised repeat writes nothing.
Repeat(action, actor) ==
  /\ tx = NoTx /\ IsRepeat(tables.order, action, actor)
  /\ repeat' = [action |-> action, actor |-> actor]
  /\ UNCHANGED <<tables, tx, faults>>

Staged(next, staged) ==
  /\ tx' = [tx EXCEPT !.pc = next, !.staged = staged]
  /\ repeat' = NoRepeat
  /\ UNCHANGED <<tables, faults>>

InsertOrder == tx.change.before = Missing /\ tx.staged.order = Missing
UpdateOrder == tx.change.before # Missing /\ tx.staged.order.revision = tx.change.before.revision
WriteOrder ==
  /\ tx.pc = "order" /\ (InsertOrder \/ UpdateOrder)
  /\ Staged("history", [tx.staged EXCEPT !.order = tx.change.after])

\* applyAssignmentHistory.
Closed(history) ==
  [k \in DOMAIN history |->
     IF history[k].to = Current
       THEN [history[k] EXCEPT !.to = tx.change.after.revision] ELSE history[k]]
Opened(history) ==
  Append(history, Episode(tx.change.after.courier, tx.change.after.revision, Current))

History(history, from, to) ==
  CASE from = to      -> history
    [] from = Nobody  -> Opened(history)
    [] to = Nobody    -> Closed(history)
    [] OTHER          -> Opened(Closed(history))
WriteHistory ==
  /\ tx.pc = "history"
  /\ Staged("audit", [tx.staged EXCEPT !.history =
       History(@, tx.change.before.courier, tx.change.after.courier)])

WriteAudit ==
  /\ tx.pc = "audit"
  /\ Staged("facts", [tx.staged EXCEPT !.audit = Append(@, Audit(tx.change))])

WriteFacts ==
  /\ tx.pc = "facts"
  /\ Staged("commit", [tx.staged EXCEPT !.facts = @ \o Facts(tx.change)])

\* A write fails: Apply returns and the transaction is poisoned, whether or
\* not the operation returns the failure.
WriteFails ==
  /\ tx.pc \in {"order", "history", "audit", "facts"}
  /\ faults < MaxFaults /\ faults' = faults + 1
  /\ tx' = [tx EXCEPT !.pc = "commit", !.failed = TRUE]
  /\ repeat' = NoRepeat
  /\ UNCHANGED tables

\* Mutant: the transaction is committed when the operation returned nil.
CommittedAnyway == tx.staged

\* Within commits only what no write poisoned.
Committed == IF tx.failed THEN tables ELSE tx.staged
End ==
  /\ tx.pc = "commit"
  /\ tables' = Committed
  /\ tx' = NoTx /\ repeat' = NoRepeat
  /\ UNCHANGED faults

Places == {1, 2}

AggregateNext ==
  \/ Create \/ WriteOrder \/ WriteHistory \/ WriteAudit \/ WriteFacts \/ WriteFails \/ End
  \/ \E action \in Actions, actor \in Actors :
       \/ Repeat(action, actor)
       \/ \E courier \in (IF action = "accept_counteroffer" THEN Couriers ELSE {Nobody}),
             item \in (IF action = "record_item_location" THEN Places ELSE {0}) :
            Begin(action, actor, courier, item)

AggregateSpec == AggregateInit /\ [][AggregateNext]_vars

-----------------------------------------------------------------------------
(* Properties.                                                             *)

Statuses == {"none", "pending_reservation", "awaiting_courier", "awaiting_pickup", "delivering",
             "delivered", "completed", "cancelled", "expired", "failed", "rejected"}
\* The shape of the tables and of the one transaction under way.
AggregateTypeOK ==
  /\ tables.order \in [status: Statuses, courier: Couriers \cup {Nobody}, pickedUp: BOOLEAN,
                       delivered: BOOLEAN, item: Places \cup {0}, pending: BOOLEAN,
                       revision: 0..MaxRevision]
  /\ tx.pc \in {"idle", "order", "history", "audit", "facts", "commit"}
  /\ tx.failed \in BOOLEAN /\ faults \in 0..MaxFaults

\* Order, audit and facts tell the same story: every revision has its audit
\* row, every row begins where the last one ended, and the last one ends where
\* the order is, whatever writes failed on the way.
RecordsAgree ==
  LET audit == tables.audit o == tables.order
  IN /\ Len(audit) = o.revision
     /\ \A k \in DOMAIN audit :
          /\ audit[k].revision = k
          /\ audit[k].previous = (IF k = 1 THEN "none" ELSE audit[k - 1].status)
     /\ o.revision > 0 => Last(audit).status = o.status
     /\ {f.revision : f \in Range(tables.facts)} =
          {k \in DOMAIN audit : audit[k].previous # audit[k].status}

\* The consumers of the outcome are told once, and exactly when the order
\* ended with a reservation to settle; an amendment of a closed order or a
\* repeat tells nothing.
OneOutcome ==
  LET outcomes == {k \in DOMAIN tables.facts : tables.facts[k].kind = "outcome"}
  IN Cardinality(outcomes) =
       IF Terminal(tables.order.status) /\ tables.order.status # "rejected" THEN 1 ELSE 0

\* Who is or was the courier is in the history: the open episode is that of
\* the order's courier, and the episodes of an order do not overlap.
HistoryAgrees ==
  LET h == tables.history
  IN /\ {h[k].courier : k \in {j \in DOMAIN h : h[j].to = Current}}
          = {tables.order.courier} \ {Nobody}
     /\ \A k \in DOMAIN h : k < Len(h) => h[k].to # Current /\ h[k].to <= h[k + 1].from

\* Only a courier who failed a delivery is warned: the order was picked up by
\* that courier and ended by that courier's cancellation or by the timeout.
WarnedForFailure ==
  \A f \in Range(tables.facts) : f.kind = "courier_warning" =>
    /\ tables.order.status = "failed"
    /\ \E row \in Range(tables.audit) : row.action = "pickup" /\ row.actor = Actor("user", f.courier)

\* From the pickup on the courier does not change: on this rests that a repeat
\* of a pickup is the same courier's.
KeepsCourier ==
  tables.order.pickedUp =>
    tables'.order.courier = tables.order.courier /\ tables'.order.pickedUp

\* A repeat is recognised only for the user whose action is in the audit; an
\* assignment may also be the requester's, who accepted that courier's offer.
RepeatIsProven ==
  repeat # NoRepeat =>
    \E row \in Range(tables.audit) :
      \/ row.action = repeat.action /\ row.actor = repeat.actor
      \/ /\ repeat.action = "assign" /\ row.action = "accept_counteroffer"
         /\ Episode(repeat.actor.id, row.revision, Current) \in Range(tables.history)

\* A closed order is amended in where its item lies and in nothing else.
KeepsClosed ==
  Terminal(tables.order.status) =>
    tables'.order = [tables.order EXCEPT !.item = tables'.order.item,
                                         !.revision = tables'.order.revision]
=============================================================================
