---------------------------- MODULE Disablements ----------------------------
(***************************************************************************)
(* Disablements of supplier locations: intervals in which a location is    *)
(* marked unavailable. Creating one is idempotent for a key. Transactions  *)
(* run statement by statement on a READ COMMITTED database, and no         *)
(* constraint of the database keeps intervals apart: only the row locks do. *)
(***************************************************************************)
EXTENDS Integers, Sequences, FiniteSets, FiniteSetsExt

CONSTANTS Locations, Keys, Servers,
          Requested,        \* intervals that are asked for
          Edits,            \* edits: an interval and the mask, the ends of it that are taken
          MaxTime,          \* bound on the clock
          KeyLife,          \* how long a retry record lives (24 hours)
          MaxDisablements,  \* bound on rows
          MaxRevision,      \* bound on edits
          None

VARIABLES
  now,       \* the clock
  archived,  \* archived locations
  dis,       \* location_disablements
  keys,      \* supplier_idempotency
  tx,        \* the transaction of every server
  refused    \* the conflict that a create call has just been answered with

vars == <<now, archived, dis, keys, tx, refused>>

Instants == 0..(MaxTime + 1)
Never == MaxTime + 2   \* NULL: no end, not ended, not cancelled
Omitted == Never       \* no start in the call: the interval starts now
Interval == [starts : Instants \cup {Omitted}, ends : Instants \cup {Never}]
Ids == 1..Len(dis)
\* A row of location_disablements.
DisablementRow ==
  [loc : Locations, starts : Instants, ends : Instants \cup {Never}, ended : Instants \cup {Never},
   cancelled : Instants \cup {Never}, revision : Nat]

Idle == [pc |-> "idle", held |-> {}]
\* What a transaction locks: a retry scope, a location or a disablement.
KeyLock(k) == <<"key", k>>
LocationLock(l) == <<"location", l>>
RowLock(d) == <<"row", d>>

DisablementsInit ==
  /\ now = 0
  /\ archived = {}
  /\ dis = <<>>
  /\ keys = [k \in Keys |-> None]
  /\ tx = [s \in Servers |-> Idle]
  /\ refused = None

-----------------------------------------------------------------------------
(* Intervals *)

\* Disablement.State
State(d, t) ==
  CASE d.cancelled # Never -> "cancelled"
    [] d.ended # Never \/ t >= d.ends -> "ended"
    [] t < d.starts -> "scheduled"
    [] OTHER -> "active"

StateInSQLPast(d, t) ==
  IF d.cancelled # Never THEN "cancelled"
  ELSE IF d.ended # Never \/ (d.ends # Never /\ d.ends < t) THEN "ended"
  ELSE IF d.starts > t THEN "scheduled" ELSE "active"
\* The CASE of ListWorkflowDisablements.
StateInSQL(d, t) ==
  IF d.cancelled # Never THEN "cancelled"
  ELSE IF d.ended # Never \/ (d.ends # Never /\ d.ends <= t) THEN "ended"
  ELSE IF d.starts > t THEN "scheduled" ELSE "active"

\* The predicate of CurrentWorkflowDisablement.
InForce(d, t) ==
  d.cancelled = Never /\ d.ended = Never /\ d.starts <= t /\ (d.ends = Never \/ d.ends > t)
\* ListCurrentDisablements shows the newest of those in force.
Current(l, t) == {i \in Ids : dis[i].loc = l /\ InForce(dis[i], t)}

\* The interval that a row occupies, as a half-open range.
Until(d) == Min({d.ends, d.ended})
\* The operator && of half-open ranges: an empty one overlaps nothing.
Meet(a, b, c, d) == a < b /\ c < d /\ a < d /\ c < b
\* WorkflowDisablementOverlap
Overlaps(l, id, starts, ends) ==
  \E i \in Ids \ {id} :
    dis[i].loc = l /\ dis[i].cancelled = Never /\ Meet(dis[i].starts, Until(dis[i]), starts, ends)

Row(l, starts, ends) ==
  [loc |-> l, starts |-> starts, ends |-> ends, ended |-> Never, cancelled |-> Never, revision |-> 1]

\* validateDisablement
ValidInterval(starts, ends) == ends # Never => ends > starts

-----------------------------------------------------------------------------
(* Locks and transactions *)

Set(s, t) == tx' = [tx EXCEPT ![s] = t]
Free(lock) == \A s \in Servers : lock \notin tx[s].held
Same == UNCHANGED <<now, archived, dis, keys>>

\* Within: the transaction commits or is rolled back, and releases what it
\* holds.
End(s) == Set(s, Idle) /\ refused' = None

\* LockWorkflowLocation: FOR UPDATE OF l.
LocationFree(l) == Free(LocationLock(l))

-----------------------------------------------------------------------------
(* CreateDisablement *)

\* The payload that is hashed: the call as given, without the default start.
Hash(in, at) == in

\* Runner.Run: the advisory lock on the scope, then the clock.
LockKey(s, k, in) ==
  /\ tx[s] = Idle /\ Free(KeyLock(k))
  /\ Set(s, [pc |-> "keyed", held |-> {KeyLock(k)}, op |-> "create", key |-> k, in |-> in, at |-> now,
             start |-> IF in.starts = Omitted THEN now ELSE in.starts])
  /\ refused' = None /\ Same

\* GetIdempotency, after DeleteExpiredIdempotency.
Live(k, t) == keys[k] # None /\ keys[k].expires > t

\* ErrAlreadyExists, as the caller is answered.
Conflict(t) == [asked |-> t.in, stored |-> keys[t.key].in]

\* A key without a live record goes on; a known call is answered with its
\* disablement, another call with the same key is refused.
FindKey(s) ==
  LET t == tx[s] IN
  /\ t.pc = "keyed"
  /\ \/ /\ ~Live(t.key, t.at)
        /\ Set(s, [t EXCEPT !.pc = "create"]) /\ refused' = None
     \/ /\ Live(t.key, t.at) /\ keys[t.key].hash = Hash(t.in, t.at)
        /\ Free(RowLock(keys[t.key].id)) /\ End(s)
     \/ /\ Live(t.key, t.at) /\ keys[t.key].hash # Hash(t.in, t.at)
        /\ Set(s, Idle) /\ refused' = Conflict(t)
  /\ Same

\* The row as it is once the lock is held.
ArchivedNow(t) == archived

\* An archived location takes no disablement.
LockForCreate(s) ==
  LET t == tx[s] IN
  /\ t.pc = "create" /\ LocationFree(t.in.loc)
  /\ IF t.in.loc \in ArchivedNow(t)
     THEN End(s)
     ELSE /\ Set(s, [t EXCEPT !.pc = "located", !.held = @ \cup {LocationLock(t.in.loc)}])
          /\ refused' = None
  /\ Same

\* The overlap check, a statement after the lock.
CheckOverlap(s) ==
  LET t == tx[s] IN
  /\ t.pc = "located"
  /\ IF ValidInterval(t.start, t.in.ends) /\ ~Overlaps(t.in.loc, 0, t.start, t.in.ends)
     THEN Set(s, [t EXCEPT !.pc = "insert"]) /\ refused' = None
     ELSE End(s)
  /\ Same

\* InsertIdempotency: the answer is kept until the record expires.
SaveKey(t, id) ==
  keys' = [keys EXCEPT ![t.key] =
             [hash |-> Hash(t.in, t.at), in |-> t.in, id |-> id, expires |-> t.at + KeyLife]]

\* A new row is inserted, a known one is replaced.
SaveDisablement(id, d) ==
  dis' = IF id \in Ids THEN [dis EXCEPT ![id] = d] ELSE Append(dis, d)

\* InsertWorkflowDisablement and InsertIdempotency, which commit together.
Insert(s) ==
  LET t == tx[s] IN
  /\ t.pc = "insert" /\ Len(dis) < MaxDisablements
  /\ SaveDisablement(Len(dis) + 1, Row(t.in.loc, t.start, t.in.ends))
  /\ SaveKey(t, Len(dis) + 1)
  /\ End(s)
  /\ UNCHANGED <<now, archived>>

-----------------------------------------------------------------------------
(* UpdateDisablement *)

\* LockWorkflowDisablement
LockRow(s, op, id, in) ==
  /\ tx[s] = Idle /\ id \in Ids /\ Free(RowLock(id))
  /\ Set(s, [pc |-> op, held |-> {RowLock(id)}, id |-> id, in |-> in])
  /\ refused' = None /\ Same

\* The location is locked second, and the clock is read with both locks held.
\* Only what has not started is edited, at the revision the caller has seen.
LockForUpdate(s) ==
  LET t == tx[s]
      d == dis[t.id]
  IN /\ t.pc = "update" /\ LocationFree(d.loc)
     /\ IF State(d, now) = "scheduled" /\ d.revision = t.in.revision
        THEN /\ Set(s, [t EXCEPT !.pc = "both", !.held = @ \cup {LocationLock(d.loc)}])
             /\ refused' = None
        ELSE End(s)
     /\ Same

\* The fields of the mask, over the row.
Edited(d, in) ==
  [d EXCEPT !.starts = IF "starts_at" \in in.mask THEN in.starts ELSE @,
            !.ends = IF "ends_at" \in in.mask THEN in.ends ELSE @,
            !.revision = @ + 1]

UpdateDisablement(s) ==
  LET t == tx[s]
      d == Edited(dis[t.id], t.in)
  IN /\ t.pc = "both" /\ End(s)
     /\ IF ValidInterval(d.starts, d.ends) /\ ~Overlaps(d.loc, t.id, d.starts, d.ends)
        THEN SaveDisablement(t.id, d)
        ELSE UNCHANGED dis
     /\ UNCHANGED <<now, archived, keys>>

-----------------------------------------------------------------------------
(* EndDisablement and CancelDisablement lock the row only *)

\* What is in force is ended, what has not started is cancelled; anything else
\* is left as it is.
Transitioned(d, target) ==
  CASE target = "ended" /\ State(d, now) = "active" -> [d EXCEPT !.ended = now, !.revision = @ + 1]
    [] target = "cancelled" /\ State(d, now) = "scheduled" -> [d EXCEPT !.cancelled = now, !.revision = @ + 1]
    [] OTHER -> d

TransitionDisablement(s) ==
  LET t == tx[s] IN
  /\ t.pc = "transition"
  /\ SaveDisablement(t.id, Transitioned(dis[t.id], t.in.target))
  /\ End(s)
  /\ UNCHANGED <<now, archived, keys>>

-----------------------------------------------------------------------------
(* The rest of the service *)

\* setArchived of the location admin: under the lock of the location.
SetArchived(l) ==
  /\ Free(LocationLock(l))
  /\ archived' = IF l \in archived THEN archived \ {l} ELSE archived \cup {l}
  /\ refused' = None
  /\ UNCHANGED <<now, dis, keys, tx>>

\* A statement fails or the process stops.
Rollback(s) == tx[s] # Idle /\ End(s) /\ Same

Tick ==
  /\ now < MaxTime
  /\ now' = now + 1
  /\ refused' = None
  /\ UNCHANGED <<archived, dis, keys, tx>>

-----------------------------------------------------------------------------
(* The specification *)

\* The calls of administrators, with what the message gives.
Creating(s) ==
  \E k \in Keys, l \in Locations, i \in Requested :
    LockKey(s, k, [loc |-> l, starts |-> i.starts, ends |-> i.ends])
Editing(s) ==
  \E id \in Ids, i \in Edits, rev \in 1..(MaxRevision - 1) :
    LockRow(s, "update", id, [starts |-> i.starts, ends |-> i.ends, mask |-> i.mask, revision |-> rev])
Transitioning(s) ==
  \E id \in Ids, target \in {"ended", "cancelled"} : LockRow(s, "transition", id, [target |-> target])

DisablementsNext ==
  \/ Tick
  \/ \E l \in Locations : SetArchived(l)
  \/ \E s \in Servers :
       \/ Creating(s) \/ FindKey(s) \/ LockForCreate(s) \/ CheckOverlap(s) \/ Insert(s)
       \/ Editing(s) \/ LockForUpdate(s) \/ UpdateDisablement(s)
       \/ Transitioning(s) \/ TransitionDisablement(s) \/ Rollback(s)

DisablementsSpec == DisablementsInit /\ [][DisablementsNext]_vars

-----------------------------------------------------------------------------
(* Properties *)

\* The shape of the state, with the CHECK constraints of the table: no call is
\* ever refused by disablements_terminal_check, so an interval is ended while
\* it is in force and cancelled before it starts.
DisablementsTypeOK ==
  /\ now \in 0..MaxTime /\ archived \subseteq Locations
  /\ \A i \in Ids : LET d == dis[i] IN
       /\ d \in DisablementRow
       /\ d.ends # Never => d.ends > d.starts
       /\ d.ended # Never => d.cancelled = Never /\ d.ended >= d.starts /\ d.ended <= d.ends
       /\ d.cancelled # Never => d.cancelled < d.starts
  /\ \A k \in Keys : keys[k] # None => keys[k].id \in Ids

\* Two intervals of a location never overlap, although creating, editing,
\* ending and cancelling run side by side and nothing but the locks keeps them
\* apart; at most one disablement is in force.
NoOverlap ==
  /\ \A i \in Ids : dis[i].cancelled = Never => ~Overlaps(dis[i].loc, i, dis[i].starts, Until(dis[i]))
  /\ \A l \in Locations : Cardinality(Current(l, now)) <= 1

\* The state that a list filters by in SQL, the state that the service computes
\* and the disablement that is shown as current are the same thing at every
\* instant, the boundaries of the interval included.
StatesAgree ==
  \A i \in Ids : /\ State(dis[i], now) = StateInSQL(dis[i], now)
                 /\ (i \in Current(dis[i].loc, now)) = (State(dis[i], now) = "active")

\* A repeated call is never taken for a different one with the same key, even
\* when its start is "now" and the clock has moved (disablement/operations.go,
\* "Hash the explicit input, not the clock-derived default start").
RetryRecognised == refused # None => refused.asked # refused.stored

\* A disablement is not created on an archived location: the archive state is
\* read in the transaction of the write (internal/rpc/location-admin.md).
NoneWhenArchived ==
  Len(dis') > Len(dis) => dis'[Len(dis')].loc \notin archived
=============================================================================
