------------------------------- MODULE Reviews ------------------------------
(***************************************************************************)
(* Reviews between the participants of an order. A review and the number   *)
(* and mean of the ratings of its reviewee are written in one transaction  *)
(* on a READ COMMITTED database: each statement sees what is committed     *)
(* when it starts, a writer waits for the row locks and for the unique     *)
(* entries of transactions that have not ended. The mean is kept as the    *)
(* sum and the count it is computed from.                                  *)
(***************************************************************************)
EXTENDS Integers, Sequences, FiniteSets, FiniteSetsExt

CONSTANTS Users, Orders, Ratings, Servers,
          MaxReviews,  \* bound on the rows of reviews
          None

VARIABLES
  reviews,   \* reviews, in the order of their commits
  removals,  \* review_removals: the review of each row
  stats,     \* users.review_count and the sum behind users.avg_rating
  tx         \* the transaction of every server

vars == <<reviews, removals, stats, tx>>

Ids == 1..Len(reviews)
Idle == [pc |-> "idle"]

ReviewsInit ==
  /\ reviews = <<>>
  /\ removals = <<>>
  /\ stats = [u \in Users |-> [count |-> 0, sum |-> 0]]
  /\ tx = [s \in Servers |-> Idle]

Set(s, t) == tx' = [tx EXCEPT ![s] = t]
Step(s, t) == Set(s, t) /\ UNCHANGED <<reviews, removals, stats>>
Active(s) == tx[s] # Idle
Others(s) == {q \in Servers \ {s} : Active(q)}

-----------------------------------------------------------------------------
(* Row locks *)

\* The foreign keys of an inserted review hold FOR KEY SHARE on both users.
Shares(q, u) == tx[q].pc \in {"written", "locked", "counted"} /\ tx[q].op = "submit"
                /\ u \in {tx[q].row.from, tx[q].row.to}
\* LockReviewee, and the update of the same row.
Locks(q, u) == tx[q].pc \in {"locked", "counted"} /\ tx[q].row.to = u

\* Mutant: the lock is FOR UPDATE, which conflicts with the shared locks too.
ForUpdate(q, u) == Locks(q, u) \/ Shares(q, u)

\* FOR NO KEY UPDATE conflicts with itself, and not with FOR KEY SHARE.
ForNoKeyUpdate(q, u) == Locks(q, u)

\* What LockReviewee of server s waits for.
LockWaits(s) == \E q \in Others(s) : ForNoKeyUpdate(q, tx[s].row.to)

-----------------------------------------------------------------------------
(* SubmitReview *)

\* Rows of one order with the same reviewer or the same reviewee.
Same(a, b) == a.order = b.order /\ (a.from = b.from \/ a.to = b.to)

\* The unique indexes also hold the rows that were removed.
Duplicate(row) == \E i \in Ids : Same(reviews[i], row)

\* An insert waits for the fate of an equal entry.
InsertWaits(s) ==
  \E q \in Others(s) : tx[q].pc \in {"written", "locked", "counted"} /\ tx[q].op = "submit"
                       /\ Same(tx[q].row, tx[s].row)

Review(from, to, o, r) == [from |-> from, to |-> to, order |-> o, rating |-> r, live |-> TRUE]

\* CheckReviewParticipants: both exist, and nobody reviews themselves.
Participants(from, to) == from # to /\ {from, to} \subseteq Users

\* The reviewer is the caller.
BeginSubmit(s, from, to, o, r) ==
  /\ ~Active(s) /\ Participants(from, to)
  /\ Step(s, [pc |-> "insert", op |-> "submit", row |-> Review(from, to, o, r)])

InsertReview(s) ==
  LET t == tx[s] IN
  /\ t.pc = "insert" /\ ~InsertWaits(s)
  /\ Step(s, IF Duplicate(t.row) THEN Idle
             ELSE [pc |-> "written", op |-> "submit", row |-> t.row, seen |-> reviews])

-----------------------------------------------------------------------------
(* RemoveReview, by an administrator *)

\* SoftDeleteReview. A removal under way holds the row:
\* the second one waits, and then finds no live review.
SoftDeleteReview(s, id) ==
  /\ reviews[id].live
  /\ \A q \in Others(s) : ~(tx[q].op = "remove" /\ tx[q].id = id)
  /\ Step(s, [pc |-> "written", op |-> "remove", id |-> id, row |-> reviews[id], seen |-> reviews])

RemoveReview(s, id) == ~Active(s) /\ id \in Ids /\ SoftDeleteReview(s, id)

-----------------------------------------------------------------------------
(* RecalculateStats and commit *)

LockReviewee(s) ==
  /\ tx[s].pc = "written" /\ ~LockWaits(s)
  /\ Step(s, [tx[s] EXCEPT !.pc = "locked"])

\* The table as the transaction will leave it, from what it can see of it.
Written(t, rows) ==
  IF t.op = "submit" THEN Append(rows, t.row) ELSE [rows EXCEPT ![t.id].live = FALSE]

StatisticsOf(u, rows) ==
  LET mine == {i \in 1..Len(rows) : rows[i].to = u /\ rows[i].live}
  IN [count |-> Cardinality(mine), sum |-> MapThenSumSet(LAMBDA i : rows[i].rating, mine)]

SeenByLock(t) == t.seen
\* A statement of its own after the lock, so it sees what the transaction that
\* held the lock has committed.
SeenAfterLock(t) == reviews

RevieweeStatistics(s) ==
  LET t == tx[s] IN
  /\ t.pc = "locked"
  /\ Step(s, [pc |-> "counted", op |-> t.op, row |-> t.row, id |-> IF t.op = "remove" THEN t.id ELSE None,
              stats |-> StatisticsOf(t.row.to, Written(t, SeenAfterLock(t)))])

\* RecordReviewRemoval: one audit row, with the review's participants.
Recorded(t) == IF t.op = "remove" THEN Append(removals, t.id) ELSE removals

StoreStats(t) == stats' = [stats EXCEPT ![t.row.to] = t.stats]

\* UpdateRevieweeStats, and the commit of the three statements.
UpdateRevieweeStats(s) ==
  LET t == tx[s] IN
  /\ t.pc = "counted" /\ Len(reviews) < MaxReviews + 1
  /\ reviews' = Written(t, reviews)
  /\ removals' = Recorded(t)
  /\ StoreStats(t)
  /\ Set(s, Idle)

\* A statement fails or the process stops.
Rollback(s) == Active(s) /\ Step(s, Idle)

-----------------------------------------------------------------------------
(* The specification *)

Underway == Cardinality({s \in Servers : Active(s) /\ tx[s].op = "submit"})

ReviewsNext ==
  \E s \in Servers :
    \/ /\ Len(reviews) + Underway < MaxReviews
       /\ \E from, to \in Users, o \in Orders, r \in Ratings : BeginSubmit(s, from, to, o, r)
    \/ InsertReview(s)
    \/ \E id \in Ids : RemoveReview(s, id)
    \/ LockReviewee(s) \/ RevieweeStatistics(s) \/ UpdateRevieweeStats(s) \/ Rollback(s)

ReviewsSpec == ReviewsInit /\ [][ReviewsNext]_vars

-----------------------------------------------------------------------------
(* Properties *)

\* The shape of the state. A review that is not live has exactly one row in
\* the audit, although two administrators may remove it at once.
ReviewsTypeOK ==
  /\ \A i \in Ids : reviews[i].from # reviews[i].to /\ reviews[i].rating \in Ratings
  /\ \A i \in Ids : ~reviews[i].live = (\E k \in 1..Len(removals) : removals[k] = i)
  /\ \A k, n \in 1..Len(removals) : removals[k] = removals[n] => k = n

\* The count and the mean of a user are those of the live reviews, in every
\* committed state: concurrent submissions and removals about one user leave
\* no rating out (postgres_repository.go, "the lock-then-read-then-write order
\* matters").
StatsCurrent == \A u \in Users : stats[u] = StatisticsOf(u, reviews)

\* A participant gives and receives at most one review per order, and a review
\* that was removed is not written again.
OneReviewEver == \A i, k \in Ids : Same(reviews[i], reviews[k]) => i = k

\* Some transaction can always go on: two participants who review each other
\* at once do not lock each other out (the LockReviewee query, on FOR NO KEY
\* UPDATE).
SomeoneProceeds ==
  (\E s \in Servers : Active(s)) =>
    \E s \in Servers : /\ Active(s)
                       /\ tx[s].pc = "insert" => ~InsertWaits(s)
                       /\ tx[s].pc = "written" => ~LockWaits(s)
=============================================================================
