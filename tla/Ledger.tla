------------------------------- MODULE Ledger -------------------------------
(***************************************************************************)
(* The ledger of the credit service and what its readers see. Every        *)
(* operation of Credit posts entries in its transaction; users page        *)
(* through theirs with statements that each see a newer state.             *)
(*                                                                         *)
(* An entry carries the time its transaction read before it waited for the *)
(* account, so a transaction that waited posts below entries that are      *)
(* already there. A ledger is kept oldest first; it is listed newest       *)
(* first.                                                                  *)
(***************************************************************************)
EXTENDS Credit, FiniteSets
LOCAL INSTANCE FiniteSetsExt
LOCAL INSTANCE SequencesExt

CONSTANTS Reader,    \* the user who lists entries
          PageSize,
          MaxWaits   \* bound on the entries a waiting transaction is behind

VARIABLES
  ledger,  \* ledger_entries of every user
  list     \* the client that pages through the entries of Reader

ledgerVars == <<ledger, list>>

-----------------------------------------------------------------------------
(* Posting *)

Entry(u, kind, balanceDelta, reservedDelta, o) ==
  [user |-> u, kind |-> kind, balance |-> balanceDelta, reserved |-> reservedDelta, order |-> o]
NoOrder == 0

ChangesSomething(e) == e.balance # 0 \/ e.reserved # 0
EntriesOf(u, entries) == SelectSeq(entries, LAMBDA e : e.user = u /\ ChangesSomething(e))

\* InsertLedgerEntry: entries posted together share their time and keep their
\* order.
Inserted(entries, k, new) ==
  SubSeq(entries, 1, Len(entries) - k) \o new \o SubSeq(entries, Len(entries) - k + 1, Len(entries))

\* Post: postings that change nothing are skipped.
Post(entries) ==
  \E k \in 0..MaxWaits :
    /\ \A u \in Users : EntriesOf(u, entries) # <<>> => k <= Len(ledger[u])
    /\ ledger' = [u \in Users |->
         IF EntriesOf(u, entries) = <<>> THEN ledger[u]
         ELSE Inserted(ledger[u], k, EntriesOf(u, entries))]

\* account.Open: the starting credits of the accounts that are created.
Grants(us) ==
  SetToSeq({Entry(u, "GRANT", StartingCredits, 0, NoOrder) : u \in us \ opened})

-----------------------------------------------------------------------------
(* The operations, with their entries *)

Posting(entries) == Post(entries) /\ UNCHANGED list

OpenPosts(u) == OpenAccount(u) /\ Posting(Grants({u}))

ReservePosts(o) ==
  \E u \in Users, amount \in Amounts :
    /\ Reserve(o, u, amount)
    /\ Posting(Grants({u}) \o
         (IF FirstReserve(o, u, amount) = "OK" THEN <<Entry(u, "RESERVE", 0, amount, o)>> ELSE <<>>))

AdjustPosts(o) ==
  \E a \in Assignments, c \in Users, amount \in Amounts :
    LET r == reservations[o] IN
    /\ AdjustReservation(o, a, c, amount)
    /\ Posting(IF FirstAdjust(o, a, amount) = "OK"
               THEN <<Entry(r.requester, "ADJUST", 0, amount - r.reserved, o)>> ELSE <<>>)

RevertPosts(o) ==
  \E a \in Assignments :
    LET r == reservations[o]
        applied == assignments[o][a].status = "APPLIED" /\ r.status = "ASSIGNED" /\ r.assignment = a
    IN /\ RevertAdjustment(o, a)
       /\ Posting(IF applied THEN <<Entry(r.requester, "REVERT", 0, r.original - r.reserved, o)>> ELSE <<>>)

\* release, of the RPC and of the outcome; a tombstone posts nothing.
ReleaseEntries(o, r) ==
  IF r.status \in {"HELD", "ASSIGNED"} THEN <<Entry(r.requester, "RELEASE", 0, -r.reserved, o)>> ELSE <<>>
ReleasePosts(o) ==
  /\ \E reason \in Reasons :
       ReleaseReservation(o, reason) \/ \E u \in Users : ApplyRelease(o, u, reason)
  /\ Posting(ReleaseEntries(o, reservations[o]))

\* The rest of the hold is given back without an entry.
SettleEntriesNoRefund(o, r, c, payable) ==
  <<Entry(r.requester, "PAYOUT", -payable, -payable, o), Entry(c, "PAYOUT", payable, 0, o)>>
\* The payout on both sides, and the refund of the rest of the hold.
SettleEntries(o, r, c, payable) ==
  << Entry(r.requester, "PAYOUT", -payable, -payable, o),
     Entry(r.requester, "REFUND", 0, -(r.reserved - payable), o),
     Entry(c, "PAYOUT", payable, 0, o) >>
SettlePosts(o) ==
  \E u, c \in Users, type \in PayoutTypes, elapsed \in Elapsed :
    LET r == reservations[o] IN
    /\ Settle(o, u, c, type, elapsed)
    /\ Posting(Grants({r.requester, c}) \o
         SettleEntries(o, r, c, LatenessPayout(assignments[o][r.assignment].offer, type, elapsed, Allowed)))

-----------------------------------------------------------------------------
(* ListMyLedgerEntries, called page by page *)

\* ListLedgerEntries: newest first, LIMIT and OFFSET.
Page(u, n) ==
  LET newest == Reverse(ledger[u])
      first == (n - 1) * PageSize + 1
  IN SubSeq(newest, first, IF first + PageSize - 1 < Len(newest) THEN first + PageSize - 1 ELSE Len(newest))
CountLedgerEntries(u) == Len(ledger[u])
TotalPages(total) == (total + PageSize - 1) \div PageSize

NoList == [pc |-> "idle", page |-> 0, seen |-> {}, began |-> {}]

\* The client begins; a user without an account is told so.
StartList ==
  /\ list = NoList /\ Reader \in opened
  /\ list' = [pc |-> "list", page |-> 1, seen |-> {}, began |-> ToSet(ledger[Reader])]
  /\ UNCHANGED <<vars, ledger>>

\* LedgerEntries reads the page, and then, in another statement, the count.
ReadPage ==
  /\ list.pc = "list"
  /\ list' = [list EXCEPT !.pc = "count", !.seen = @ \cup ToSet(Page(Reader, list.page))]
  /\ UNCHANGED <<vars, ledger>>

\* The client goes on while there are pages.
More(page) == page < TotalPages(CountLedgerEntries(Reader))
ReadCount ==
  /\ list.pc = "count"
  /\ list' = IF More(list.page) THEN [list EXCEPT !.pc = "list", !.page = @ + 1]
             ELSE [list EXCEPT !.pc = "done"]
  /\ UNCHANGED <<vars, ledger>>

-----------------------------------------------------------------------------
(* What the order service is answered with *)

GetAssignment(o, a) == assignments[o][a]
GetOperation(k) == operations[k]
LockReservation(o) == reservations[o]

\* withAdjustment: the offer of an assigned reservation, shown as applied.
WithAdjustment(o, r) ==
  [row |-> r, offer |-> IF r.status = "ASSIGNED" THEN [GetAssignment(o, r.assignment) EXCEPT !.status = "APPLIED"]
                        ELSE NoOffer]
\* GetReservation locks the row, so the offer belongs to it.
GetReservation(o) == WithAdjustment(o, LockReservation(o))
\* A repeated call is answered with the revision that the first one named.
Revision(o, n) == revisions[o][n]
Replayed(k) == WithAdjustment(k[2], Revision(k[2], GetOperation(k).revision))

-----------------------------------------------------------------------------
(* The specification *)

LedgerInit == Init /\ ledger = [u \in Users |-> <<>>] /\ list = NoList

LedgerNext ==
  \/ \E u \in Users : OpenPosts(u)
  \/ \E o \in Orders :
       ReservePosts(o) \/ AdjustPosts(o) \/ RevertPosts(o) \/ ReleasePosts(o) \/ SettlePosts(o)
  \/ StartList \/ ReadPage \/ ReadCount

LedgerSpec == LedgerInit /\ [][LedgerNext]_<<vars, ledgerVars>>

-----------------------------------------------------------------------------
(* Properties *)

Total(u, field, picked) ==
  MapThenSumSet(LAMBDA i : ledger[u][i][field], {i \in 1..Len(ledger[u]) : ledger[u][i].order \in picked})

\* "A user's ledger always sums to their balance and reserved credits"
\* (account/ledger.go), and so does it for every order: its entries add up to
\* what the order holds of the user and has moved to the user, so that a closed
\* order leaves no hold behind in the ledger.
LedgerExplains ==
  \A u \in Users :
    /\ Total(u, "balance", Orders \cup {NoOrder}) = balance[u]
    /\ Total(u, "reserved", Orders \cup {NoOrder}) = reserved[u]
    /\ \A o \in Orders :
         /\ Total(u, "balance", {o}) = EarnedFrom(o, u)
         /\ Total(u, "reserved", {o}) = HeldOf(o, u)
    /\ Cardinality({i \in 1..Len(ledger[u]) : ledger[u][i].kind = "GRANT"}) = IF u \in opened THEN 1 ELSE 0

\* A user who reads page after page sees every entry that was there at the
\* start, although entries are posted meanwhile, some of them below those
\* already listed, and the count is read after the page.
PagesMissNothing == list.pc = "done" => list.began \subseteq list.seen

\* An answer to the order service agrees with itself, also when it repeats an
\* old one after the offer was reverted or the order closed: the offer shown is
\* the one that makes up the hold, and a closed order accounts for what it held.
AnswersAgree ==
  LET Agrees(answer) ==
        answer.row.status = "ASSIGNED" => answer.offer.offer = answer.row.reserved
      Accounts(o, n) ==
        Revision(o, n).status \in {"RELEASED", "SETTLED"} =>
          Revision(o, n).paid + Revision(o, n).returned = IF n = 1 THEN 0 ELSE Revision(o, n - 1).reserved
  IN /\ \A o \in Orders : Agrees(GetReservation(o)) /\ \A n \in 1..Len(revisions[o]) : Accounts(o, n)
     /\ \A k \in Keys : operations[k].status = "DONE" => Agrees(Replayed(k))
=============================================================================
