----------------------------- MODULE Onboarding -----------------------------
(***************************************************************************)
(* How a new user gets a credit account. Registration writes the user and  *)
(* a row of user_created_outbox in one transaction; relays of the user     *)
(* service publish the rows to users.create; the subscription of Credit    *)
(* opens an account with the starting credits for every event. Accounts    *)
(* are also opened by the reservations and payouts that first touch them,  *)
(* in transactions that lock several accounts.                             *)
(***************************************************************************)
EXTENDS Integers, Sequences, FiniteSets, SequencesExt

CONSTANTS Users,    \* numbers, in the order of their UUIDs
          Relays, Openers,
          MaxLog,   \* bound on the deliveries of an event to the topic
          None

VARIABLES
  row,     \* user_created_outbox, by user
  relay,   \* the relay of every instance of the user service
  log,     \* the topic users.create
  offset,  \* events that Credit's consumer group has committed
  grants,  \* GRANT entries of the ledger; an account has one
  tx       \* Credit's transactions; the consumer's is one of them

vars == <<row, relay, log, offset, grants, tx>>

Idle == [pc |-> "idle", user |-> None]
NoTx == [pc |-> "none", next |-> <<>>, held |-> {}, made |-> {}]
Consumer == "consumer"
Everyone == Openers \cup {Consumer}

OnboardingInit ==
  /\ row = [u \in Users |-> None]
  /\ relay = [r \in Relays |-> Idle]
  /\ log = <<>>
  /\ offset = 0
  /\ grants = [u \in Users |-> 0]
  /\ tx = [o \in Everyone |-> NoTx]

userVars == <<row, relay>>
creditVars == <<offset, grants, tx>>

-----------------------------------------------------------------------------
(* Registration and the relay of the user service *)

\* A row of user_created_outbox as it is appended.
NewFact == [published |-> FALSE, lease |-> None, live |-> FALSE, due |-> TRUE]

\* The user, the session and the fact commit together. An administrator made
\* by the bootstrap has no fact and is not one of Users.
Register(u) ==
  /\ row[u] = None
  /\ row' = [row EXCEPT ![u] = NewFact]
  /\ UNCHANGED <<relay, log>> /\ UNCHANGED creditVars

Goto(r, pc, u) == relay' = [relay EXCEPT ![r] = [pc |-> pc, user |-> u]]

\* The oldest row is claimed first; the order of the rows makes no difference
\* to what is claimed in the end, so any one is.
Claim(r, u) ==
  /\ relay[r] = Idle /\ row[u] # None
  /\ ~row[u].published /\ row[u].due /\ ~row[u].live
  /\ row' = [row EXCEPT ![u].lease = r, ![u].live = TRUE]
  /\ Goto(r, "claimed", u)
  /\ UNCHANGED log /\ UNCHANGED creditVars

\* claimLease has passed.
LeaseRunsOut(u) ==
  /\ row[u] # None /\ row[u].live
  /\ row' = [row EXCEPT ![u].live = FALSE]
  /\ UNCHANGED <<relay, log>> /\ UNCHANGED creditVars

Publish(r) ==
  /\ relay[r].pc = "claimed" /\ Len(log) < MaxLog
  /\ log' = Append(log, relay[r].user)
  /\ Goto(r, "sent", relay[r].user)
  /\ UNCHANGED row /\ UNCHANGED creditVars

\* The broker has not taken the event, or its acknowledgement was lost.
PublishFails(r) ==
  /\ relay[r].pc = "claimed"
  /\ \/ UNCHANGED log
     \/ Len(log) < MaxLog /\ log' = Append(log, relay[r].user)
  /\ Goto(r, "failed", relay[r].user)
  /\ UNCHANGED row /\ UNCHANGED creditVars

Owns(r, u) == row[u].lease = r /\ ~row[u].published

\* A lease that has run out or was taken over acknowledges nothing.
Published(r) ==
  LET u == relay[r].user IN
  /\ relay[r].pc = "sent"
  /\ row' = IF Owns(r, u) /\ row[u].live
            THEN [row EXCEPT ![u].published = TRUE, ![u].lease = None, ![u].live = FALSE] ELSE row
  /\ Goto(r, "idle", None)
  /\ UNCHANGED log /\ UNCHANGED creditVars

\* Retry does not ask whether the lease is live.
Retry(r) ==
  LET u == relay[r].user IN
  /\ relay[r].pc = "failed"
  /\ row' = IF Owns(r, u) THEN [row EXCEPT ![u].lease = None, ![u].live = FALSE, ![u].due = FALSE] ELSE row
  /\ Goto(r, "idle", None)
  /\ UNCHANGED log /\ UNCHANGED creditVars

\* retryDelay has passed.
Due(u) ==
  /\ row[u] # None /\ ~row[u].due
  /\ row' = [row EXCEPT ![u].due = TRUE]
  /\ UNCHANGED <<relay, log>> /\ UNCHANGED creditVars

\* The instance stops, or a statement of it fails: the lease stays.
RelayStops(r) ==
  /\ relay[r] # Idle
  /\ Goto(r, "idle", None)
  /\ UNCHANGED <<row, log>> /\ UNCHANGED creditVars

-----------------------------------------------------------------------------
(* account.Open, for the accounts of one transaction in turn *)

Set(o, t) == tx' = [tx EXCEPT ![o] = t]

AsGiven(us) == us
\* LockAccounts: each account once, in the order of the UUIDs.
LockOrder(us) == SortSeq(us, <)

Begin(o, us) ==
  /\ tx[o] = NoTx
  /\ Set(o, [pc |-> "opening", next |-> LockOrder(us), held |-> {}, made |-> {}])
  /\ UNCHANGED userVars /\ UNCHANGED <<log, offset, grants>>

\* InsertAccount waits for a transaction that inserts the same key, LockAccount
\* for one that has locked the row.
Waits(o) == tx[o].pc = "opening" /\ \E p \in Everyone \ {o} : Head(tx[o].next) \in tx[p].held

\* ON CONFLICT DO NOTHING: one row when the key is free at the insert.
Created(t, u) == grants[u] = 0

Open(o) ==
  LET t == tx[o]
      u == Head(t.next)
      rest == Tail(t.next)
  IN /\ t.pc = "opening" /\ ~Waits(o)
     /\ Set(o, [t EXCEPT !.pc = IF rest = <<>> THEN "open" ELSE "opening", !.next = rest,
                         !.held = @ \cup {u}, !.made = IF Created(t, u) THEN @ \cup {u} ELSE @])
     /\ UNCHANGED userVars /\ UNCHANGED <<log, offset, grants>>

\* The grants of the accounts that the transaction has created.
CommitOpen(o) ==
  /\ tx[o].pc = "open"
  /\ grants' = [u \in Users |-> IF u \in tx[o].made THEN grants[u] + 1 ELSE grants[u]]
  /\ Set(o, IF o = Consumer THEN [NoTx EXCEPT !.pc = "handled"] ELSE NoTx)
  /\ UNCHANGED userVars /\ UNCHANGED <<log, offset>>

\* A statement fails or the process stops; the consumer starts again from the
\* committed offset.
Rollback(o) ==
  /\ tx[o] # NoTx
  /\ Set(o, NoTx)
  /\ UNCHANGED userVars /\ UNCHANGED <<log, offset, grants>>

-----------------------------------------------------------------------------
(* Credit's subscription to users.create *)

Deliver ==
  /\ tx[Consumer] = NoTx /\ offset < Len(log)
  /\ Begin(Consumer, <<log[offset + 1]>>)

CommitEarly ==
  /\ tx[Consumer].pc \in {"open", "handled"}
  /\ offset' = offset + 1
  /\ Set(Consumer, NoTx)
  /\ UNCHANGED userVars /\ UNCHANGED <<log, grants>>
\* The offset is committed after the handler has returned without an error.
CommitOffset ==
  /\ tx[Consumer].pc = "handled"
  /\ offset' = offset + 1
  /\ Set(Consumer, NoTx)
  /\ UNCHANGED userVars /\ UNCHANGED <<log, grants>>

-----------------------------------------------------------------------------
(* The specification *)

OnboardingNext ==
  \/ \E u \in Users : Register(u) \/ LeaseRunsOut(u) \/ Due(u)
  \/ \E r \in Relays :
       \/ \E u \in Users : Claim(r, u)
       \/ Publish(r) \/ PublishFails(r) \/ Published(r) \/ Retry(r) \/ RelayStops(r)
  \/ \E o \in Openers, u, v \in Users : Begin(o, IF u = v THEN <<u>> ELSE <<u, v>>)
  \/ \E o \in Everyone : Open(o) \/ CommitOpen(o) \/ Rollback(o)
  \/ Deliver \/ CommitOffset

\* Relays poll on a ticker, the subscription restarts after each failure, and
\* leases and delays pass by themselves. Failures may repeat, but the broker
\* and the databases work often enough for a call that is tried again and
\* again to succeed.
TimePasses(u) == LeaseRunsOut(u) \/ Due(u)
RelayStep(r) == (\E u \in Users : Claim(r, u)) \/ Published(r) \/ Retry(r)
OnboardingFairness ==
  /\ \A u \in Users : WF_vars(TimePasses(u))
  /\ \A r \in Relays : WF_vars(RelayStep(r)) /\ SF_vars(Publish(r))
  /\ \A o \in Everyone : SF_vars(Open(o)) /\ SF_vars(CommitOpen(o))
  /\ WF_vars(Deliver)

OnboardingSpec == OnboardingInit /\ [][OnboardingNext]_vars /\ OnboardingFairness

-----------------------------------------------------------------------------
(* Properties *)

\* The shape of the state. A row that is marked as published is on the topic,
\* whoever held its lease.
OnboardingTypeOK ==
  /\ \A u \in Users : row[u] # None /\ row[u].published => \E i \in 1..Len(log) : log[i] = u
  /\ offset \in 0..Len(log)
  /\ \A o \in Everyone : tx[o].made \subseteq tx[o].held /\ tx[o].held \subseteq Users

\* A user receives the starting credits once, although the event is delivered
\* again and again and a reservation or a payout may open the account first
\* (C1.3.1).
GrantedOnce == \A u \in Users : grants[u] <= 1

\* An event is behind the committed offset only when its account is open.
CommittedIsOpened == \A i \in 1..offset : grants[log[i]] > 0

\* Some transaction can always go on: transactions that open two accounts in
\* opposite orders, one of them a first reservation and one a payout, do not
\* wait for each other.
AccountsNotDeadlocked ==
  (\E o \in Everyone : tx[o].pc = "opening") =>
    \E o \in Everyone : tx[o].pc \notin {"none", "handled"} /\ ~Waits(o)
=============================================================================
