------------------------------ MODULE MCCredit ------------------------------
(***************************************************************************)
(* The credit service on three small instances; the first state says which *)
(* of them runs, and Scope which orders, assignments and amounts its calls *)
(* name. An account starts with three credits. With two orders, the calls  *)
(* of one compete with those of the other for the same credits; with one   *)
(* order there are two assignments and calls ask for one, two or four, so  *)
(* that a reserve and an adjustment can both be refused. A delivery takes  *)
(* 1, 3 or 4 ticks of 2 allowed, so that a payout is whole, halved or      *)
(* nothing. The ledger is kept for one order and one assignment, and a     *)
(* user reads it by pages of two entries.                                  *)
(***************************************************************************)
EXTENDS Ledger, TLC

CONSTANTS a1, a2

MCAssignments == {a1, a2}
MCAmounts == {1, 2, 3, 4}
MCElapsed == {1, 3, 4}

VARIABLE part  \* "two" orders, "one", or "ledger"

Scope ==
  [two    |-> [orders |-> {1, 2}, assignments |-> {a1},     amounts |-> {2, 3}],
   one    |-> [orders |-> {1},    assignments |-> {a1, a2}, amounts |-> {1, 2, 4}],
   ledger |-> [orders |-> {1},    assignments |-> {a1},     amounts |-> {1, 2}]]

\* A step of the part names only what is in its scope.
InScope ==
  LET s == Scope[part] IN
  /\ \A o \in Orders \ s.orders : reservations'[o] = reservations[o]
  /\ \A k \in Keys : operations'[k] = operations[k]
       \/ /\ k[2] \in s.orders /\ k[3] \in s.assignments \cup {NoAssignment}
          /\ operations'[k].payload.amount \in s.amounts \cup {0}

CreditInit == part \in DOMAIN Scope /\ LedgerInit
CreditNext ==
  /\ UNCHANGED part
  /\ \/ part \in {"two", "one"} /\ Next /\ UNCHANGED ledgerVars
     \/ part = "ledger" /\ LedgerNext
  /\ InScope
CreditSpec == CreditInit /\ [][CreditNext]_<<part, vars, ledgerVars>>

-----------------------------------------------------------------------------
(* Properties *)

\* The ledger says what the accounts and the orders say, entry by entry, to a
\* user who pages through it while entries are posted, and what the order
\* service is answered adds up.
LedgerAgrees == part = "ledger" => LedgerExplains /\ PagesMissNothing /\ AnswersAgree
=============================================================================
