---------------------------- MODULE OrderedFacts ----------------------------
(***************************************************************************)
(* What the outbox promises the consumers of an order's facts: an order    *)
(* records its facts one after the other, every recorded fact is seen for  *)
(* the first time after all earlier facts of its order, and the outcome of *)
(* an order is settled once, and only after it was seen. There are no      *)
(* leases, relays, repeated publications or offsets here.                  *)
(***************************************************************************)
EXTENDS Integers

CONSTANTS Orders, LastFact

VARIABLES recorded, seen, settled
factVars == <<recorded, seen, settled>>

FactsInit ==
  /\ recorded = [o \in Orders |-> 0]
  /\ seen = [o \in Orders |-> 0]
  /\ settled = [o \in Orders |-> 0]

Record(o, n) ==
  /\ recorded[o] + n <= LastFact
  /\ recorded' = [recorded EXCEPT ![o] = @ + n]
  /\ UNCHANGED <<seen, settled>>

\* The next fact of an order is seen for the first time.
See(o) ==
  /\ seen[o] < recorded[o]
  /\ seen' = [seen EXCEPT ![o] = @ + 1]
  /\ UNCHANGED <<recorded, settled>>

\* The last fact of an order is its outcome.
SettleOutcome(o) ==
  /\ seen[o] = LastFact /\ settled[o] = 0
  /\ settled' = [settled EXCEPT ![o] = 1]
  /\ UNCHANGED <<recorded, seen>>

FactsNext ==
  \E o \in Orders : See(o) \/ SettleOutcome(o) \/ \E n \in 1..2 : Record(o, n)

FactsSpec == FactsInit /\ [][FactsNext]_factVars
=============================================================================
