------------------------------- MODULE Escrow -------------------------------
(***************************************************************************)
(* What the credit service promises the rest of the system: every user has *)
(* a purse of credits free to spend, every order at most one pot taken out *)
(* of its owner's purse. A pot can be resized while it is open, and is     *)
(* closed once, into a payment to one user and a refund to its owner.      *)
(* There are no accounts, rows, records of calls or replays here.          *)
(***************************************************************************)
EXTENDS Integers

CONSTANTS OrderCount, UserCount, StartingCredits

VARIABLES joined, purse, pot
escrowVars == <<joined, purse, pot>>

Members == 1..UserCount
Pots == 1..OrderCount
PotOf(owner, held, state) == [owner |-> owner, held |-> held, state |-> state]
NoPot == PotOf(0, 0, "open")

EscrowInit ==
  /\ joined = {}
  /\ purse = [u \in Members |-> 0]
  /\ pot = [o \in Pots |-> NoPot]

\* The purses after us have joined, each newcomer with the starting credits.
WithGrant(us) ==
  [u \in Members |-> purse[u] + (IF u \in us \ joined THEN StartingCredits ELSE 0)]

Join(u) ==
  /\ joined' = joined \cup {u}
  /\ purse' = WithGrant({u})
  /\ UNCHANGED pot

TakePot(o, u, n) ==
  /\ pot[o] = NoPot
  /\ n \in 1..WithGrant({u})[u]
  /\ joined' = joined \cup {u}
  /\ purse' = [WithGrant({u}) EXCEPT ![u] = @ - n]
  /\ pot' = [pot EXCEPT ![o] = PotOf(u, n, "open")]

Resize(o, n) ==
  /\ pot[o].state = "open"
  /\ n \in 1..(pot[o].held + purse[pot[o].owner])
  /\ purse' = [purse EXCEPT ![pot[o].owner] = @ + pot[o].held - n]
  /\ pot' = [pot EXCEPT ![o] = PotOf(@.owner, n, "open")]
  /\ UNCHANGED joined

\* Pay n out of the pot to user c and give the rest back to the owner.
ClosePot(o, c, n) ==
  /\ pot[o].owner # 0 /\ pot[o].state = "open"
  /\ n \in 0..pot[o].held
  /\ joined' = joined \cup {c}
  /\ purse' = [x \in Members |-> WithGrant({c})[x]
                 + (IF x = pot[o].owner THEN pot[o].held - n ELSE 0)
                 + (IF x = c THEN n ELSE 0)]
  /\ pot' = [pot EXCEPT ![o] = PotOf(@.owner, 0, "closed")]

\* An order that was never held is closed, so that it never will be.
ForbidPot(o) ==
  /\ pot[o] = NoPot
  /\ pot' = [pot EXCEPT ![o] = PotOf(0, 0, "closed")]
  /\ UNCHANGED <<joined, purse>>

EscrowNext ==
  \/ \E u \in Members : Join(u)
  \/ \E o \in Pots :
       \/ \E u \in Members : \E n \in 1..WithGrant({u})[u] : TakePot(o, u, n)
       \/ /\ pot[o].owner # 0
          /\ \E n \in 1..(pot[o].held + purse[pot[o].owner]) : Resize(o, n)
       \/ \E c \in Members : \E n \in 0..pot[o].held : ClosePot(o, c, n)
       \/ ForbidPot(o)

EscrowSpec == EscrowInit /\ [][EscrowNext]_escrowVars
=============================================================================
