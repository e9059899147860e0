---------------------------- MODULE CreditSafety ----------------------------
(***************************************************************************)
(* The credit service keeps its books: proofs of TypeOK, OffersAgree,      *)
(* HoldsBacked and Solvent for every number of orders and users, every     *)
(* amount and every order in which calls and events arrive.                *)
(*                                                                         *)
(* None of them is inductive. TypeOK needs the requester of a row to be a  *)
(* user (Owned), since Hold is applied to it. Solvent needs to know that   *)
(* the holds that make up accounts.reserved are not negative (Sane,        *)
(* HoldsBacked) and that the requester of an open reservation already has  *)
(* its grant (Funded), or an adjustment could count it twice; HoldsBacked  *)
(* needs the rows that hold nothing to say so (Sane); and a revert lowers  *)
(* a hold only because an applied offer is never below the original        *)
(* (OffersAgree).                                                          *)
(***************************************************************************)
EXTENDS Credit, TLAPS, WellFoundedInduction

-----------------------------------------------------------------------------
(* Finite sums. Each argument is an induction, made by taking the least    *)
(* counterexample (NatMin).                                                *)

\* S lists the partial sums of h: the equation that defines the function
\* local to SumTo.
IsRunning(S, h, n) == S = [i \in 0..n |-> IF i = 0 THEN 0 ELSE S[i-1] + h[i]]

\* Every non-empty set of naturals has a least member.
LEMMA NatMin ==
  ASSUME NEW T \in SUBSET Nat, T # {}
  PROVE  \E n \in T : \A m \in T : n <= m
<1> DEFINE L == {ss \in Nat \X Nat : ss[1] < ss[2]}
<1>1. IsWellFoundedOn(L, Nat)
  BY NatLessThanWellFounded, Zenon DEF OpToRel
<1> HIDE DEF L
<1>2. PICK x \in T : \A y \in T : ~ (<<y, x>> \in L)
  BY <1>1, WFMin
<1>3. \A y \in T : ~ (y < x)
  BY <1>2 DEF L
<1> QED
  BY <1>3

\* The first partial sum is zero, each other one adds a summand.
LEMMA RunningStep ==
  ASSUME NEW n \in Nat, NEW h, NEW S, IsRunning(S, h, n)
  PROVE  S[0] = 0 /\ \A i \in 1..n : S[i] = S[i-1] + h[i]
BY DEF IsRunning

\* A function that starts at zero and adds the summands lists the partial sums.
LEMMA RunningIf ==
  ASSUME NEW n \in Nat, NEW h, NEW S \in [0..n -> Int],
         S[0] = 0, \A i \in 1..n : S[i] = S[i-1] + h[i]
  PROVE  IsRunning(S, h, n)
<1>1. \A i \in 0..n : S[i] = IF i = 0 THEN 0 ELSE S[i-1] + h[i]
  OBVIOUS
<1> QED
  BY <1>1 DEF IsRunning

\* A list of partial sums is determined by its summands.
LEMMA RunningUnique ==
  ASSUME NEW n \in Nat, NEW h, NEW S, NEW R, IsRunning(S, h, n), IsRunning(R, h, n)
  PROVE  S = R
<1> DEFINE T == {i \in 0..n : S[i] # R[i]}
<1>1. SUFFICES ASSUME T # {} PROVE FALSE
  <2>1. \A i \in 0..n : S[i] = R[i]
    BY <1>1
  <2> QED
    BY <2>1 DEF IsRunning
<1>2. T \in SUBSET Nat
  OBVIOUS
<1>3. PICK k \in T : \A m \in T : k <= m
  BY <1>1, <1>2, NatMin
<1>4. k # 0
  BY <1>3 DEF IsRunning
<1>5. k-1 \in 0..n /\ k-1 \notin T
  BY <1>3, <1>4
<1>6. S[k-1] = R[k-1]
  BY <1>5
<1> QED
  BY <1>3, <1>4, <1>6 DEF IsRunning

\* The sum is the last of the partial sums.
LEMMA SumToIs ==
  ASSUME NEW n \in Nat, NEW h, NEW S, IsRunning(S, h, n)
  PROVE  SumTo(h, n) = S[n]
<1> DEFINE s == CHOOSE s : s = [i \in 0..n |-> IF i = 0 THEN 0 ELSE s[i-1] + h[i]]
<1>1. SumTo(h,n) = s[n]
  BY DEF SumTo
<1>2. IsRunning(s, h, n)
  BY DEF IsRunning
<1>3. s = S
  BY <1>2, RunningUnique
<1> QED
  BY <1>1, <1>3

\* Integer summands have integer partial sums, however many there are.
LEMMA RunningExists ==
  ASSUME NEW n \in Nat, NEW h \in [1..n -> Int]
  PROVE  \E S \in [0..n -> Int] : IsRunning(S, h, n)
<1> DEFINE T == {m \in 0..n : ~ \E S \in [0..m -> Int] : IsRunning(S, h, m)}
<1>1. SUFFICES ASSUME T # {} PROVE FALSE
  OBVIOUS
<1>2. PICK k \in T : \A m \in T : k <= m
  <2>1. T \in SUBSET Nat
    OBVIOUS
  <2> QED
    BY <1>1, <2>1, NatMin
<1>3. k # 0
  <2> DEFINE Z == [i \in 0..0 |-> 0]
  <2>1. Z \in [0..0 -> Int] /\ IsRunning(Z, h, 0)
    BY DEF IsRunning
  <2> QED
    BY <1>2, <2>1
<1>4. PICK S \in [0..(k-1) -> Int] : IsRunning(S, h, k-1)
  BY <1>2, <1>3
<1> DEFINE R == [i \in 0..k |-> IF i = k THEN S[k-1] + h[k] ELSE S[i]]
<1>5. R \in [0..k -> Int]
  BY <1>2, <1>3, <1>4
<1>6. R[0] = 0 /\ \A i \in 1..k : R[i] = R[i-1] + h[i]
  <2>1. k-1 \in Nat /\ k \in 1..n
    BY <1>2, <1>3
  <2>2. S[0] = 0 /\ \A i \in 1..(k-1) : S[i] = S[i-1] + h[i]
    <3>1. S = [i \in 0..(k-1) |-> IF i = 0 THEN 0 ELSE S[i-1] + h[i]]
      BY <1>4, Zenon DEF IsRunning
    <3> HIDE DEF R
    <3> QED
      BY <2>1, <3>1
  <2>3. ASSUME NEW i \in 1..k PROVE R[i] = R[i-1] + h[i]
    <3>1. i \in 0..k /\ i-1 \in 0..k /\ i-1 # k
      BY <2>1
    <3>2. R[i-1] = S[i-1]
      BY <3>1
    <3>3. CASE i = k
      BY <3>1, <3>2, <3>3
    <3>4. CASE i # k
      <4>1. i \in 1..(k-1) /\ R[i] = S[i]
        BY <2>1, <3>1, <3>4
      <4> QED
        BY <2>2, <3>2, <4>1
    <3> QED
      BY <3>3, <3>4
  <2> QED
    BY <2>1, <2>2, <2>3
<1>7. IsRunning(R, h, k)
  <2>1. k \in Nat
    BY <1>2
  <2> HIDE DEF R
  <2> QED
    BY <1>5, <1>6, <2>1, RunningIf
<1> QED
  BY <1>2, <1>5, <1>7

\* A sum of integers is an integer.
LEMMA SumType ==
  ASSUME NEW n \in Nat, NEW h \in [1..n -> Int]
  PROVE  SumTo(h, n) \in Int
BY RunningExists, SumToIs

\* A sum of zeros is zero.
LEMMA SumZero ==
  ASSUME NEW n \in Nat, NEW h \in [1..n -> Int], \A i \in 1..n : h[i] = 0
  PROVE  SumTo(h, n) = 0
<1> DEFINE Z == [i \in 0..n |-> 0]
<1>1. IsRunning(Z, h, n)
  BY DEF IsRunning
<1> QED
  BY <1>1, SumToIs

\* Changing one summand changes the sum by the same amount.
LEMMA SumUpdate ==
  ASSUME NEW n \in Nat, NEW h \in [1..n -> Int], NEW g \in [1..n -> Int],
         NEW k \in 1..n, \A i \in 1..n : i # k => g[i] = h[i]
  PROVE  SumTo(g, n) = SumTo(h, n) + g[k] - h[k]
<1>1. PICK S \in [0..n -> Int] : IsRunning(S, h, n)
  BY RunningExists
<1> DEFINE R == [i \in 0..n |-> IF i < k THEN S[i] ELSE S[i] + g[k] - h[k]]
<1>2. R \in [0..n -> Int]
  OBVIOUS
<1>3. IsRunning(R, g, n)
  <2>1. S[0] = 0 /\ \A i \in 1..n : S[i] = S[i-1] + h[i]
    <3>1. S = [i \in 0..n |-> IF i = 0 THEN 0 ELSE S[i-1] + h[i]]
      BY <1>1, Zenon DEF IsRunning
    <3> HIDE DEF R
    <3> QED
      BY <3>1
  <2>2. ASSUME NEW i \in 1..n PROVE R[i] = R[i-1] + g[i]
    <3>1. /\ i-1 \in 0..n /\ S[i-1] \in Int /\ h[i] \in Int /\ g[i] \in Int
          /\ S[i] = S[i-1] + h[i] /\ g[k] \in Int /\ h[k] \in Int
      BY <2>1
    <3>2. CASE i < k
      <4>1. R[i] = S[i] /\ R[i-1] = S[i-1] /\ g[i] = h[i]
        BY <3>1, <3>2
      <4> QED
        BY <3>1, <4>1
    <3>3. CASE i = k
      <4>1. R[i] = S[i] + g[k] - h[k] /\ R[i-1] = S[i-1]
        BY <3>1, <3>3
      <4> QED
        BY <3>1, <3>3, <4>1
    <3>4. CASE i > k
      <4>1. ~(i-1 < k) /\ ~(i < k)
        BY <3>4
      <4>2. R[i] = S[i] + g[k] - h[k] /\ R[i-1] = S[i-1] + g[k] - h[k] /\ g[i] = h[i]
        BY <3>1, <3>4, <4>1
      <4> HIDE DEF R
      <4> QED
        BY <3>1, <4>2
    <3> QED
      BY <3>2, <3>3, <3>4
  <2>3. R[0] = 0
    BY <2>1
  <2> HIDE DEF R
  <2> QED
    BY <1>2, <2>2, <2>3, RunningIf
<1>4. SumTo(g, n) = R[n] /\ SumTo(h, n) = S[n]
  BY <1>1, <1>3, SumToIs
<1> QED
  BY <1>4

\* The sum of differences is the difference of the sums.
LEMMA SumDifference ==
  ASSUME NEW n \in Nat, NEW h \in [1..n -> Int], NEW g \in [1..n -> Int]
  PROVE  SumTo([i \in 1..n |-> h[i] - g[i]], n) = SumTo(h, n) - SumTo(g, n)
<1>1. PICK S \in [0..n -> Int] : IsRunning(S, h, n)
  BY RunningExists
<1>2. PICK R \in [0..n -> Int] : IsRunning(R, g, n)
  BY RunningExists
<1> DEFINE D == [i \in 0..n |-> S[i] - R[i]]
<1> DEFINE d == [i \in 1..n |-> h[i] - g[i]]
<1>3. D \in [0..n -> Int]
  OBVIOUS
<1>4. IsRunning(D, d, n)
  <2>1. /\ S[0] = 0 /\ \A i \in 1..n : S[i] = S[i-1] + h[i]
        /\ R[0] = 0 /\ \A i \in 1..n : R[i] = R[i-1] + g[i]
    <3>1. S = [i \in 0..n |-> IF i = 0 THEN 0 ELSE S[i-1] + h[i]]
          /\ R = [i \in 0..n |-> IF i = 0 THEN 0 ELSE R[i-1] + g[i]]
      BY <1>1, <1>2, Zenon DEF IsRunning
    <3> HIDE DEF D, d
    <3>2. S[0] = 0 /\ \A i \in 1..n : S[i] = S[i-1] + h[i]
      BY <3>1
    <3>3. R[0] = 0 /\ \A i \in 1..n : R[i] = R[i-1] + g[i]
      BY <3>1
    <3> QED
      BY <3>2, <3>3
  <2>2. ASSUME NEW i \in 1..n PROVE D[i] = D[i-1] + d[i]
    <3>1. /\ i-1 \in 0..n /\ S[i-1] \in Int /\ R[i-1] \in Int
          /\ h[i] \in Int /\ g[i] \in Int
      OBVIOUS
    <3>2. D[i] = S[i] - R[i] /\ D[i-1] = S[i-1] - R[i-1] /\ d[i] = h[i] - g[i]
      BY <3>1
    <3>3. S[i] = S[i-1] + h[i] /\ R[i] = R[i-1] + g[i]
      BY <2>1
    <3> HIDE DEF D, d
    <3> QED
      BY <3>1, <3>2, <3>3
  <2>3. D[0] = 0
    BY <2>1
  <2> HIDE DEF D, d
  <2> QED
    BY <1>3, <2>2, <2>3, RunningIf
<1>5. SumTo(d, n) = D[n] /\ SumTo(h, n) = S[n] /\ SumTo(g, n) = R[n]
  BY <1>1, <1>2, <1>4, SumToIs
<1> QED
  BY <1>5

\* No summand exceeds a sum of naturals.
LEMMA SumBounds ==
  ASSUME NEW n \in Nat, NEW h \in [1..n -> Nat], NEW k \in 1..n
  PROVE  h[k] <= SumTo(h, n)
<1>1. PICK S \in [0..n -> Int] : IsRunning(S, h, n)
  BY RunningExists
<1> DEFINE T == {i \in 0..n : S[i] < (IF i < k THEN 0 ELSE h[k])}
<1>2. SUFFICES ASSUME T # {} PROVE FALSE
  <2>1. S[n] >= h[k]
    BY <1>1, <1>2
  <2> QED
    BY <1>1, <2>1, SumToIs
<1>3. PICK m \in T : \A i \in T : m <= i
  <2>1. T \in SUBSET Nat
    OBVIOUS
  <2> QED
    BY <1>2, <2>1, NatMin
<1>4. m # 0
  BY <1>1, <1>3 DEF IsRunning
<1>5. m-1 \in 0..n /\ m-1 \notin T /\ S[m] = S[m-1] + h[m]
  <2>1. m \in 1..n /\ m-1 \in 0..n /\ ~(m <= m-1)
    BY <1>3, <1>4
  <2>2. m-1 \notin T
    BY <1>3, <2>1
  <2>3. S = [i \in 0..n |-> IF i = 0 THEN 0 ELSE S[i-1] + h[i]]
    BY <1>1, Zenon DEF IsRunning
  <2>4. S[m] = S[m-1] + h[m]
    BY <2>1, <2>3
  <2> QED
    BY <2>1, <2>2, <2>4
<1> QED
  BY <1>1, <1>3, <1>4, <1>5

\* A sum of naturals is a natural.
LEMMA SumNatural ==
  ASSUME NEW n \in Nat, NEW h \in [1..n -> Nat]
  PROVE  SumTo(h, n) \in Nat
<1>1. CASE n = 0
  <2>1. h \in [1..n -> Int] /\ \A i \in 1..n : h[i] = 0
    BY <1>1
  <2> QED
    BY <2>1, SumZero
<1>2. CASE n # 0
  <2>1. 1 \in 1..n
    BY <1>2
  <2> QED
    BY <2>1, SumBounds, SumType
<1> QED
  BY <1>1, <1>2

-----------------------------------------------------------------------------
(* Types *)

\* Appending keeps a history a sequence of rows.
LEMMA SaveReservationType ==
  ASSUME TypeOK, NEW o \in Orders, NEW r \in ReservationType, SaveReservation(o, r)
  PROVE  /\ reservations' \in [Orders -> ReservationType]
         /\ revisions' \in [Orders -> Seq(ReservationType)]
<1>1. Append(revisions[o], r) \in Seq(ReservationType)
  BY DEF TypeOK
<1> QED
  BY <1>1 DEF TypeOK, SaveReservation, UpdateReservation

\* LockAccounts leaves every account an integer balance.
LEMMA GrantedType ==
  ASSUME TypeOK, NEW us
  PROVE  Granted(us) \in [Users -> Int]
BY AmountAssumption DEF TypeOK, Granted

\* A posting to accounts.reserved leaves every account an integer.
LEMMA HoldType ==
  ASSUME TypeOK, NEW u \in Users, NEW d \in Int, Hold(u, d)
  PROVE  reserved' \in [Users -> Int]
BY DEF TypeOK, Hold

\* The four operation keys are keys, and their second part is the order.
LEMMA KeyTypes ==
  ASSUME NEW o \in Orders
  PROVE  /\ ReserveKey(o) \in Keys /\ ReleaseKey(o) \in Keys
         /\ ReserveKey(o)[2] = o /\ ReleaseKey(o)[2] = o
         /\ \A a \in Assignments :
              /\ AdjustKey(o, a) \in Keys /\ RevertKey(o, a) \in Keys
              /\ AdjustKey(o, a)[2] = o /\ RevertKey(o, a)[2] = o
BY DEF Keys, ReserveKey, ReleaseKey, AdjustKey, RevertKey

\* A stored outcome, done or refused, names a revision by a natural number.
LEMMA SaveOperationType ==
  ASSUME TypeOK, NEW k \in Keys, NEW p \in PayloadType, k[2] \in Orders,
         revisions' \in [Orders -> Seq(ReservationType)],
         SaveOperation(k, p) \/ SaveInsufficient(k, p)
  PROVE  operations' \in [Keys -> OperationType]
<1>1. Len(revisions'[k[2]]) \in Nat
  BY DEF TypeOK
<1>2. /\ [status |-> "DONE", payload |-> p, revision |-> Len(revisions'[k[2]])]
           \in OperationType
      /\ [status |-> "INSUFFICIENT", payload |-> p, revision |-> 0] \in OperationType
  BY <1>1 DEF OperationType
<1> QED
  BY <1>2 DEF TypeOK, SaveOperation, SaveInsufficient

\* Storing an offer keeps the table of assignments typed.
LEMMA SaveOfferType ==
  ASSUME TypeOK, NEW o \in Orders, NEW a \in Assignments, NEW offer \in OfferType,
         SaveOffer(o, a, offer)
  PROVE  assignments' \in [Orders -> [Assignments -> OfferType]]
BY DEF TypeOK, SaveOffer

\* A row that is not a tombstone has a requester: Reserve wrote it.
Owned ==
  \A o \in Orders :
    reservations[o].status \in {"HELD", "ASSIGNED", "SETTLED"}
      => reservations[o].requester \in Users

\* The inductive invariant.
TypeInv == TypeOK /\ Owned

\* A stored row with a requester keeps every open row owned.
LEMMA SaveReservationOwned ==
  ASSUME TypeOK, Owned, NEW o \in Orders, NEW r \in ReservationType,
         r.status \in {"HELD", "ASSIGNED", "SETTLED"} => r.requester \in Users,
         SaveReservation(o, r)
  PROVE  Owned'
BY DEF TypeOK, Owned, SaveReservation, UpdateReservation

\* A step that stores no row keeps every open row owned.
LEMMA SameRowsOwned ==
  ASSUME Owned, UNCHANGED reservations
  PROVE  Owned'
BY DEF Owned

\* The stored records keep their types, and every open or settled
\* reservation keeps a requester to whom its hold belongs.
THEOREM Typing == Spec => []TypeInv
<1>1. Init => TypeInv
  BY DEF Init, TypeInv, Owned, TypeOK, NoReservation, OpenRow, NoOffer, Offer, NoOperation,
         NoPayload, Payload, PayloadType,
         ReservationType, OfferType, OperationType, NoUser
<1>2. TypeInv /\ [Next]_vars => TypeInv'
  <2> SUFFICES ASSUME TypeOK, Owned, [Next]_vars PROVE TypeOK' /\ Owned'
    BY DEF TypeInv
  <2>1. ASSUME NEW u \in Users, OpenAccount(u) PROVE TypeOK' /\ Owned'
    BY <2>1, GrantedType DEF OpenAccount, TypeOK, Owned
  <2>2. ASSUME NEW o \in Orders, NEW u \in Users, NEW amount \in Amounts,
               Reserve(o, u, amount)
        PROVE  TypeOK' /\ Owned'
    <3>1. amount \in Int BY AmountAssumption
    <3>2. Payload(u, amount, "NONE") \in PayloadType
      BY <3>1 DEF Payload, PayloadType
    <3>3. OpenRow("HELD", u, amount, amount, NoAssignment) \in ReservationType
      BY <3>1 DEF OpenRow, ReservationType
    <3>4. opened' \subseteq Users /\ balance' \in [Users -> Int]
          /\ assignments' = assignments
      BY <2>2, GrantedType DEF Reserve, TypeOK
    <3>5. /\ reservations' \in [Orders -> ReservationType]
          /\ revisions' \in [Orders -> Seq(ReservationType)]
          /\ reserved' \in [Users -> Int]
      BY <2>2, <3>1, <3>3, SaveReservationType, HoldType DEF Reserve, TypeOK
    <3>6. operations' \in [Keys -> OperationType]
      BY <2>2, <3>2, <3>5, KeyTypes, SaveOperationType DEF Reserve
    <3>7. Owned'
      <4>1. OpenRow("HELD", u, amount, amount, NoAssignment).requester \in Users
        BY DEF OpenRow
      <4> QED
        BY <2>2, <3>3, <4>1, SaveReservationOwned, SameRowsOwned DEF Reserve
    <3> QED
      BY <3>4, <3>5, <3>6, <3>7 DEF TypeOK
  <2>3. ASSUME NEW o \in Orders, NEW a \in Assignments, NEW c \in Users,
               NEW amount \in Amounts, AdjustReservation(o, a, c, amount)
        PROVE  TypeOK' /\ Owned'
    <3> DEFINE r == reservations[o]
    <3>1. amount \in Int /\ r \in ReservationType
      BY AmountAssumption DEF TypeOK
    <3>2. Payload(c, amount, "NONE") \in PayloadType
      BY <3>1 DEF Payload, PayloadType
    <3>3. OpenRow("ASSIGNED", r.requester, r.original, amount, a) \in ReservationType
      BY <3>1 DEF OpenRow, ReservationType
    <3>4. Offer("APPLIED", c, amount) \in OfferType
      BY <3>1 DEF Offer, OfferType
    <3>5. opened' = opened /\ balance' = balance
      BY <2>3 DEF AdjustReservation
    <3>6. /\ reservations' \in [Orders -> ReservationType]
          /\ revisions' \in [Orders -> Seq(ReservationType)]
      BY <2>3, <3>3, SaveReservationType DEF AdjustReservation, TypeOK
    <3>7. amount - r.reserved \in Int
      BY <3>1 DEF ReservationType
    <3>12. FirstAdjust(o, a, amount) = "OK" => r.requester \in Users
      BY <3>1 DEF FirstAdjust, Owned, ReservationType
    <3>8. reserved' \in [Users -> Int]
      BY <2>3, <3>7, <3>12, HoldType DEF AdjustReservation, TypeOK
    <3>9. assignments' \in [Orders -> [Assignments -> OfferType]]
      BY <2>3, <3>4, SaveOfferType DEF AdjustReservation, TypeOK
    <3>10. operations' \in [Keys -> OperationType]
      BY <2>3, <3>2, <3>6, KeyTypes, SaveOperationType DEF AdjustReservation
    <3>11. Owned'
      <4>1. CASE FirstAdjust(o, a, amount) = "OK"
        <5>1. r.requester \in Users
          BY <3>12, <4>1
        <5>2. OpenRow("ASSIGNED", r.requester, r.original, amount, a).requester \in Users
          BY <5>1 DEF OpenRow
        <5> QED
          BY <2>3, <3>3, <4>1, <5>2, SaveReservationOwned DEF AdjustReservation
      <4>2. CASE FirstAdjust(o, a, amount) # "OK"
        BY <2>3, <4>2, SameRowsOwned DEF AdjustReservation
      <4> QED
        BY <4>1, <4>2
    <3> QED
      BY <3>5, <3>6, <3>8, <3>9, <3>10, <3>11 DEF TypeOK
  <2>4. ASSUME NEW o \in Orders, NEW a \in Assignments, RevertAdjustment(o, a)
        PROVE  TypeOK' /\ Owned'
    <3> DEFINE r == reservations[o]
    <3>1. r \in ReservationType /\ assignments[o][a] \in OfferType
      BY DEF TypeOK
    <3>2. NoPayload \in PayloadType
      BY DEF NoPayload, Payload, PayloadType
    <3>3. RevertedRow(r) \in ReservationType
      BY <3>1 DEF ReservationType, RevertedRow, OpenRow
    <3>4. Offer("REVERTED", assignments[o][a].courier, assignments[o][a].offer)
            \in OfferType
      BY <3>1 DEF Offer, OfferType
    <3>5. opened' = opened /\ balance' = balance
      BY <2>4 DEF RevertAdjustment, RevertedOffer
    <3>6. /\ reservations' \in [Orders -> ReservationType]
          /\ revisions' \in [Orders -> Seq(ReservationType)]
      BY <2>4, <3>3, SaveReservationType DEF RevertAdjustment, TypeOK
    <3>7. r.original - r.reserved \in Int
      BY <3>1 DEF ReservationType
    <3>11. r.status = "ASSIGNED" => r.requester \in Users
      BY DEF Owned
    <3>8. reserved' \in [Users -> Int]
      BY <2>4, <3>7, <3>11, HoldType DEF RevertAdjustment, TypeOK
    <3>9. assignments' \in [Orders -> [Assignments -> OfferType]]
      BY <2>4, <3>4, SaveOfferType DEF RevertAdjustment, RevertedOffer
    <3>10. operations' \in [Keys -> OperationType]
      BY <2>4, <3>2, <3>6, KeyTypes, SaveOperationType DEF RevertAdjustment, RevertedOffer
    <3>12. Owned'
      <4>1. r.status = "ASSIGNED" => RevertedRow(r).requester \in Users
        BY <3>11 DEF RevertedRow, OpenRow
      <4> QED
        BY <2>4, <3>3, <4>1, SaveReservationOwned, SameRowsOwned DEF RevertAdjustment, RevertedOffer
    <3> QED
      BY <3>5, <3>6, <3>8, <3>9, <3>10, <3>12 DEF TypeOK
  <2>5. ASSUME NEW o \in Orders, NEW reason \in Reasons, Release(o, reason)
        PROVE  /\ reservations' \in [Orders -> ReservationType]
               /\ revisions' \in [Orders -> Seq(ReservationType)]
               /\ reserved' \in [Users -> Int]
               /\ Owned'
    <3> DEFINE r == reservations[o]
    <3>1. r \in ReservationType
      BY DEF TypeOK
    <3>2. ClosedRow(r, "RELEASED", "RELEASED", reason, 0) \in ReservationType
      BY <3>1 DEF ClosedRow, ReservationType
    <3>3. /\ reservations' \in [Orders -> ReservationType]
          /\ revisions' \in [Orders -> Seq(ReservationType)]
      BY <2>5, <3>2, SaveReservationType DEF Release, TypeOK
    <3>4. -r.reserved \in Int
      BY <3>1 DEF ReservationType
    <3>5. reserved' \in [Users -> Int]
      <4>1. Releasable(r) /\ r.status # "NONE" => r.requester \in Users
        BY DEF Owned, Releasable
      <4> QED
        BY <2>5, <3>4, <4>1, HoldType DEF Release, TypeOK
    <3>6. Owned'
      <4>1. ClosedRow(r, "RELEASED", "RELEASED", reason, 0).status = "RELEASED"
        BY DEF ClosedRow
      <4> QED
        BY <2>5, <3>2, <4>1, SaveReservationOwned, SameRowsOwned DEF Release
    <3> QED
      BY <3>3, <3>5, <3>6
  <2>6. ASSUME NEW o \in Orders, NEW reason \in Reasons, ReleaseReservation(o, reason)
        PROVE  TypeOK' /\ Owned'
    <3>1. Payload(NoUser, 0, reason) \in PayloadType
      BY DEF Payload, PayloadType
    <3>2. operations' \in [Keys -> OperationType]
      BY <2>5, <2>6, <3>1, KeyTypes, SaveOperationType DEF ReleaseReservation
    <3> QED
      BY <2>5, <2>6, <3>2 DEF ReleaseReservation, TypeOK
  <2>7. ASSUME NEW o \in Orders, NEW u \in Users, NEW reason \in Reasons,
               ApplyRelease(o, u, reason)
        PROVE  TypeOK' /\ Owned'
    BY <2>5, <2>7 DEF ApplyRelease, TypeOK
  <2>8. ASSUME NEW o \in Orders, NEW u \in Users, NEW c \in Users,
               NEW type \in PayoutTypes, NEW elapsed \in Elapsed,
               Settle(o, u, c, type, elapsed)
        PROVE  TypeOK' /\ Owned'
    <3> DEFINE r == reservations[o]
               payable == LatenessPayout(assignments[o][r.assignment].offer,
                                         type, elapsed, Allowed)
    <3>1. r \in ReservationType /\ r.reserved \in Int
      BY DEF TypeOK, ReservationType
    <3>2. payable \in Int
      BY <2>8, <3>1 DEF Settle
    <3> HIDE DEF payable
    <3>3. ClosedRow(r, "SETTLED", type, "NONE", payable) \in ReservationType
      BY <3>1, <3>2 DEF ClosedRow, ReservationType
    <3>4. /\ reservations' \in [Orders -> ReservationType]
          /\ revisions' \in [Orders -> Seq(ReservationType)]
      BY <2>8, <3>3, SaveReservationType DEF Settle, payable
    <3>5. -payable - (r.reserved - payable) \in Int
      BY <3>1, <3>2
    <3>10. r.status = "ASSIGNED" /\ r.requester \in Users
      BY <2>8 DEF Settle, Owned
    <3>6. reserved' \in [Users -> Int]
      BY <2>8, <3>5, <3>10, HoldType DEF Settle, SettledHold, payable
    <3>7. SettledBalance(r, c, payable) \in [Users -> Int]
      BY <3>2, GrantedType DEF SettledBalance
    <3>8. balance' \in [Users -> Int]
      BY <2>8, <3>7 DEF Settle, payable
    <3>9. /\ opened' = opened \cup {r.requester, c}
          /\ assignments' = assignments /\ operations' = operations
      BY <2>8 DEF Settle
    <3>11. Owned'
      <4>1. ClosedRow(r, "SETTLED", type, "NONE", payable).requester \in Users
        BY <3>10 DEF ClosedRow
      <4> QED
        BY <2>8, <3>3, <4>1, SaveReservationOwned DEF Settle, payable
    <3> QED
      BY <3>4, <3>6, <3>8, <3>9, <3>10, <3>11 DEF TypeOK
  <2>9. CASE UNCHANGED vars
    BY <2>9 DEF TypeOK, Owned, vars, accountVars
  <2> QED
    BY <2>1, <2>2, <2>3, <2>4, <2>6, <2>7, <2>8, <2>9 DEF Next
<1> QED
  BY <1>1, <1>2, PTL DEF Spec

\* Every state of the credit service is typed: a refused call leaves no
\* out-of-range revision behind, and no row names an unknown user.
THEOREM TypeCorrect == Spec => []TypeOK
BY Typing, PTL DEF TypeInv

-----------------------------------------------------------------------------
(* Rows, offers and accounts *)

\* What a row says of its own hold: nothing before the reserve and after the
\* end, a positive amount of some user in between.
Sane(r) ==
  /\ r.status = "NONE" => r.requester = NoUser /\ r.reserved = 0
  /\ r.status \in {"HELD", "ASSIGNED"} =>
       r.requester \in Users /\ r.reserved > 0 /\ r.original > 0
  /\ r.status \in {"RELEASED", "SETTLED"} => r.reserved = 0

RowsSane == \A o \in Orders : Sane(reservations[o])

\* The requester of an open reservation has an account.
Funded ==
  \A o \in Orders : reservations[o].status \in {"HELD", "ASSIGNED"} =>
                      reservations[o].requester \in opened

Covered == \A u \in Users : reserved[u] <= balance[u]

-----------------------------------------------------------------------------
(* One row and its offers *)

\* OffersAgree for one order, as a relation between its row and its offers.
Agrees(r, offers) ==
  LET applied == {a \in Assignments : offers[a].status = "APPLIED"} IN
  /\ r.status = "NONE" => applied = {}
  /\ r.status = "HELD" => r.reserved = r.original /\ applied = {}
  /\ r.status = "ASSIGNED" =>
       /\ applied = {r.assignment}
       /\ offers[r.assignment].offer = r.reserved
       /\ r.original <= r.reserved
  /\ r.status = "SETTLED" =>
       /\ applied = {r.assignment}
       /\ r.paid + r.returned = offers[r.assignment].offer
       /\ 0 <= r.paid /\ 0 <= r.returned

\* OffersAgree says of every order what Agrees says of one.
LEMMA AgreeIsPerOrder ==
  OffersAgree <=> \A o \in Orders : Agrees(reservations[o], assignments[o])
BY DEF OffersAgree, Agrees

\* A new hold agrees with the offers of an order that had none.
LEMMA ReserveAgrees ==
  ASSUME NEW r, NEW offers, NEW u, NEW n, r.status = "NONE", Agrees(r, offers)
  PROVE  Agrees(OpenRow("HELD", u, n, n, NoAssignment), offers)
BY DEF Agrees, OpenRow

\* Applying an offer to a held reservation makes it the only applied one.
LEMMA AdjustAgrees ==
  ASSUME NEW r \in ReservationType, NEW offers \in [Assignments -> OfferType],
         NEW a \in Assignments, NEW c \in Users, NEW n \in Int,
         r.status = "HELD", r.original <= n, Agrees(r, offers)
  PROVE  Agrees(OpenRow("ASSIGNED", r.requester, r.original, n, a),
                [offers EXCEPT ![a] = Offer("APPLIED", c, n)])
<1> DEFINE new == [offers EXCEPT ![a] = Offer("APPLIED", c, n)]
           row == OpenRow("ASSIGNED", r.requester, r.original, n, a)
<1>1. {b \in Assignments : offers[b].status = "APPLIED"} = {}
  BY DEF Agrees
<1>2. /\ new[a].status = "APPLIED" /\ new[a].offer = n
      /\ \A b \in Assignments : b # a => new[b] = offers[b]
  BY DEF Offer
<1>3. {b \in Assignments : new[b].status = "APPLIED"} = {a}
  BY <1>1, <1>2
<1>4. row.status = "ASSIGNED" /\ row.assignment = a /\ row.reserved = n
      /\ row.original = r.original
  BY DEF OpenRow
<1> QED
  BY <1>2, <1>3, <1>4 DEF Agrees

\* Reverting the applied offer leaves none applied and the original hold.
LEMMA RevertAgrees ==
  ASSUME NEW r \in ReservationType, NEW offers \in [Assignments -> OfferType],
         NEW a \in Assignments,
         r.status = "ASSIGNED", r.assignment = a, Agrees(r, offers)
  PROVE  Agrees(RevertedRow(r), [offers EXCEPT ![a] = RevertedOffer(offers[a])])
<1> DEFINE new == [offers EXCEPT ![a] = RevertedOffer(offers[a])]
<1>1. {b \in Assignments : offers[b].status = "APPLIED"} = {a}
  BY DEF Agrees
<1>2. new[a].status = "REVERTED" /\ \A b \in Assignments : b # a => new[b] = offers[b]
  BY DEF RevertedOffer, Offer
<1>3. {b \in Assignments : new[b].status = "APPLIED"} = {}
  BY <1>1, <1>2
<1>4. RevertedRow(r).status = "HELD" /\ RevertedRow(r).reserved = RevertedRow(r).original
  BY DEF RevertedRow, OpenRow
<1> QED
  BY <1>3, <1>4 DEF Agrees

\* Fencing off an offer that is not applied disturbs nothing.
LEMMA TombstoneAgrees ==
  ASSUME NEW r \in ReservationType, NEW offers \in [Assignments -> OfferType],
         NEW a \in Assignments, r.status # "SETTLED",
         ~ (offers[a].status = "APPLIED" /\ r.status = "ASSIGNED" /\ r.assignment = a),
         Agrees(r, offers)
  PROVE  Agrees(r, [offers EXCEPT ![a] = RevertedOffer(offers[a])])
<1> DEFINE new == [offers EXCEPT ![a] = RevertedOffer(offers[a])]
<1>1. new[a].status = "REVERTED" /\ \A b \in Assignments : b # a => new[b] = offers[b]
  BY DEF RevertedOffer, Offer
<1>2. CASE r.status \in {"NONE", "HELD"}
  <2>1. {b \in Assignments : offers[b].status = "APPLIED"} = {}
    BY <1>2 DEF Agrees
  <2>2. {b \in Assignments : new[b].status = "APPLIED"} = {}
    BY <1>1, <2>1
  <2> QED
    BY <1>2, <2>2 DEF Agrees
<1>3. CASE r.status = "ASSIGNED"
  <2>1. {b \in Assignments : offers[b].status = "APPLIED"} = {r.assignment}
    BY <1>3 DEF Agrees
  <2>2. r.assignment # a /\ r.assignment \in Assignments
    BY <1>3, <2>1
  <2>3. {b \in Assignments : new[b].status = "APPLIED"} = {r.assignment}
    BY <1>1, <2>1, <2>2
  <2>4. new[r.assignment] = offers[r.assignment]
    BY <1>1, <2>2
  <2> QED
    BY <1>3, <2>3, <2>4 DEF Agrees
<1>4. CASE r.status = "RELEASED"
  BY <1>4 DEF Agrees
<1> QED
  BY <1>2, <1>3, <1>4 DEF ReservationType

\* A released row makes no claim about its offers.
LEMMA ReleaseAgrees ==
  ASSUME NEW r, NEW offers, NEW reason
  PROVE  Agrees(ClosedRow(r, "RELEASED", "RELEASED", reason, 0), offers)
BY DEF Agrees, ClosedRow

\* Settling an assigned row splits exactly the offer it was applied with.
LEMMA SettleAgrees ==
  ASSUME NEW r \in ReservationType, NEW offers, NEW type, NEW n \in 0..r.reserved,
         r.status = "ASSIGNED", Agrees(r, offers)
  PROVE  Agrees(ClosedRow(r, "SETTLED", type, "NONE", n), offers)
<1> DEFINE row == ClosedRow(r, "SETTLED", type, "NONE", n)
<1>1. r.reserved \in Int
  BY DEF ReservationType
<1>2. /\ row.status = "SETTLED" /\ row.assignment = r.assignment
      /\ row.paid = n /\ row.returned = r.reserved - n
  BY DEF ClosedRow
<1>3. /\ {a \in Assignments : offers[a].status = "APPLIED"} = {r.assignment}
      /\ offers[r.assignment].offer = r.reserved
  BY DEF Agrees
<1> QED
  BY <1>1, <1>2, <1>3 DEF Agrees

-----------------------------------------------------------------------------
(* Changing one row *)

\* What a row holds of user u's credits.
Share(r, u) == IF r.requester = u THEN r.reserved ELSE 0

\* Order o gets row r, and accounts.reserved moves by the difference.
RowChange(o, r) ==
  /\ reservations' = [reservations EXCEPT ![o] = r]
  /\ reserved' = [u \in Users |-> reserved[u] - Share(reservations[o], u) + Share(r, u)]

\* A hold moved by what the row's share moves is a change of that row.
LEMMA HoldIsChange ==
  ASSUME TypeOK, NEW o \in Orders, NEW r \in ReservationType, NEW u \in Users, NEW d \in Int,
         SaveReservation(o, r), Hold(u, d), r.requester = u,
         reservations[o].requester = u \/ reservations[o].reserved = 0,
         d = r.reserved - Share(reservations[o], u)
  PROVE  RowChange(o, r)
<1>1. reservations[o] \in ReservationType /\ reserved \in [Users -> Int]
  BY DEF TypeOK
<1>2. \A v \in Users : Share(r, v) \in Int /\ Share(reservations[o], v) \in Int
  BY <1>1 DEF Share, ReservationType
<1>3. ASSUME NEW v \in Users
      PROVE  reserved'[v] = reserved[v] - Share(reservations[o], v) + Share(r, v)
  <2>1. CASE v = u
    BY <1>1, <1>2, <2>1 DEF Hold, Share, ReservationType
  <2>2. CASE v # u
    <3>1. Share(r, v) = 0 /\ Share(reservations[o], v) = 0
      BY <2>2 DEF Share
    <3> QED
      BY <1>1, <2>2, <3>1 DEF Hold
  <2> QED
    BY <2>1, <2>2
<1>4. reserved' \in [Users -> Int]
  BY HoldType
<1>5. reserved' = [v \in Users |-> reserved[v] - Share(reservations[o], v) + Share(r, v)]
  BY <1>3, <1>4
<1> QED
  BY <1>5 DEF RowChange, SaveReservation, UpdateReservation

\* The sum of the holds follows every change of a row.
LEMMA ChangeKeepsHolds ==
  ASSUME TypeOK, HoldsBacked, NEW o \in Orders, NEW r \in ReservationType, RowChange(o, r)
  PROVE  HoldsBacked'
<1> SUFFICES ASSUME NEW u \in Users
             PROVE  reserved'[u] = SumTo([p \in Orders |-> HeldOf(p, u)]', OrderCount)
  BY DEF HoldsBacked
<1> DEFINE old == [p \in Orders |-> HeldOf(p, u)]
           new == [p \in Orders |-> HeldOf(p, u)']
<1>1. \A p \in Orders : reservations[p] \in ReservationType
  BY DEF TypeOK
<1>2. old \in [1..OrderCount -> Int] /\ new \in [1..OrderCount -> Int]
  <2>1. \A p \in Orders : reservations'[p] \in ReservationType
    BY <1>1 DEF RowChange, TypeOK
  <2>2. ASSUME NEW p \in Orders PROVE HeldOf(p, u) \in Int
    BY <1>1 DEF HeldOf, ReservationType
  <2>3. ASSUME NEW p \in Orders PROVE HeldOf(p, u)' \in Int
    BY <2>1 DEF HeldOf, ReservationType
  <2> QED
    BY <2>2, <2>3 DEF Orders
<1>3. \A p \in 1..OrderCount : p # o => new[p] = old[p]
  BY DEF Orders, HeldOf, RowChange, TypeOK
<1>4. new[o] = Share(r, u) /\ old[o] = Share(reservations[o], u)
  BY DEF HeldOf, Share, RowChange, TypeOK
<1>5. SumTo(new, OrderCount) = SumTo(old, OrderCount) + new[o] - old[o]
  <2>1. OrderCount \in Nat /\ o \in 1..OrderCount
    BY CountsAssumption DEF Orders
  <2> HIDE DEF old, new
  <2> QED
    BY <1>2, <1>3, <2>1, SumUpdate
<1>6. SumTo(old, OrderCount) \in Int
  <2> HIDE DEF old
  <2> QED
    BY <1>2, CountsAssumption, SumType
<1>7. reserved[u] = SumTo(old, OrderCount)
  BY DEF HoldsBacked
<1>8. reserved'[u] = reserved[u] - old[o] + new[o]
  BY <1>4 DEF RowChange
<1>9. old[o] \in Int /\ new[o] \in Int
  BY <1>2 DEF Orders
<1> HIDE DEF old
<1>10. reserved'[u] = SumTo(new, OrderCount)
  <2> HIDE DEF new
  <2> QED
    BY <1>5, <1>6, <1>7, <1>8, <1>9
<1> QED
  BY <1>10

\* A step that leaves the rows and accounts.reserved alone keeps the sum.
LEMMA SameKeepsHolds ==
  ASSUME HoldsBacked, UNCHANGED <<reserved, reservations>>
  PROVE  HoldsBacked'
<1>1. \A u \in Users, p \in Orders : HeldOf(p, u)' = HeldOf(p, u)
  BY DEF HeldOf
<1>2. \A u \in Users :
        [p \in Orders |-> HeldOf(p, u)'] = [p \in Orders |-> HeldOf(p, u)]
  BY <1>1
<1> QED
  BY <1>2 DEF HoldsBacked

\* What an order holds is part of what its requester has reserved.
LEMMA ShareIsReserved ==
  ASSUME TypeOK, RowsSane, HoldsBacked, NEW u \in Users
  PROVE  /\ reserved[u] >= 0
         /\ \A o \in Orders : HeldOf(o, u) <= reserved[u]
<1> DEFINE h == [p \in Orders |-> HeldOf(p, u)]
<1>1. ASSUME NEW p \in Orders PROVE HeldOf(p, u) \in Nat
  <2>1. reservations[p] \in ReservationType /\ Sane(reservations[p])
    BY DEF TypeOK, RowsSane
  <2>2. reservations[p].reserved \in Int /\ reservations[p].reserved >= 0
    BY <2>1 DEF ReservationType, Sane
  <2> QED
    BY <2>2 DEF HeldOf
<1>2. h \in [1..OrderCount -> Nat]
  BY <1>1 DEF Orders
<1>3. reserved[u] = SumTo(h, OrderCount)
  BY DEF HoldsBacked
<1>4. \A p \in Orders : h[p] = HeldOf(p, u)
  OBVIOUS
<1> HIDE DEF h
<1>5. SumTo(h, OrderCount) \in Nat
  BY <1>2, CountsAssumption, SumNatural
<1>6. \A p \in 1..OrderCount : h[p] <= SumTo(h, OrderCount)
  BY <1>2, CountsAssumption, SumBounds
<1> QED
  BY <1>3, <1>4, <1>5, <1>6 DEF Orders

-----------------------------------------------------------------------------
(* The invariant *)

\* The parts of the invariant that speak of rows follow from the changed row.
LEMMA ChangeKeepsRows ==
  ASSUME TypeOK, RowsSane, Funded, NEW o \in Orders, NEW r \in ReservationType,
         reservations' = [reservations EXCEPT ![o] = r], Sane(r),
         r.status \in {"HELD", "ASSIGNED"} => r.requester \in opened',
         opened \subseteq opened'
  PROVE  RowsSane' /\ Funded'
BY DEF TypeOK, RowsSane, Funded, Sane

\* So does OffersAgree, when the row and its offers agree afterwards.
LEMMA ChangeKeepsAgreement ==
  ASSUME TypeOK, OffersAgree, NEW o \in Orders, NEW r, NEW offers,
         reservations' = [reservations EXCEPT ![o] = r],
         assignments' = [assignments EXCEPT ![o] = offers],
         Agrees(r, offers)
  PROVE  OffersAgree'
<1>1. \A p \in Orders : Agrees(reservations[p], assignments[p])
  BY AgreeIsPerOrder
<1>2. \A p \in Orders : /\ p = o => reservations'[p] = r /\ assignments'[p] = offers
                        /\ p # o => /\ reservations'[p] = reservations[p]
                                    /\ assignments'[p] = assignments[p]
  BY DEF TypeOK
<1>3. \A p \in Orders : Agrees(reservations'[p], assignments'[p])
  BY <1>1, <1>2
<1> QED
  BY <1>3 DEF OffersAgree, Agrees

\* Steps that leave the rows and the offers alone.
LEMMA SameKeepsRows ==
  ASSUME RowsSane, Funded, OffersAgree, UNCHANGED <<reservations, assignments>>,
         opened \subseteq opened'
  PROVE  RowsSane' /\ Funded' /\ OffersAgree'
BY DEF RowsSane, Sane, Funded, OffersAgree

\* The credit service starts with empty books.
LEMMA InitBooks == ASSUME Init PROVE RowsSane /\ Funded /\ OffersAgree /\ HoldsBacked /\ Covered
<1>1. RowsSane /\ Funded /\ OffersAgree
  BY DEF Init, RowsSane, Sane, Funded, OffersAgree, NoReservation, OpenRow, NoOffer, Offer
<1>2. ASSUME NEW u \in Users
      PROVE  SumTo([o \in Orders |-> HeldOf(o, u)], OrderCount) = 0
  <2> DEFINE h == [o \in Orders |-> HeldOf(o, u)]
  <2>1. h \in [1..OrderCount -> Int] /\ \A i \in 1..OrderCount : h[i] = 0
    BY DEF Init, HeldOf, NoReservation, OpenRow, Orders
  <2> HIDE DEF h
  <2>2. SumTo(h, OrderCount) = 0
    BY <2>1, CountsAssumption, SumZero
  <2> QED
    BY <2>2 DEF h
<1>3. HoldsBacked
  BY <1>2 DEF Init, HoldsBacked
<1>4. Covered
  BY DEF Init, Covered
<1> QED
  BY <1>1, <1>3, <1>4

\* Granting leaves no balance lower, and that of an open account alone.
LEMMA GrantedBounds ==
  ASSUME TypeOK, NEW us, NEW u \in Users
  PROVE  /\ Granted(us)[u] \in Int /\ Granted(us)[u] >= balance[u]
         /\ u \in opened => Granted(us)[u] = balance[u]
BY AmountAssumption DEF Granted, TypeOK

\* What a user can still reserve.
LEMMA AvailableIs ==
  ASSUME TypeOK, NEW u \in Users
  PROVE  /\ Available(u) \in Int
         /\ Available(u) = Granted({u})[u] - reserved[u]
         /\ u \in opened => Available(u) = balance[u] - reserved[u]
<1>1. /\ Granted({u})[u] \in Int
      /\ u \in opened => Granted({u})[u] = balance[u]
  BY GrantedBounds
<1>2. reserved[u] \in Int
  BY DEF TypeOK
<1> QED
  BY <1>1, <1>2 DEF Available

\* With TypeInv, the inductive invariant.
Books == RowsSane /\ Funded /\ OffersAgree /\ HoldsBacked /\ Covered

\* Reserve takes its hold out of what the requester, opened here, has left.
LEMMA ReserveBooks ==
  ASSUME TypeOK, Books, NEW o \in Orders, NEW u \in Users, NEW amount \in Amounts,
         Reserve(o, u, amount)
  PROVE  Books'
<1> DEFINE row == OpenRow("HELD", u, amount, amount, NoAssignment)
           r == reservations[o]
<1>1. amount \in Int /\ r \in ReservationType
  BY AmountAssumption DEF TypeOK
<1>2. opened \subseteq opened' /\ u \in opened' /\ balance' = Granted({u})
      /\ assignments' = assignments
  BY DEF Reserve
<1>3. \A v \in Users : balance'[v] >= balance[v] /\ balance'[v] \in Int
  BY <1>2, GrantedBounds
<1>4. CASE FirstReserve(o, u, amount) = "OK"
  <2>1. amount > 0 /\ r.status = "NONE" /\ amount <= Available(u)
    BY <1>1, <1>4, GrantedBounds DEF FirstReserve, Available, TypeOK
  <2>2. r.requester = NoUser /\ r.reserved = 0
    BY <2>1 DEF Books, RowsSane, Sane
  <2>3. /\ row \in ReservationType /\ row.requester = u
        /\ row.reserved = amount /\ row.status = "HELD" /\ row.original = amount
    BY <1>1 DEF OpenRow, ReservationType
  <2>4. SaveReservation(o, row) /\ Hold(u, amount)
    BY <1>4 DEF Reserve
  <2>5. RowChange(o, row)
    <3>1. amount = row.reserved - Share(r, u)
      BY <1>1, <2>2, <2>3 DEF Share
    <3> HIDE DEF row
    <3> QED
      BY <1>1, <2>2, <2>3, <2>4, <3>1, HoldIsChange
  <2>6. HoldsBacked'
    BY <2>3, <2>5, ChangeKeepsHolds DEF Books
  <2>7. RowsSane' /\ Funded'
    <3>1. Sane(row)
      BY <2>1, <2>3 DEF Sane
    <3> HIDE DEF row
    <3> QED
      BY <1>2, <2>3, <2>5, <3>1, ChangeKeepsRows DEF Books, RowChange
  <2>8. OffersAgree'
    <3>1. Agrees(r, assignments[o])
      BY AgreeIsPerOrder DEF Books
    <3>2. Agrees(row, assignments[o])
      BY <2>1, <3>1, ReserveAgrees
    <3>3. assignments' = [assignments EXCEPT ![o] = assignments[o]]
      BY <1>2 DEF TypeOK
    <3> HIDE DEF row
    <3> QED
      BY <2>5, <3>2, <3>3, ChangeKeepsAgreement DEF Books, RowChange
  <2>9. ASSUME NEW v \in Users PROVE reserved'[v] <= balance'[v]
    <3>1. reserved \in [Users -> Int] /\ reserved[v] <= balance[v] /\ balance[v] \in Int
      BY DEF Books, Covered, TypeOK
    <3>2. CASE v = u
      <4>1. reserved'[u] = reserved[u] + amount
        BY <2>4, <3>1 DEF Hold
      <4>2. Available(u) = balance'[u] - reserved[u] /\ reserved[u] \in Int
        BY <1>2, AvailableIs DEF TypeOK
      <4> QED
        BY <1>1, <1>3, <2>1, <3>2, <4>1, <4>2
    <3>3. CASE v # u
      BY <1>3, <2>4, <3>1, <3>3 DEF Hold
    <3> QED
      BY <3>2, <3>3
  <2> QED
    BY <2>6, <2>7, <2>8, <2>9 DEF Books, Covered
<1>5. CASE FirstReserve(o, u, amount) # "OK"
  <2>1. UNCHANGED <<reserved, reservations, revisions>>
    BY <1>5 DEF Reserve
  <2>2. RowsSane' /\ Funded' /\ OffersAgree' /\ HoldsBacked'
    BY <1>2, <2>1, SameKeepsRows, SameKeepsHolds DEF Books
  <2>3. Covered'
    BY <1>3, <2>1 DEF Books, Covered, TypeOK
  <2> QED
    BY <2>2, <2>3 DEF Books
<1> QED
  BY <1>4, <1>5

\* An adjustment takes only the difference, out of an account that is open.
LEMMA AdjustBooks ==
  ASSUME TypeOK, Books, NEW o \in Orders, NEW a \in Assignments, NEW c \in Users,
         NEW amount \in Amounts, AdjustReservation(o, a, c, amount)
  PROVE  Books'
<1> DEFINE r == reservations[o]
           row == OpenRow("ASSIGNED", r.requester, r.original, amount, a)
           u == r.requester
<1>1. amount \in Int /\ r \in ReservationType
  BY AmountAssumption DEF TypeOK
<1>2. opened' = opened /\ balance' = balance
  BY DEF AdjustReservation
<1>3. CASE FirstAdjust(o, a, amount) = "OK"
  <2>1. /\ amount > 0 /\ r.status = "HELD" /\ r.original <= amount
        /\ amount - r.reserved <= Available(u)
    <3>1. r.requester \in Users => Available(u) \in Int
      BY AvailableIs
    <3>2. r.status = "HELD" => r.requester \in Users
      BY DEF Books, RowsSane, Sane
    <3> QED
      BY <1>1, <1>3, <3>1, <3>2 DEF FirstAdjust, ReservationType
  <2>2. u \in Users /\ u \in opened /\ r.original > 0 /\ r.original \in Int /\ r.reserved \in Int
    BY <1>1, <2>1 DEF Books, RowsSane, Sane, Funded, ReservationType
  <2>3. /\ row \in ReservationType /\ row.requester = u /\ row.reserved = amount
        /\ row.status = "ASSIGNED" /\ row.original = r.original
    BY <1>1 DEF OpenRow, ReservationType
  <2>4. SaveReservation(o, row) /\ Hold(u, amount - r.reserved)
        /\ SaveOffer(o, a, Offer("APPLIED", c, amount))
    BY <1>3 DEF AdjustReservation
  <2>5. RowChange(o, row)
    <3>1. amount - r.reserved = row.reserved - Share(r, u) /\ amount - r.reserved \in Int
      BY <1>1, <2>2, <2>3 DEF Share
    <3> HIDE DEF row
    <3> QED
      BY <1>1, <2>2, <2>3, <2>4, <3>1, HoldIsChange
  <2>6. HoldsBacked'
    BY <2>3, <2>5, ChangeKeepsHolds DEF Books
  <2>7. RowsSane' /\ Funded'
    <3>1. Sane(row)
      BY <2>1, <2>2, <2>3 DEF Sane
    <3> HIDE DEF row
    <3> QED
      BY <1>2, <2>2, <2>3, <2>5, <3>1, ChangeKeepsRows DEF Books, RowChange
  <2>8. OffersAgree'
    <3> DEFINE new == [assignments[o] EXCEPT ![a] = Offer("APPLIED", c, amount)]
    <3>1. Agrees(r, assignments[o]) /\ assignments[o] \in [Assignments -> OfferType]
      BY AgreeIsPerOrder DEF Books, TypeOK
    <3>2. Agrees(row, new)
      BY <1>1, <2>1, <3>1, AdjustAgrees
    <3>3. assignments' = [assignments EXCEPT ![o] = new]
      BY <2>4 DEF SaveOffer
    <3> HIDE DEF row, new
    <3> QED
      BY <2>5, <3>2, <3>3, ChangeKeepsAgreement DEF Books, RowChange
  <2>9. ASSUME NEW v \in Users PROVE reserved'[v] <= balance'[v]
    <3>1. reserved \in [Users -> Int] /\ reserved[v] <= balance[v] /\ balance[v] \in Int
      BY DEF Books, Covered, TypeOK
    <3>2. CASE v = u
      <4>1. Available(u) = balance[u] - reserved[u]
        BY <2>2, AvailableIs
      <4>2. reserved'[u] = reserved[u] + (amount - r.reserved)
        BY <2>2, <2>4, <3>1 DEF Hold
      <4>3. reserved[u] \in Int /\ balance[u] \in Int
        BY <2>2 DEF TypeOK
      <4> HIDE DEF u, r
      <4>4. amount \in Int /\ r.reserved \in Int
        BY <1>1, <2>2
      <4> QED
        BY <1>2, <2>1, <3>2, <4>1, <4>2, <4>3, <4>4
    <3>3. CASE v # u
      BY <1>2, <2>4, <3>1, <3>3 DEF Hold
    <3> QED
      BY <3>2, <3>3
  <2> QED
    BY <2>6, <2>7, <2>8, <2>9 DEF Books, Covered
<1>4. CASE FirstAdjust(o, a, amount) # "OK"
  <2>1. UNCHANGED <<reserved, reservations, revisions, assignments>>
    BY <1>4 DEF AdjustReservation
  <2>2. RowsSane' /\ Funded' /\ OffersAgree' /\ HoldsBacked'
    BY <1>2, <2>1, SameKeepsRows, SameKeepsHolds DEF Books
  <2>3. Covered'
    BY <1>2, <2>1 DEF Books, Covered
  <2> QED
    BY <2>2, <2>3 DEF Books
<1> QED
  BY <1>3, <1>4

\* A revert gives back what the offer took beyond the original amount.
LEMMA RevertBooks ==
  ASSUME TypeOK, Books, NEW o \in Orders, NEW a \in Assignments, RevertAdjustment(o, a)
  PROVE  Books'
<1> DEFINE r == reservations[o]
           u == r.requester
           offers == assignments[o]
           new == [offers EXCEPT ![a] = RevertedOffer(offers[a])]
           applied == offers[a].status = "APPLIED" /\ r.status = "ASSIGNED" /\ r.assignment = a
<1>1. r \in ReservationType /\ offers \in [Assignments -> OfferType] /\ Agrees(r, offers)
  BY AgreeIsPerOrder DEF TypeOK, Books
<1>2. opened' = opened /\ balance' = balance /\ r.status # "SETTLED"
  BY DEF RevertAdjustment, FirstRevert
<1>3. assignments' = [assignments EXCEPT ![o] = new]
  BY DEF RevertAdjustment, SaveOffer
<1>4. CASE applied
  <2> DEFINE row == RevertedRow(r)
  <2>1. SaveReservation(o, row) /\ Hold(u, r.original - r.reserved)
    BY <1>4 DEF RevertAdjustment
  <2>2. /\ u \in Users /\ u \in opened /\ r.original > 0
        /\ r.original \in Int /\ r.reserved \in Int /\ r.original <= r.reserved
    BY <1>1, <1>4 DEF Books, RowsSane, Sane, Funded, ReservationType, Agrees
  <2>3. /\ row \in ReservationType /\ row.requester = u /\ row.reserved = r.original
        /\ row.status = "HELD" /\ row.original = r.original
    BY <1>1 DEF RevertedRow, OpenRow, ReservationType
  <2>4. RowChange(o, row)
    <3>1. r.original - r.reserved = row.reserved - Share(r, u)
          /\ r.original - r.reserved \in Int
      BY <2>2, <2>3 DEF Share
    <3> HIDE DEF row
    <3> QED
      BY <2>1, <2>2, <2>3, <3>1, HoldIsChange
  <2>5. HoldsBacked'
    BY <2>3, <2>4, ChangeKeepsHolds DEF Books
  <2>6. RowsSane' /\ Funded'
    <3>1. Sane(row)
      BY <2>2, <2>3 DEF Sane
    <3> HIDE DEF row
    <3> QED
      BY <1>2, <2>2, <2>3, <2>4, <3>1, ChangeKeepsRows DEF Books, RowChange
  <2>7. OffersAgree'
    <3>1. Agrees(row, new)
      BY <1>1, <1>4, RevertAgrees
    <3> HIDE DEF row, new
    <3> QED
      BY <1>3, <2>4, <3>1, ChangeKeepsAgreement DEF Books, RowChange
  <2>8. Covered'
    BY <1>2, <2>1, <2>2 DEF Books, Covered, Hold, TypeOK
  <2> QED
    BY <2>5, <2>6, <2>7, <2>8 DEF Books
<1>5. CASE ~applied
  <2>1. UNCHANGED <<reserved, reservations, revisions>>
    BY <1>5 DEF RevertAdjustment
  <2>2. RowsSane' /\ Funded' /\ HoldsBacked' /\ Covered'
    BY <1>2, <2>1, SameKeepsHolds DEF Books, RowsSane, Sane, Funded, Covered
  <2>3. Agrees(r, new)
    BY <1>1, <1>2, <1>5, TombstoneAgrees
  <2>4. reservations' = [reservations EXCEPT ![o] = r]
    BY <2>1 DEF TypeOK
  <2>5. OffersAgree'
    <3> HIDE DEF r, new
    <3> QED
      BY <1>3, <2>3, <2>4, ChangeKeepsAgreement DEF Books
  <2> QED
    BY <2>2, <2>5 DEF Books
<1> QED
  BY <1>4, <1>5

\* A release gives the whole hold back, or leaves a tombstone.
LEMMA ReleaseBooks ==
  ASSUME TypeOK, Books, NEW o \in Orders, NEW reason \in Reasons, Release(o, reason),
         UNCHANGED <<opened, balance, assignments>>
  PROVE  Books'
<1> DEFINE r == reservations[o]
           u == r.requester
           row == ClosedRow(r, "RELEASED", "RELEASED", reason, 0)
<1>1. r \in ReservationType /\ Sane(r)
  BY DEF TypeOK, Books, RowsSane
<1>2. CASE Releasable(r)
  <2>1. SaveReservation(o, row)
        /\ IF r.status = "NONE" THEN UNCHANGED reserved ELSE Hold(u, -r.reserved)
    BY <1>2 DEF Release, Releasable
  <2>2. /\ row \in ReservationType /\ row.requester = u /\ row.reserved = 0
        /\ row.status = "RELEASED"
    BY <1>1 DEF ClosedRow, ReservationType
  <2>3. r.reserved \in Int /\ r.reserved >= 0
    BY <1>1, <1>2 DEF ReservationType, Sane, Releasable
  <2>4. RowChange(o, row) /\ (r.status # "NONE" => u \in Users)
    <3>1. CASE r.status = "NONE"
      <4>1. \A v \in Users : Share(r, v) = 0 /\ Share(row, v) = 0
        BY <1>1, <2>2, <3>1 DEF Sane, Share
      <4>2. reserved' = [v \in Users |-> reserved[v] - Share(r, v) + Share(row, v)]
        BY <2>1, <3>1, <4>1 DEF TypeOK
      <4> QED
        BY <2>1, <3>1, <4>2 DEF RowChange, SaveReservation, UpdateReservation
    <3>2. CASE r.status # "NONE"
      <4>1. u \in Users
        BY <1>1, <1>2, <3>2 DEF Sane, Releasable
      <4>2. -r.reserved = row.reserved - Share(r, u) /\ -r.reserved \in Int
        BY <2>2, <2>3 DEF Share
      <4> HIDE DEF row
      <4> QED
        BY <2>1, <2>2, <3>2, <4>1, <4>2, HoldIsChange
    <3> QED
      BY <3>1, <3>2
  <2>5. HoldsBacked'
    BY <2>2, <2>4, ChangeKeepsHolds DEF Books
  <2>6. RowsSane' /\ Funded'
    <3>1. Sane(row)
      BY <2>2 DEF Sane
    <3> HIDE DEF row
    <3> QED
      BY <2>2, <2>4, <3>1, ChangeKeepsRows DEF Books, RowChange
  <2>7. OffersAgree'
    <3>1. Agrees(row, assignments[o])
      BY ReleaseAgrees
    <3>2. assignments' = [assignments EXCEPT ![o] = assignments[o]]
      BY DEF TypeOK
    <3> HIDE DEF row
    <3> QED
      BY <2>4, <3>1, <3>2, ChangeKeepsAgreement DEF Books, RowChange
  <2>8. ASSUME NEW v \in Users PROVE reserved'[v] <= balance'[v]
    <3>1. /\ reserved[v] <= balance[v] /\ reserved[v] \in Int /\ balance[v] \in Int
          /\ balance' = balance
      BY DEF Books, Covered, TypeOK
    <3>2. reserved'[v] <= reserved[v]
      <4>1. CASE r.status = "NONE"
        BY <2>1, <3>1, <4>1
      <4>2. CASE r.status # "NONE"
        <5>1. reserved' = [reserved EXCEPT ![u] = @ + -r.reserved] /\ u \in Users
          BY <2>1, <2>4, <4>2 DEF Hold
        <5>2. CASE v = u
          <6>1. reserved'[v] = reserved[v] + -r.reserved
            BY <5>1, <5>2 DEF TypeOK
          <6> QED
            BY <2>3, <3>1, <6>1
        <5>3. CASE v # u
          BY <3>1, <5>1, <5>3 DEF TypeOK
        <5> QED
          BY <5>2, <5>3
      <4> QED
        BY <4>1, <4>2
    <3>3. reserved'[v] \in Int
      <4>1. Share(r, v) \in Int /\ Share(row, v) \in Int
        BY <2>2, <2>3 DEF Share
      <4> QED
        BY <2>4, <3>1, <4>1 DEF RowChange
    <3> QED
      BY <3>1, <3>2, <3>3
  <2> QED
    BY <2>5, <2>6, <2>7, <2>8 DEF Books, Covered
<1>3. CASE ~Releasable(r)
  <2>1. UNCHANGED <<reserved, reservations>>
    BY <1>3 DEF Release
  <2>2. RowsSane' /\ Funded' /\ OffersAgree' /\ HoldsBacked'
    BY <2>1, SameKeepsRows, SameKeepsHolds DEF Books
  <2>3. Covered'
    BY <2>1 DEF Books, Covered
  <2> QED
    BY <2>2, <2>3 DEF Books
<1> QED
  BY <1>2, <1>3

\* A settlement pays out of the hold it ends, never out of another one.
LEMMA SettleBooks ==
  ASSUME TypeOK, Books, NEW o \in Orders, NEW u \in Users, NEW c \in Users,
         NEW type \in PayoutTypes, NEW elapsed \in Elapsed, Settle(o, u, c, type, elapsed)
  PROVE  Books'
<1> DEFINE r == reservations[o]
           q == r.requester
           n == LatenessPayout(assignments[o][r.assignment].offer, type, elapsed, Allowed)
           row == ClosedRow(r, "SETTLED", type, "NONE", n)
<1>1. r \in ReservationType /\ r.reserved \in Int
  BY DEF TypeOK, ReservationType
<1>2. /\ r.status = "ASSIGNED" /\ n \in 0..r.reserved /\ opened' = opened \cup {q, c}
      /\ balance' = SettledBalance(r, c, n) /\ SettledHold(r, n)
      /\ SaveReservation(o, row) /\ assignments' = assignments
  BY DEF Settle
<1> HIDE DEF n
<1>3. q \in Users /\ q \in opened
  BY <1>2 DEF Books, RowsSane, Sane, Funded
<1>4. n \in Int /\ 0 <= n /\ n <= r.reserved
  BY <1>1, <1>2
<1>5. /\ row \in ReservationType /\ row.requester = q /\ row.reserved = 0
      /\ row.status = "SETTLED"
  BY <1>1, <1>4 DEF ClosedRow, ReservationType
<1>6. Hold(q, -r.reserved)
  <2>1. -n - (r.reserved - n) = -r.reserved
    BY <1>1, <1>4
  <2> QED
    BY <1>2, <2>1 DEF SettledHold
<1>7. RowChange(o, row)
  <2>1. -r.reserved = row.reserved - Share(r, q) /\ -r.reserved \in Int
    BY <1>1, <1>5 DEF Share
  <2> HIDE DEF row
  <2> QED
    BY <1>2, <1>3, <1>5, <1>6, <2>1, HoldIsChange
<1>8. HoldsBacked'
  BY <1>5, <1>7, ChangeKeepsHolds DEF Books
<1>9. RowsSane' /\ Funded'
  <2>1. Sane(row)
    BY <1>5 DEF Sane
  <2> HIDE DEF row
  <2> QED
    BY <1>2, <1>5, <1>7, <2>1, ChangeKeepsRows DEF Books, RowChange
<1>10. OffersAgree'
  <2>1. Agrees(r, assignments[o])
    BY AgreeIsPerOrder DEF Books
  <2>2. Agrees(row, assignments[o])
    BY <1>1, <1>2, <2>1, SettleAgrees
  <2>3. assignments' = [assignments EXCEPT ![o] = assignments[o]]
    BY <1>2 DEF TypeOK
  <2> HIDE DEF row
  <2> QED
    BY <1>7, <2>2, <2>3, ChangeKeepsAgreement DEF Books, RowChange
<1>11. ASSUME NEW v \in Users PROVE reserved'[v] <= balance'[v]
  <2> DEFINE g == Granted({q, c})[v]
  <2>1. /\ g \in Int /\ g >= balance[v] /\ (v \in opened => g = balance[v])
        /\ reserved[v] \in Int /\ balance[v] \in Int /\ reserved[v] <= balance[v]
    BY GrantedBounds DEF Books, Covered, TypeOK
  <2>2. balance'[v] = g - (IF v = q THEN n ELSE 0) + (IF v = c THEN n ELSE 0)
    BY <1>2 DEF SettledBalance
  <2>3. reserved'[v] = IF v = q THEN reserved[v] + (-r.reserved) ELSE reserved[v]
    BY <1>3, <1>6 DEF Hold, TypeOK
  <2> HIDE DEF g, r
  <2> QED
    BY <1>1, <1>4, <2>1, <2>2, <2>3
<1> QED
  BY <1>8, <1>9, <1>10, <1>11 DEF Books, Covered

\* The books of the credit service are right in every reachable state.
THEOREM BooksHold == Spec => [](TypeInv /\ Books)
<1>1. Init => Books
  BY InitBooks DEF Books
<1>2. TypeInv /\ Books /\ [Next]_vars => Books'
  <2> SUFFICES ASSUME TypeOK, Books, [Next]_vars PROVE Books'
    BY DEF TypeInv
  <2>1. ASSUME NEW u \in Users, OpenAccount(u) PROVE Books'
    <3>1. /\ opened \subseteq opened' /\ balance' = Granted({u})
          /\ UNCHANGED <<reserved, reservations, assignments>>
      BY <2>1 DEF OpenAccount
    <3>2. \A v \in Users : balance'[v] >= balance[v] /\ balance'[v] \in Int
      BY <3>1, GrantedBounds
    <3>3. RowsSane' /\ Funded' /\ OffersAgree' /\ HoldsBacked'
      BY <3>1, SameKeepsRows, SameKeepsHolds DEF Books
    <3>4. ASSUME NEW v \in Users PROVE reserved'[v] <= balance'[v]
      <4>1. /\ reserved[v] <= balance[v] /\ reserved[v] \in Int /\ balance[v] \in Int
            /\ reserved'[v] = reserved[v]
        BY <3>1 DEF Books, Covered, TypeOK
      <4> QED
        BY <3>2, <4>1
    <3> QED
      BY <3>3, <3>4 DEF Books, Covered
  <2>2. ASSUME NEW o \in Orders, NEW reason \in Reasons, ReleaseReservation(o, reason)
        PROVE  Books'
    BY <2>2, ReleaseBooks DEF ReleaseReservation
  <2>3. ASSUME NEW o \in Orders, NEW u \in Users, NEW reason \in Reasons,
               ApplyRelease(o, u, reason)
        PROVE  Books'
    BY <2>3, ReleaseBooks DEF ApplyRelease
  <2>4. CASE UNCHANGED vars
    <3>1. UNCHANGED <<opened, balance, reserved, reservations, assignments>>
      BY <2>4 DEF vars, accountVars
    <3>2. RowsSane' /\ Funded' /\ OffersAgree' /\ HoldsBacked'
      BY <3>1, SameKeepsRows, SameKeepsHolds DEF Books
    <3>3. Covered'
      BY <3>1 DEF Books, Covered
    <3> QED
      BY <3>2, <3>3 DEF Books
  <2> QED
    BY <2>1, <2>2, <2>3, <2>4, ReserveBooks, AdjustBooks, RevertBooks, SettleBooks DEF Next
<1> QED
  BY <1>1, <1>2, Typing, PTL DEF Spec

\* accounts.reserved is the sum of the open holds, for any number of orders.
THEOREM Backing == Spec => []HoldsBacked
<1>1. TypeInv /\ Books => HoldsBacked
  BY DEF Books
<1> QED
  BY <1>1, BooksHold, PTL

\* A reservation and its offers agree, whatever calls cross.
THEOREM Agreement == Spec => []OffersAgree
<1>1. TypeInv /\ Books => OffersAgree
  BY DEF Books
<1> QED
  BY <1>1, BooksHold, PTL

\* No account is ever overdrawn: the database's balance checks never fail a
\* transaction of this code.
THEOREM Solvency == Spec => []Solvent
<1>1. TypeInv /\ Books => Solvent
  BY ShareIsReserved DEF TypeInv, Books, Covered, Solvent
<1> QED
  BY <1>1, BooksHold, PTL
=============================================================================
