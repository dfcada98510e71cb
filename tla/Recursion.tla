------------------------------ MODULE Recursion ------------------------------
(***************************************************************************)
(* Induction and definitions by recursion over the natural numbers.  A     *)
(* module that defines a function by                                       *)
(*                                                                         *)
(*   f[n \in Nat] == IF n = 0 THEN Start(x, y, z)                          *)
(*                            ELSE Step(x, y, z, f[n - 1], n)              *)
(*                                                                         *)
(* takes an instance with its Start and Step, where x, y and z are what    *)
(* the definition depends on, and has by Unfold that f is what it should   *)
(* be.                                                                     *)
(***************************************************************************)
EXTENDS Integers, FiniteSetTheorems, WellFoundedInduction, TLAPS

CONSTANTS Start(_, _, _), Step(_, _, _, _, _)

\* A set of naturals has a smallest member: the intervals up to its members
\* are finite sets, of which one is minimal for inclusion.
LEMMA SmallestMember ==
  ASSUME NEW T \in SUBSET Nat, T # {}
  PROVE  \E m \in T : \A k \in T : m <= k
<1> DEFINE below == {0..k : k \in T}
<1>1. below \subseteq FiniteSubsetsOf(Nat) /\ below # {}
  <2>1. \A k \in T : 0..k \subseteq Nat /\ IsFiniteSet(0..k)
    BY FS_Interval
  <2> QED
    BY <2>1 DEF FiniteSubsetsOf
<1>2. \E x \in below : \A y \in below : <<y, x>> \notin StrictSubsetOrdering(Nat)
  BY <1>1, FS_StrictSubsetOrderingWellFounded, WFMin
<1>3. PICK m \in T : \A k \in T : <<0..k, 0..m>> \notin StrictSubsetOrdering(Nat)
  BY <1>2
<1>4. ASSUME NEW k \in T, k < m PROVE <<0..k, 0..m>> \in StrictSubsetOrdering(Nat)
  BY <1>4 DEF StrictSubsetOrdering
<1>5. \A k \in T : ~(k < m)
  BY <1>3, <1>4
<1> QED
  BY <1>5

\* Induction, on sets of naturals.
THEOREM Induction ==
  ASSUME NEW S \in SUBSET Nat, 0 \in S, \A n \in S : n + 1 \in S
  PROVE  S = Nat
<1> SUFFICES ASSUME Nat \ S # {} PROVE FALSE
  OBVIOUS
<1>1. PICK m \in Nat \ S : \A k \in Nat \ S : m <= k
  BY SmallestMember
<1>2. m # 0 /\ m - 1 \in Nat /\ m - 1 \in S
  BY <1>1
<1> QED
  BY <1>1, <1>2

-----------------------------------------------------------------------------

Run(x, y, z) ==
  LET f[n \in Nat] == IF n = 0 THEN Start(x, y, z) ELSE Step(x, y, z, f[n - 1], n)
  IN  f

\* g is the function up to n.
Upto(x, y, z, n, g) ==
  /\ g = [i \in 0..n |-> g[i]]
  /\ \A i \in 0..n : g[i] = IF i = 0 THEN Start(x, y, z) ELSE Step(x, y, z, g[i - 1], i)

\* There is one up to each n.
LEMMA UptoExists ==
  ASSUME NEW x, NEW y, NEW z
  PROVE  \A n \in Nat : \E g : Upto(x, y, z, n, g)
<1> DEFINE S == {n \in Nat : \E g : Upto(x, y, z, n, g)}
<1>1. 0 \in S
  <2>1. Upto(x, y, z, 0, [i \in 0..0 |-> Start(x, y, z)])
    BY DEF Upto
  <2> QED
    BY <2>1
<1>2. ASSUME NEW n \in S PROVE n + 1 \in S
  <2>1. PICK g : Upto(x, y, z, n, g)
    OBVIOUS
  <2> DEFINE h == [i \in 0..n + 1 |-> IF i = n + 1 THEN Step(x, y, z, g[n], n + 1) ELSE g[i]]
  <2>2. Upto(x, y, z, n + 1, h)
    <3>1. n \in Nat /\ (n + 1) - 1 = n
      OBVIOUS
    <3>2. \A i \in 0..n + 1 : h[i] = IF i = n + 1 THEN Step(x, y, z, g[n], n + 1) ELSE g[i]
      OBVIOUS
    <3>3. h = [i \in 0..n + 1 |-> h[i]]
      OBVIOUS
    <3> HIDE DEF h
    <3>4. ASSUME NEW i \in 0..n + 1
          PROVE  h[i] = IF i = 0 THEN Start(x, y, z) ELSE Step(x, y, z, h[i - 1], i)
      <4>1. CASE i = n + 1
        <5>1. i # 0 /\ i - 1 = n /\ n \in 0..n + 1 /\ n # n + 1
          BY <4>1, <3>1
        <5>2. h[n] = g[n]
          BY <3>2, <5>1
        <5> QED
          BY <4>1, <5>1, <5>2, <3>2
      <4>2. CASE i = 0
        <5>1. i \in 0..n /\ i # n + 1
          BY <4>2, <3>1
        <5> QED
          BY <5>1, <4>2, <3>2, <2>1 DEF Upto
      <4>3. CASE i # 0 /\ i # n + 1
        <5>1. i \in 0..n /\ i - 1 \in 0..n + 1 /\ i - 1 # n + 1
          BY <4>3, <3>1
        <5>2. h[i] = g[i] /\ h[i - 1] = g[i - 1]
          BY <5>1, <4>3, <3>2
        <5> QED
          BY <5>1, <5>2, <4>3, <2>1 DEF Upto
      <4> QED
        BY <4>1, <4>2, <4>3
    <3> QED
      BY <3>3, <3>4 DEF Upto
  <2> QED
    BY <2>2
<1>3. S = Nat
  <2> HIDE DEF S
  <2> QED
    BY <1>1, <1>2, Induction DEF S
<1> QED
  BY <1>3

\* Two of them agree where both are defined.
LEMMA UptoAgree ==
  ASSUME NEW x, NEW y, NEW z, NEW m \in Nat, NEW n \in Nat,
         NEW g, Upto(x, y, z, m, g), NEW h, Upto(x, y, z, n, h)
  PROVE  \A i \in Nat : i <= m /\ i <= n => g[i] = h[i]
<1> DEFINE S == {i \in Nat : i <= m /\ i <= n => g[i] = h[i]}
<1>1. 0 \in S
  <2>1. 0 \in 0..m /\ 0 \in 0..n
    OBVIOUS
  <2>2. g[0] = Start(x, y, z) /\ h[0] = Start(x, y, z)
    BY <2>1 DEF Upto
  <2> QED
    BY <2>2
<1>2. ASSUME NEW i \in S PROVE i + 1 \in S
  <2>1. SUFFICES ASSUME i + 1 <= m, i + 1 <= n PROVE g[i + 1] = h[i + 1]
    OBVIOUS
  <2>2. i + 1 \in 0..m /\ i + 1 \in 0..n /\ i + 1 # 0 /\ (i + 1) - 1 = i
    BY <2>1
  <2>3. g[i] = h[i]
    BY <2>1
  <2>4. g[i + 1] = Step(x, y, z, g[(i + 1) - 1], i + 1)
    BY <2>2 DEF Upto
  <2>5. h[i + 1] = Step(x, y, z, h[(i + 1) - 1], i + 1)
    BY <2>2 DEF Upto
  <2> QED
    BY <2>2, <2>3, <2>4, <2>5
<1>3. S = Nat
  <2> HIDE DEF S
  <2> QED
    BY <1>1, <1>2, Induction DEF S
<1> QED
  BY <1>3

\* The function starts and goes on as its definition says.
THEOREM Unfold ==
  ASSUME NEW x, NEW y, NEW z
  PROVE  /\ Run(x, y, z)[0] = Start(x, y, z)
         /\ \A n \in Nat : Run(x, y, z)[n + 1] = Step(x, y, z, Run(x, y, z)[n], n + 1)
<1> DEFINE G(n) == CHOOSE g : Upto(x, y, z, n, g)
           F == [n \in Nat |-> G(n)[n]]
<1>1. \A n \in Nat : Upto(x, y, z, n, G(n))
  BY UptoExists
<1>2. F = [n \in Nat |-> IF n = 0 THEN Start(x, y, z) ELSE Step(x, y, z, F[n - 1], n)]
  <2>1. ASSUME NEW n \in Nat
        PROVE  F[n] = IF n = 0 THEN Start(x, y, z) ELSE Step(x, y, z, F[n - 1], n)
    <3>1. CASE n = 0
      <4>1. F[n] = G(n)[n] /\ n \in 0..n
        BY <3>1
      <4>2. G(n)[n] = Start(x, y, z)
        <5> HIDE DEF G
        <5> QED
          BY <4>1, <3>1, <1>1 DEF Upto
      <4> QED
        BY <4>1, <4>2, <3>1
    <3>2. CASE n # 0
      <4>1. n - 1 \in Nat /\ n - 1 \in 0..n /\ n \in 0..n
        BY <3>2
      <4>2. F[n - 1] = G(n - 1)[n - 1] /\ F[n] = G(n)[n]
        BY <4>1
      <4>3. G(n - 1)[n - 1] = G(n)[n - 1]
        <5> HIDE DEF G
        <5> QED
          BY <4>1, <1>1, UptoAgree
      <4>4. G(n)[n] = Step(x, y, z, G(n)[n - 1], n)
        <5> HIDE DEF G
        <5> QED
          BY <4>1, <3>2, <1>1 DEF Upto
      <4> QED
        BY <4>2, <4>3, <4>4, <3>2
    <3> QED
      BY <3>1, <3>2
  <2> HIDE DEF G
  <2> QED
    BY <2>1
<1>3. \E f : f = [n \in Nat |-> IF n = 0 THEN Start(x, y, z) ELSE Step(x, y, z, f[n - 1], n)]
  <2> HIDE DEF F
  <2> QED
    BY <1>2
<1>4. Run(x, y, z) = [n \in Nat |-> IF n = 0 THEN Start(x, y, z) ELSE Step(x, y, z, Run(x, y, z)[n - 1], n)]
  BY <1>3, Zenon DEF Run
<1> DEFINE R == Run(x, y, z)
<1> HIDE DEF R
<1>5. R = [n \in Nat |-> IF n = 0 THEN Start(x, y, z) ELSE Step(x, y, z, R[n - 1], n)]
  BY <1>4 DEF R
<1>6. R[0] = Start(x, y, z)
  BY <1>5
<1>7. ASSUME NEW n \in Nat PROVE R[n + 1] = Step(x, y, z, R[n], n + 1)
  <2>1. n + 1 \in Nat /\ n + 1 # 0 /\ (n + 1) - 1 = n
    OBVIOUS
  <2> QED
    BY <2>1, <1>5
<1> QED
  BY <1>6, <1>7 DEF R
=============================================================================
