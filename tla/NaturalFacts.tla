---------------------------- MODULE NaturalFacts ----------------------------
(***************************************************************************)
(* Facts about natural numbers, stated of sets: a set can be handed to the *)
(* provers where a predicate could not.                                    *)
(***************************************************************************)
EXTENDS Integers, TLAPS, WellFoundedInduction

\* Every set of natural numbers that is not empty has a least element.
LEMMA LeastElement ==
  ASSUME NEW T \in SUBSET Nat, T # {}
  PROVE  \E x \in T : \A y \in T : x <= y
<1> DEFINE Less == {ss \in Nat \X Nat : ss[1] < ss[2]}
<1>1. IsWellFoundedOn(Less, Nat)
  BY NatLessThanWellFounded DEF OpToRel
<1>2. PICK x \in T : \A y \in T : ~(<<y, x>> \in Less)
  <2> HIDE DEF Less
  <2> QED BY <1>1, WFMin
<1>3. ASSUME NEW y \in T PROVE x <= y
  <2>1. x \in Nat /\ y \in Nat
    OBVIOUS
  <2>2. y < x => <<y, x>> \in Less
    BY <2>1
  <2> QED BY <1>2, <2>1, <2>2
<1> QED BY <1>3

\* Induction: a set of natural numbers that holds 0 and with each number the
\* next holds all.
LEMMA NatSetInduction ==
  ASSUME NEW T \in SUBSET Nat, 0 \in T, \A n \in T : n + 1 \in T
  PROVE  T = Nat
<1> SUFFICES ASSUME T # Nat PROVE FALSE
  OBVIOUS
<1>1. Nat \ T \in SUBSET Nat /\ Nat \ T # {}
  OBVIOUS
<1>2. PICK x \in Nat \ T : \A y \in Nat \ T : x <= y
  BY <1>1, LeastElement
<1>3. x # 0 /\ x - 1 \in Nat /\ ~(x <= x - 1)
  BY <1>2
<1>4. x - 1 \in T
  BY <1>2, <1>3
<1>5. (x - 1) + 1 \in T /\ (x - 1) + 1 = x
  BY <1>3, <1>4
<1> QED BY <1>5
\* Recursion: f gives each number of M what F makes of its value at a smaller
\* number, and any other what B does.
Recursion(D, S, M, B, F, g) ==
  /\ D \in SUBSET Nat /\ M \in SUBSET D
  /\ B \in [D -> S] /\ F \in [M -> [S -> S]]
  /\ g \in [M -> D] /\ \A n \in M : g[n] < n
Follows(f, D, M, B, F, g) ==
  \A n \in D : (n \in M => f[n] = F[n][f[g[n]]]) /\ (n \notin M => f[n] = B[n])

LEMMA RecursionExists ==
  ASSUME NEW D, NEW S, NEW M, NEW B, NEW F, NEW g, Recursion(D, S, M, B, F, g)
  PROVE  \E f \in [D -> S] : Follows(f, D, M, B, F, g)
<1> USE DEF Recursion
<1> DEFINE Body(f, n) == IF n \in M THEN F[n][f[g[n]]] ELSE B[n]
           Upto(k) == {n \in D : n < k}
           Good(k, h) == h \in [Upto(k) -> S] /\ \A n \in Upto(k) : h[n] = Body(h, n)
           T == {k \in Nat : \E h : Good(k, h)}
<1>1. ASSUME NEW k \in Nat, NEW l \in Nat, NEW a, NEW b, Good(k, a), Good(l, b),
             NEW n \in D, n < k, n < l
      PROVE  a[n] = b[n]
  <2> DEFINE U == {m \in D : m < k /\ m < l /\ a[m] # b[m]}
  <2>1. SUFFICES ASSUME U # {} PROVE FALSE
    BY <1>1
  <2>2. U \in SUBSET Nat
    OBVIOUS
  <2>3. PICK m \in U : \A j \in U : m <= j
    BY <2>1, <2>2, LeastElement
  <2>4. m \in Upto(k) /\ m \in Upto(l) /\ a[m] # b[m] /\ m \in Nat
    BY <2>3
  <2>5. a[m] = Body(a, m) /\ b[m] = Body(b, m)
    BY <1>1, <2>4
  <2>6. m \in M /\ a[g[m]] # b[g[m]]
    BY <2>4, <2>5
  <2>7. g[m] \in D /\ g[m] \in Nat /\ g[m] < m
    BY <2>6
  <2>8. g[m] \in U
    BY <2>4, <2>6, <2>7
  <2> QED BY <2>3, <2>4, <2>7, <2>8
<1>2. 0 \in T
  <2>1. Good(0, [n \in Upto(0) |-> B[n]])
    <3>1. \A n \in Nat : ~(n < 0)
      OBVIOUS
    <3>2. Upto(0) = {}
      BY <3>1
    <3> QED BY <3>2
  <2> QED BY <2>1
<1>3. ASSUME NEW k \in T PROVE k + 1 \in T
  <2>1. PICK a : Good(k, a)
    OBVIOUS
  <2>2. k \in Nat
    OBVIOUS
  <2> DEFINE b == [n \in Upto(k + 1) |-> IF n < k THEN a[n] ELSE Body(a, n)]
  <2>3. ASSUME NEW n \in Upto(k + 1)
        PROVE  b[n] = Body(a, n) /\ b[n] \in S /\ (n \in M => b[g[n]] = a[g[n]])
    <3>1. n \in Nat /\ n < k + 1 /\ n \in D
      OBVIOUS
    <3>2. n \in M => g[n] \in D /\ g[n] \in Nat /\ g[n] < n
      OBVIOUS
    <3>3. n \in M => g[n] < k /\ g[n] \in Upto(k) /\ g[n] \in Upto(k + 1) /\ a[g[n]] \in S
      BY <2>1, <2>2, <3>1, <3>2
    <3>4. b[n] = Body(a, n)
      BY <2>1, <2>2, <3>1
    <3>5. Body(a, n) \in S
      BY <3>1, <3>3
    <3> QED BY <3>3, <3>4, <3>5
  <2>4. Good(k + 1, b)
    <3>1. ASSUME NEW n \in Upto(k + 1) PROVE b[n] = Body(b, n)
      BY <2>3
    <3>2. b \in [Upto(k + 1) -> S]
      BY <2>3
    <3> QED BY <3>1, <3>2
  <2>5. k + 1 \in Nat
    BY <2>2
  <2> HIDE DEF Good, b
  <2> QED BY <2>4, <2>5
<1>4. T = Nat
  <2> HIDE DEF T
  <2>1. T \in SUBSET Nat
    BY DEF T
  <2> QED BY <1>2, <1>3, <2>1, NatSetInduction
<1> DEFINE H == [n \in Nat |-> CHOOSE h : Good(n, h)]
           f == [n \in D |-> H[n + 1][n]]
<1>5. \A n \in Nat : Good(n, H[n])
  <2> HIDE DEF Good
  <2> QED BY <1>4
<1>6. ASSUME NEW n \in D PROVE f[n] = Body(f, n) /\ f[n] \in S
  <2>0. n \in Nat /\ n + 1 \in Nat /\ n < n + 1
    OBVIOUS
  <2>1. Good(n + 1, H[n + 1])
    <3> HIDE DEF Good, H
    <3> QED BY <1>5, <2>0
  <2>2. n \in Upto(n + 1) /\ f[n] = H[n + 1][n]
    BY <2>0
  <2>3. H[n + 1][n] = Body(H[n + 1], n) /\ H[n + 1][n] \in S
    <3> HIDE DEF H, Body
    <3> QED BY <2>1, <2>2
  <2>4. ASSUME n \in M PROVE f[g[n]] = H[n + 1][g[n]]
    <3>0. g[n] \in D /\ g[n] \in Nat /\ g[n] < n
      BY <2>4
    <3>1. g[n] \in D /\ g[n] \in Nat /\ g[n] < n /\ g[n] + 1 \in Nat /\ g[n] < g[n] + 1 /\ g[n] < n + 1
      <4>1. \A m \in Nat : m < n => m + 1 \in Nat /\ m < m + 1 /\ m < n + 1
        BY <2>0
      <4> HIDE DEF H, f, Good
      <4> QED BY <3>0, <4>1, Zenon
    <3>2. Good(g[n] + 1, H[g[n] + 1])
      BY <1>5, <3>1
    <3>3. H[g[n] + 1][g[n]] = H[n + 1][g[n]]
      <4> HIDE DEF H, Good
      <4> QED BY <1>1, <2>0, <2>1, <3>1, <3>2
    <3> QED BY <3>1, <3>3
  <2>5. Body(H[n + 1], n) = Body(f, n)
    <3> HIDE DEF H, f
    <3> QED BY <2>4
  <2> QED BY <2>2, <2>3, <2>5
<1>7. f \in [D -> S]
  BY <1>6
<1> HIDE DEF f
<1>8. \A n \in D : (n \in M => f[n] = F[n][f[g[n]]]) /\ (n \notin M => f[n] = B[n])
  BY <1>6
<1> QED BY <1>7, <1>8 DEF Follows
=============================================================================
