------------------------------ MODULE NatLemmas ------------------------------
(***************************************************************************)
(* Facts about natural numbers that several proofs need.  Least takes the  *)
(* place of induction: to show a fact for every number, take the least one *)
(* without it.                                                             *)
(***************************************************************************)
EXTENDS Integers, WellFoundedInduction, TLAPS

(* A set of natural numbers, if it has any, has a least one.                *)
LEMMA Least ==
  ASSUME NEW S \in SUBSET Nat, S # {}
  PROVE  \E m \in S : \A n \in S : m <= n
<1> DEFINE R == OpToRel(<, Nat)
<1>1. IsWellFoundedOn(R, Nat)
  BY NatLessThanWellFounded, Zenon
<1>2. \A m, n \in Nat : n < m => <<n, m>> \in R
  BY DEF OpToRel
<1> HIDE DEF R
<1>3. PICK m \in S : \A n \in S : ~(<<n, m>> \in R)
  BY <1>1, WFMin
<1>4. \A n \in S : ~(n < m)
  BY <1>2, <1>3
<1>5. m \in Nat /\ S \subseteq Nat
  OBVIOUS
<1> QED
  BY <1>4, <1>5

(* Quotient and remainder, and that there is only one way to divide.        *)
LEMMA Division ==
  ASSUME NEW d \in Nat \ {0}, NEW n \in Nat
  PROVE  n \div d \in Nat /\ n % d \in 0 .. d - 1 /\ n = (n \div d) * d + (n % d)
OBVIOUS

LEMMA DivisionUnique ==
  ASSUME NEW d \in Nat \ {0}, NEW q \in Nat, NEW r \in 0 .. d - 1
  PROVE  (q * d + r) \div d = q /\ (q * d + r) % d = r
OBVIOUS

(* Multiplication keeps order.                                              *)
LEMMA ProductOrder ==
  ASSUME NEW d \in Nat \ {0}, NEW m \in Nat, NEW n \in Nat
  PROVE  /\ m < n <=> m * d < n * d
         /\ m < n => m * d + d <= n * d
         /\ m * d \in Nat
<1>1. m * d \in Nat /\ n * d \in Nat
  OBVIOUS
<1>2. ASSUME NEW a \in Nat, NEW b \in Nat, a < b PROVE a * d + d <= b * d
  <2>1. b - a - 1 \in Nat
    BY <1>2
  <2> DEFINE c == b - a - 1
  <2>2. c \in Nat /\ b = a + 1 + c
    BY <2>1
  <2> HIDE DEF c
  <2>3. b * d = a * d + d + c * d /\ c * d \in Nat
    BY <2>2
  <2> QED
    BY <2>3
<1>3. n < m => n * d + d <= m * d
  BY <1>2
<1> QED
  BY <1>1, <1>2, <1>3
-----------------------------------------------------------------------------
(* f starts with c, and each step multiplies by a and adds the next of g.   *)
Recurs(f, n, a, c, g) ==
  /\ f \in [0 .. n -> Nat] /\ f[0] = c
  /\ \A k \in 1 .. n : f[k] = a * f[k - 1] + g[k]

(* There is such a function: were m the least length for which there is     *)
(* none, the one of length m - 1 could be continued.                        *)
LEMMA Recurrence ==
  ASSUME NEW n \in Nat, NEW a \in Nat, NEW c \in Nat, NEW g \in [1 .. n -> Nat]
  PROVE  \E f : Recurs(f, n, a, c, g)
<1> DEFINE S == {m \in 0 .. n : ~(\E f : Recurs(f, m, a, c, g))}
<1>1. SUFFICES ASSUME S # {} PROVE FALSE
  <2>1. n \in 0 .. n
    OBVIOUS
  <2> QED
    BY <2>1, Zenon
<1>2. S \in SUBSET Nat
  <2>1. \A m \in S : m \in Nat
    BY DEF S
  <2> HIDE DEF S
  <2> QED
    BY <2>1
<1> HIDE DEF S
<1>3. PICK m \in S : \A k \in S : m <= k
  BY <1>1, <1>2, Least
<1>4. m \in 0 .. n /\ m \in Nat /\ ~(\E f : Recurs(f, m, a, c, g))
  BY <1>3 DEF S
<1>5. m # 0
  <2>1. ASSUME m = 0 PROVE Recurs([k \in 0 .. m |-> c], m, a, c, g)
    BY <2>1 DEF Recurs
  <2> QED
    BY <1>4, <2>1
<1>6. m - 1 \in 0 .. n /\ m - 1 \notin S
  BY <1>3, <1>4, <1>5
<1>7. PICK f : Recurs(f, m - 1, a, c, g)
  BY <1>6 DEF S
<1>8. f \in [0 .. m - 1 -> Nat] /\ f[0] = c /\ \A k \in 1 .. m - 1 : f[k] = a * f[k - 1] + g[k]
  BY <1>7 DEF Recurs
<1>9. a * f[m - 1] + g[m] \in Nat
  <2>1. f[m - 1] \in Nat /\ g[m] \in Nat
    BY <1>4, <1>5, <1>8
  <2>2. \A x, y \in Nat : a * x + y \in Nat
    OBVIOUS
  <2> QED
    BY <2>1, <2>2
<1> DEFINE h == [k \in 0 .. m |-> IF k = m THEN a * f[m - 1] + g[m] ELSE f[k]]
<1>10. h \in [0 .. m -> Nat]
  <2>1. ASSUME NEW k \in 0 .. m, k # m PROVE f[k] \in Nat
    <3>1. k \in 0 .. m - 1
      BY <1>4, <2>1
    <3> QED
      BY <1>8, <3>1
  <2> QED
    BY <1>9, <2>1
<1>11. h[0] = c
  BY <1>4, <1>5, <1>8
<1>12. ASSUME NEW k \in 1 .. m PROVE h[k] = a * h[k - 1] + g[k]
  <2>1. k \in 0 .. m /\ k - 1 \in 0 .. m /\ k - 1 # m
    BY <1>4
  <2>2. h[k] = (IF k = m THEN a * f[m - 1] + g[m] ELSE f[k]) /\ h[k - 1] = f[k - 1]
    BY <2>1
  <2>3. CASE k = m
    BY <2>2, <2>3
  <2>4. CASE k # m
    <3>1. k \in 1 .. m - 1
      BY <1>4, <2>4
    <3> QED
      BY <1>8, <2>2, <2>4, <3>1
  <2> QED
    BY <2>3, <2>4
<1> HIDE DEF h
<1>13. Recurs(h, m, a, c, g)
  BY <1>10, <1>11, <1>12 DEF Recurs
<1> QED
  BY <1>4, <1>13
===============================================================================
