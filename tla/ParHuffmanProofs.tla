------------------------- MODULE ParHuffmanProofs -------------------------
(***************************************************************************)
(* That GPU_GenerateCL gives the leaves the codeword lengths of a full     *)
(* binary tree, the rarer symbols the longer ones, whatever the histogram, *)
(* the grid and the order its blocks run in.  One block needs nothing      *)
(* more; several do if the ring is sorted where they merge, as parMerge    *)
(* takes for granted (Joins, below).                                       *)
(*                                                                         *)
(* The argument: between two rounds the leaves taken are in full trees     *)
(* under the roots of the ring (Forest), which weigh no more than those    *)
(* leaves (Weights), and the ring holds as many roots as its bounds say    *)
(* (Ring).  A round takes an even number of nodes, the leaves of them      *)
(* copied whole and in order (Copying), merges them as one walk of which   *)
(* each block has its share (Shares), and joins them in pairs under new    *)
(* roots (Melding).  A join in pairs, whatever the pairs, keeps full trees *)
(* full, and the order of the merge keeps the depths in order.             *)
(***************************************************************************)
EXTENDS ParHuffman, NatLemmas, FiniteSetTheorems

-----------------------------------------------------------------------------
(* Sums, walks and shuffles: facts about the operators, of no state.          *)

(* Sums adds up.                                                            *)
Adding(T, f, m) == /\ T \in [0 .. m -> Nat] /\ T[0] = 0
                   /\ \A k \in 1 .. m : f[k - 1] \in Nat /\ T[k] = T[k - 1] + f[k - 1]

(* Sums(f) is the sequence of the partial sums of f.                          *)
LEMMA SumsAdd ==
  ASSUME NEW m \in Nat, NEW f \in [0 .. m - 1 -> Nat]
  PROVE  Adding(Sums(f), f, m)
<1> DEFINE g == [k \in 1 .. m |-> f[k - 1]]
           Eq(T) == T = [k \in 0 .. m |-> IF k = 0 THEN 0 ELSE T[k - 1] + f[k - 1]]
<1>1. g \in [1 .. m -> Nat]
  <2>1. \A k \in 1 .. m : k - 1 \in 0 .. m - 1
    OBVIOUS
  <2> QED BY <2>1
<1>2. PICK T : Recurs(T, m, 1, 0, g)
  <2> HIDE DEF g
  <2> QED BY <1>1, Recurrence
<1>3. T \in [0 .. m -> Nat] /\ T[0] = 0 /\ \A k \in 1 .. m : T[k] = T[k - 1] + f[k - 1]
  <2>1. T \in [0 .. m -> Nat] /\ T[0] = 0 /\ \A k \in 1 .. m : T[k] = 1 * T[k - 1] + g[k]
    BY <1>2 DEF Recurs
  <2>2. ASSUME NEW k \in 1 .. m PROVE T[k] = T[k - 1] + f[k - 1]
    <3>1. k \in Nat /\ k - 1 \in 0 .. m /\ g[k] = f[k - 1] /\ g[k] \in Nat
      BY <1>1
    <3>2. T[k - 1] \in Nat
      BY <2>1, <3>1
    <3> QED BY <2>1, <3>1, <3>2
  <2> QED BY <2>1, <2>2
<1>4. Eq(T)
  <2>1. ASSUME NEW k \in 0 .. m PROVE T[k] = IF k = 0 THEN 0 ELSE T[k - 1] + f[k - 1]
    <3>1. k = 0 \/ k \in 1 .. m
      OBVIOUS
    <3> QED BY <1>3, <3>1
  <2> QED BY <1>3, <2>1
<1>5. Cardinality(DOMAIN f) = m
  <2>1. DOMAIN f = 0 .. m - 1
    OBVIOUS
  <2> QED BY <2>1, FS_Interval
<1>6. Sums(f) = CHOOSE S : Eq(S)
  BY <1>5, Zenon DEF Sums
<1> DEFINE C == CHOOSE S : Eq(S)
<1>7. Eq(C)
  <2> HIDE DEF Eq
  <2> QED BY <1>4
<1>8. ASSUME NEW S, Eq(S), NEW k \in 0 .. m PROVE S[k] = IF k = 0 THEN 0 ELSE S[k - 1] + f[k - 1]
  BY <1>8
<1> HIDE DEF Eq
<1>9. \A k \in 0 .. m : C[k] = T[k]
  <2> DEFINE D == {k \in 0 .. m : C[k] # T[k]}
  <2>1. SUFFICES ASSUME D # {} PROVE FALSE
    OBVIOUS
  <2>2. D \in SUBSET Nat
    OBVIOUS
  <2> HIDE DEF D
  <2>3. PICK k \in D : \A j \in D : k <= j
    BY <2>1, <2>2, Least
  <2>4. k \in 0 .. m /\ k \in Nat /\ C[k] # T[k]
    BY <2>3 DEF D
  <2>5. C[k] = IF k = 0 THEN 0 ELSE C[k - 1] + f[k - 1]
    BY <1>7, <1>8, <2>4
  <2>6. T[k] = IF k = 0 THEN 0 ELSE T[k - 1] + f[k - 1]
    BY <1>4, <1>8, <2>4
  <2>7. k # 0 /\ k - 1 \in 0 .. m
    BY <2>4, <2>5, <2>6
  <2>8. k - 1 \notin D
    <3>1. ~(k <= k - 1)
      BY <2>4
    <3> QED BY <2>3, <3>1
  <2> QED BY <2>4, <2>5, <2>6, <2>7, <2>8 DEF D
<1>10. DOMAIN C = 0 .. m
  <2>1. ASSUME NEW S, Eq(S) PROVE DOMAIN S = 0 .. m
    BY <2>1 DEF Eq
  <2> HIDE DEF C
  <2> QED BY <1>7, <2>1
<1>11. C = T
  <2>1. ASSUME NEW S, Eq(S) PROVE S = [k \in 0 .. m |-> S[k]]
    BY <2>1 DEF Eq
  <2>2. C = [k \in 0 .. m |-> C[k]] /\ T = [k \in 0 .. m |-> T[k]]
    <3> HIDE DEF C
    <3> QED BY <1>7, <1>3, <2>1
  <2> HIDE DEF C
  <2> QED BY <1>9, <2>2
<1> QED
  <2> HIDE DEF C
  <2>1. Sums(f) = T
    BY <1>6, <1>11 DEF C
  <2> QED BY <1>3, <2>1 DEF Adding

(* Induction up to m, for a set.                                            *)
LEMMA Induct ==
  ASSUME NEW m \in Nat, NEW S, 0 \in S, \A k \in 1 .. m : k - 1 \in S => k \in S
  PROVE  \A k \in 0 .. m : k \in S
<1> DEFINE D == {k \in 0 .. m : k \notin S}
<1>1. SUFFICES ASSUME D # {} PROVE FALSE
  OBVIOUS
<1>2. D \in SUBSET Nat
  OBVIOUS
<1> HIDE DEF D
<1>3. PICK k \in D : \A j \in D : k <= j
  BY <1>1, <1>2, Least
<1>4. k \in 1 .. m /\ k - 1 \in 0 .. m /\ ~(k <= k - 1)
  BY <1>3 DEF D
<1> QED BY <1>3, <1>4 DEF D

(* The partial sums of natural numbers grow.                                  *)
LEMMA SumsMono ==
  ASSUME NEW m \in Nat, NEW f \in [0 .. m - 1 -> Nat], NEW b \in 0 .. m, NEW a \in 0 .. b
  PROVE  Sums(f)[a] <= Sums(f)[b] /\ Sums(f)[a] \in Nat /\ Sums(f)[b] \in Nat
<1> DEFINE T == Sums(f)
           S == {k \in 0 .. b : a <= k => T[a] <= T[k]}
<1>1. T \in [0 .. m -> Nat] /\ T[0] = 0 /\ \A k \in 1 .. m : T[k] = T[k - 1] + f[k - 1]
  BY SumsAdd DEF Adding
<1> HIDE DEF T
<1>2. 0 \in S
  BY <1>1
<1>3. ASSUME NEW k \in 1 .. b, k - 1 \in S PROVE k \in S
  <2>1. k \in 1 .. m /\ k - 1 \in 0 .. m - 1 /\ k \in 0 .. m /\ a \in 0 .. m
    OBVIOUS
  <2>2. T[k] = T[k - 1] + f[k - 1] /\ f[k - 1] \in Nat /\ T[k - 1] \in Nat /\ T[a] \in Nat
    BY <1>1, <2>1
  <2>3. CASE a <= k - 1
    BY <1>3, <2>2, <2>3
  <2>4. CASE a = k
    BY <2>2, <2>4, <1>1
  <2> QED BY <2>3, <2>4
<1> HIDE DEF S
<1>4. b \in Nat /\ b \in 0 .. b
  OBVIOUS
<1>5. \A k \in 0 .. b : k \in S
  BY <1>2, <1>3, <1>4, Induct
<1> QED
  BY <1>1, <1>4, <1>5 DEF S, T

(* Functions that agree up to b have the same partial sums up to b.           *)
LEMMA SumsAgree ==
  ASSUME NEW m \in Nat, NEW f \in [0 .. m - 1 -> Nat], NEW g \in [0 .. m - 1 -> Nat],
         NEW b \in 0 .. m, \A j \in 0 .. b - 1 : f[j] = g[j]
  PROVE  \A a \in 0 .. b : Sums(f)[a] = Sums(g)[a]
<1> DEFINE T == Sums(f)
           U == Sums(g)
           S == {k \in 0 .. b : T[k] = U[k]}
<1>1. T[0] = 0 /\ \A k \in 1 .. m : T[k] = T[k - 1] + f[k - 1]
  BY SumsAdd DEF Adding
<1>2. U[0] = 0 /\ \A k \in 1 .. m : U[k] = U[k - 1] + g[k - 1]
  BY SumsAdd DEF Adding
<1> HIDE DEF T, U
<1>3. 0 \in S
  BY <1>1, <1>2
<1>4. ASSUME NEW k \in 1 .. b, k - 1 \in S PROVE k \in S
  <2>1. k \in 1 .. m /\ k - 1 \in 0 .. b - 1 /\ k \in 0 .. b
    OBVIOUS
  <2> QED BY <1>1, <1>2, <1>4, <2>1
<1> HIDE DEF S
<1>5. b \in Nat
  OBVIOUS
<1>6. \A k \in 0 .. b : k \in S
  BY <1>3, <1>4, <1>5, Induct
<1> QED
  BY <1>6 DEF S, T, U

(* Where each of h is the mean of those of f and g, so is the sum.          *)
Means(f, g, h, m) ==
  \A j \in 0 .. m - 1 : /\ f[j] \in Nat /\ g[j] \in Nat /\ h[j] \in Nat
                        /\ h[j] + h[j] = f[j] + g[j]

(* The same of three sequences of partial sums.                               *)
LEMMA AddingMeans ==
  ASSUME NEW m \in Nat, NEW f, NEW g, NEW h, NEW T, NEW U, NEW V,
         Adding(T, f, m), Adding(U, g, m), Adding(V, h, m), Means(f, g, h, m)
  PROVE  V[m] + V[m] = T[m] + U[m]
<1> DEFINE S == {k \in 0 .. m : V[k] + V[k] = T[k] + U[k]}
<1>1. 0 \in S
  BY DEF Adding
<1>2. ASSUME NEW F, NEW G, Adding(F, G, m), NEW k \in 1 .. m
      PROVE  F[k - 1] \in Nat /\ F[k] = F[k - 1] + G[k - 1]
  BY <1>2 DEF Adding
<1>3. ASSUME NEW k \in 1 .. m, k - 1 \in S PROVE k \in S
  <2>1. T[k - 1] \in Nat /\ T[k] = T[k - 1] + f[k - 1]
    BY <1>2
  <2>2. U[k - 1] \in Nat /\ U[k] = U[k - 1] + g[k - 1]
    BY <1>2
  <2>3. V[k - 1] \in Nat /\ V[k] = V[k - 1] + h[k - 1]
    BY <1>2
  <2>4. /\ f[k - 1] \in Nat /\ g[k - 1] \in Nat /\ h[k - 1] \in Nat
        /\ h[k - 1] + h[k - 1] = f[k - 1] + g[k - 1]
    BY DEF Means
  <2>5. V[k - 1] + V[k - 1] = T[k - 1] + U[k - 1]
    BY <1>3
  <2>6. V[k] + V[k] = T[k] + U[k]
    BY <2>1, <2>2, <2>3, <2>4, <2>5
  <2> QED BY <2>6
<1> HIDE DEF S
<1>4. \A k \in 0 .. m : k \in S
  BY <1>1, <1>3, Induct
<1> QED
  BY <1>4 DEF S

(* The sum of the means is the mean of the sums.                              *)
LEMMA SumsMeans ==
  ASSUME NEW m \in Nat, NEW f \in [0 .. m - 1 -> Nat], NEW g \in [0 .. m - 1 -> Nat],
         NEW h \in [0 .. m - 1 -> Nat], Means(f, g, h, m)
  PROVE  Sums(h)[m] + Sums(h)[m] = Sums(f)[m] + Sums(g)[m]
<1>1. Adding(Sums(f), f, m) /\ Adding(Sums(g), g, m) /\ Adding(Sums(h), h, m)
  BY SumsAdd
<1> QED
  BY <1>1, AddingMeans

(* The sum of what is 0 but for one place is what that place has.             *)
LEMMA SumsSpot ==
  ASSUME NEW m \in Nat, NEW f \in [0 .. m - 1 -> Nat], NEW a \in 0 .. m - 1,
         \A j \in 0 .. m - 1 : j # a => f[j] = 0
  PROVE  Sums(f)[m] = f[a]
<1> DEFINE T == Sums(f)
           S == {k \in 0 .. m : T[k] = IF k <= a THEN 0 ELSE f[a]}
<1>1. T \in [0 .. m -> Nat] /\ T[0] = 0 /\ \A k \in 1 .. m : T[k] = T[k - 1] + f[k - 1]
  BY SumsAdd DEF Adding
<1> HIDE DEF T
<1>2. 0 \in S
  BY <1>1
<1>3. ASSUME NEW k \in 1 .. m, k - 1 \in S PROVE k \in S
  <2>1. k - 1 \in 0 .. m - 1 /\ k \in 0 .. m /\ f[k - 1] \in Nat /\ f[a] \in Nat
    OBVIOUS
  <2>2. k - 1 # a => f[k - 1] = 0
    BY <2>1
  <2> QED BY <1>1, <1>3, <2>1, <2>2
<1> HIDE DEF S
<1>4. \A k \in 0 .. m : k \in S
  BY <1>2, <1>3, Induct
<1> QED
  BY <1>4 DEF S, T
-----------------------------------------------------------------------------
(* A way to take A nodes of one kind and B of another, each kind in order:   *)
(* X[k] is how many of the first kind are among the first k.                 *)
Shuffle(X, A, B) ==
  /\ X[0] = 0 /\ X[A + B] = A
  /\ \A k \in 0 .. A + B : X[k] \in 0 .. A /\ k - X[k] \in 0 .. B
  /\ \A k \in 0 .. A + B - 1 : X[k + 1] = X[k] \/ X[k + 1] = X[k] + 1

(* Later in a shuffle, no fewer of either kind have been taken.               *)
LEMMA ShuffleOrder ==
  ASSUME NEW A \in Nat, NEW B \in Nat, NEW X, Shuffle(X, A, B),
         NEW k \in 0 .. A + B, NEW j \in 0 .. k
  PROVE  X[j] <= X[k] /\ j - X[j] <= k - X[k] /\ X[j] \in Nat /\ X[k] \in Nat
<1> DEFINE S == {l \in 0 .. k : j <= l => X[j] <= X[l] /\ j - X[j] <= l - X[l]}
<1>1. \A l \in 0 .. k : X[l] \in 0 .. A /\ l \in 0 .. A + B
  BY DEF Shuffle
<1>2. 0 \in S
  BY <1>1
<1>3. ASSUME NEW l \in 1 .. k, l - 1 \in S PROVE l \in S
  <2>1. l - 1 \in 0 .. A + B - 1 /\ l \in 0 .. k /\ l - 1 \in 0 .. k /\ (l - 1) + 1 = l
    OBVIOUS
  <2>2. X[l] = X[l - 1] \/ X[l] = X[l - 1] + 1
    BY <2>1 DEF Shuffle
  <2>3. X[l] \in Nat /\ X[l - 1] \in Nat /\ X[j] \in Nat
    BY <1>1, <2>1
  <2>4. CASE j = l
    BY <2>1, <2>3, <2>4
  <2>5. CASE j # l
    BY <1>3, <2>1, <2>2, <2>3, <2>5
  <2> QED BY <2>4, <2>5
<1> HIDE DEF S
<1>4. k \in Nat /\ k \in 0 .. k
  OBVIOUS
<1>5. \A l \in 0 .. k : l \in S
  BY <1>2, <1>3, <1>4, Induct
<1> QED
  BY <1>1, <1>4, <1>5 DEF S

(* Where the x-th of the first kind is taken, and the y-th of the second.    *)
LEMMA FirstTaken ==
  ASSUME NEW A \in Nat, NEW B \in Nat, NEW X, Shuffle(X, A, B),
         NEW k \in 0 .. A + B, NEW x \in Nat, x < X[k]
  PROVE  \E j \in 0 .. k - 1 : X[j] = x /\ X[j + 1] = x + 1
<1> DEFINE S == {l \in 0 .. k : x < X[l]}
<1>1. S \in SUBSET Nat /\ S # {}
  OBVIOUS
<1> HIDE DEF S
<1>2. PICK l \in S : \A m \in S : l <= m
  BY <1>1, Least
<1>3. l \in 0 .. k /\ x < X[l]
  BY <1>2 DEF S
<1>4. X[0] = 0 /\ X[l] \in Nat
  BY <1>3 DEF Shuffle
<1>5. l # 0
  BY <1>3, <1>4
<1>6. l - 1 \in 0 .. k /\ l - 1 \in 0 .. k - 1 /\ l - 1 \in 0 .. A + B - 1 /\ l - 1 \in 0 .. A + B /\ (l - 1) + 1 = l /\ ~(l <= l - 1)
  BY <1>3, <1>5
<1>7. ~(x < X[l - 1])
  BY <1>2, <1>6 DEF S
<1>8. X[l] = X[l - 1] \/ X[l] = X[l - 1] + 1
  BY <1>6 DEF Shuffle
<1>9. X[l - 1] \in Nat
  BY <1>6 DEF Shuffle
<1>10. X[l - 1] = x /\ X[l] = x + 1
  BY <1>3, <1>4, <1>7, <1>8, <1>9
<1> QED
  BY <1>6, <1>10

(* Each node of the second kind that has been taken was taken at some step.   *)
LEMMA SecondTaken ==
  ASSUME NEW A \in Nat, NEW B \in Nat, NEW X, Shuffle(X, A, B),
         NEW k \in 0 .. A + B, NEW y \in Nat, y < k - X[k]
  PROVE  \E j \in 0 .. k - 1 : j - X[j] = y /\ X[j + 1] = X[j]
<1> DEFINE S == {l \in 0 .. k : y < l - X[l]}
<1>1. S \in SUBSET Nat /\ S # {}
  OBVIOUS
<1> HIDE DEF S
<1>2. PICK l \in S : \A m \in S : l <= m
  BY <1>1, Least
<1>3. l \in 0 .. k /\ y < l - X[l]
  BY <1>2 DEF S
<1>4. X[0] = 0 /\ X[l] \in Nat
  BY <1>3 DEF Shuffle
<1>5. l # 0
  BY <1>3, <1>4
<1>6. l - 1 \in 0 .. k /\ l - 1 \in 0 .. k - 1 /\ l - 1 \in 0 .. A + B - 1 /\ l - 1 \in 0 .. A + B /\ (l - 1) + 1 = l /\ ~(l <= l - 1)
  BY <1>3, <1>5
<1>7. ~(y < (l - 1) - X[l - 1])
  BY <1>2, <1>6 DEF S
<1>8. X[l] = X[l - 1] \/ X[l] = X[l - 1] + 1
  BY <1>6 DEF Shuffle
<1>9. X[l - 1] \in Nat
  BY <1>6 DEF Shuffle
<1>10. (l - 1) - X[l - 1] = y /\ X[l] = X[l - 1]
  BY <1>3, <1>4, <1>6, <1>7, <1>8, <1>9
<1> QED
  BY <1>6, <1>10
-----------------------------------------------------------------------------
(* The walk of a merge: a node of the first kind is taken if it leads the     *)
(* one of the second, which L says.                                          *)
Takes(x, y, A, B, L) == x < A /\ (y >= B \/ <<x, y>> \in L)
Goes(X, A, B, L) ==
  /\ X[0] = 0
  /\ \A k \in 0 .. A + B - 1 : X[k + 1] = IF Takes(X[k], k - X[k], A, B, L) THEN X[k] + 1 ELSE X[k]

(* The walk of a merge is a shuffle.                                          *)
LEMMA GoesShuffle ==
  ASSUME NEW A \in Nat, NEW B \in Nat, NEW L, NEW X, Goes(X, A, B, L)
  PROVE  Shuffle(X, A, B)
<1> DEFINE S == {k \in 0 .. A + B : X[k] \in 0 .. A /\ k - X[k] \in 0 .. B}
<1>1. X[0] = 0
  BY DEF Goes
<1>2. 0 \in S
  BY <1>1
<1>3. ASSUME NEW k \in 0 .. A + B - 1 PROVE X[k + 1] = IF Takes(X[k], k - X[k], A, B, L) THEN X[k] + 1 ELSE X[k]
  BY DEF Goes
<1>4. ASSUME NEW k \in 1 .. A + B, k - 1 \in S PROVE k \in S
  <2>1. k - 1 \in 0 .. A + B - 1 /\ (k - 1) + 1 = k /\ k \in 0 .. A + B
    OBVIOUS
  <2>2. X[k] = IF Takes(X[k - 1], (k - 1) - X[k - 1], A, B, L) THEN X[k - 1] + 1 ELSE X[k - 1]
    BY <1>3, <2>1
  <2>3. X[k - 1] \in 0 .. A /\ (k - 1) - X[k - 1] \in 0 .. B
    BY <1>4
  <2>4. CASE Takes(X[k - 1], (k - 1) - X[k - 1], A, B, L)
    <3>1. X[k - 1] < A
      BY <2>4 DEF Takes
    <3>2. X[k] = X[k - 1] + 1
      BY <2>2, <2>4
    <3>3. X[k] \in 0 .. A /\ k - X[k] = (k - 1) - X[k - 1]
      BY <2>1, <2>3, <3>1, <3>2
    <3> QED BY <2>1, <2>3, <3>3
  <2>5. CASE ~Takes(X[k - 1], (k - 1) - X[k - 1], A, B, L)
    <3>1. X[k - 1] >= A \/ (k - 1) - X[k - 1] < B
      BY <2>3, <2>5 DEF Takes
    <3>2. (k - 1) - X[k - 1] < B
      BY <2>1, <2>3, <3>1
    <3>3. X[k] = X[k - 1]
      BY <2>2, <2>5, Zenon
    <3>4. X[k] \in 0 .. A /\ k - X[k] = ((k - 1) - X[k - 1]) + 1
      BY <2>1, <2>3, <3>3
    <3> QED BY <2>1, <2>3, <3>2, <3>4
  <2> QED BY <2>4, <2>5
<1> HIDE DEF S
<1>5. A + B \in Nat
  OBVIOUS
<1>6. \A k \in 0 .. A + B : k \in S
  BY <1>2, <1>4, <1>5, Induct
<1>7. \A k \in 0 .. A + B : X[k] \in 0 .. A /\ k - X[k] \in 0 .. B
  BY <1>6 DEF S
<1>8. X[A + B] = A
  <2>1. A + B \in 0 .. A + B
    OBVIOUS
  <2>2. X[A + B] \in 0 .. A /\ (A + B) - X[A + B] \in 0 .. B
    BY <1>7, <2>1, Zenon
  <2> QED BY <2>2
<1>9. \A k \in 0 .. A + B - 1 : X[k + 1] = X[k] \/ X[k + 1] = X[k] + 1
  BY <1>3
<1> QED
  BY <1>1, <1>7, <1>8, <1>9, Zenon DEF Shuffle

(* There is such a walk.                                                    *)
Counts(X, m, c, M) ==
  /\ X = [k \in 0 .. m |-> X[k]] /\ X[0] = c
  /\ \A k \in 1 .. m : X[k - 1] \in Nat /\ X[k] = IF <<k, X[k - 1]>> \in M THEN X[k - 1] + 1 ELSE X[k - 1]

(* A walk whose steps are chosen by where it stands exists.                   *)
LEMMA Counter ==
  ASSUME NEW m \in Nat, NEW c \in Nat, NEW M
  PROVE  \E X : Counts(X, m, c, M)
<1> DEFINE S == {j \in 0 .. m : \E X : Counts(X, j, c, M) /\ X[j] \in Nat}
<1>1. 0 \in S
  <2> DEFINE X == [k \in 0 .. 0 |-> c]
  <2>1. Counts(X, 0, c, M) /\ X[0] \in Nat
    BY DEF Counts
  <2> HIDE DEF X
  <2> QED BY <2>1
<1>2. ASSUME NEW j \in 1 .. m, j - 1 \in S PROVE j \in S
  <2>1. PICK X : Counts(X, j - 1, c, M) /\ X[j - 1] \in Nat
    BY <1>2
  <2> DEFINE y == IF <<j, X[j - 1]>> \in M THEN X[j - 1] + 1 ELSE X[j - 1]
             Y == [k \in 0 .. j |-> IF k = j THEN y ELSE X[k]]
  <2>2. y \in Nat
    BY <2>1
  <2>3. Y[j] = y /\ Y[0] = c /\ \A k \in 0 .. j - 1 : Y[k] = X[k]
    <3>1. X[0] = c
      BY <2>1 DEF Counts
    <3> HIDE DEF y
    <3> QED BY <3>1
  <2>4. Y = [k \in 0 .. j |-> Y[k]]
    OBVIOUS
  <2>5. ASSUME NEW k \in 1 .. j
        PROVE  Y[k - 1] \in Nat /\ Y[k] = IF <<k, Y[k - 1]>> \in M THEN Y[k - 1] + 1 ELSE Y[k - 1]
    <3> HIDE DEF Y
    <3>1. CASE k = j
      BY <2>1, <2>3, <3>1
    <3>2. CASE k # j
      <4>1. k \in 1 .. j - 1 /\ k - 1 \in 0 .. j - 1 /\ k \in 0 .. j - 1
        BY <3>2
      <4>2. X[k - 1] \in Nat /\ X[k] = IF <<k, X[k - 1]>> \in M THEN X[k - 1] + 1 ELSE X[k - 1]
        BY <2>1, <4>1 DEF Counts
      <4> QED BY <2>3, <4>1, <4>2
    <3> QED BY <3>1, <3>2
  <2> HIDE DEF y, Y
  <2>6. Counts(Y, j, c, M) /\ Y[j] \in Nat
    BY <2>2, <2>3, <2>4, <2>5 DEF Counts
  <2> QED BY <2>6
<1> HIDE DEF S
<1>3. \A j \in 0 .. m : j \in S
  BY <1>1, <1>2, Induct
<1>4. m \in 0 .. m
  OBVIOUS
<1> QED
  BY <1>3, <1>4 DEF S

(* What a node of the second kind is led by, leads later ones of the second,  *)
(* and so do earlier ones of the first: both are sorted.                     *)
Sorts(L, A, B) ==
  \A x \in 0 .. A - 1, y \in 0 .. B - 1 : <<x, y>> \in L =>
    \A w \in 0 .. x, z \in y .. B - 1 : <<w, z>> \in L

Passed(k, x, A, B, L) == x <= A /\ x <= k /\ (x = 0 \/ k - x >= B \/ <<x - 1, k - x>> \in L)

(* On the k-th diagonal, what the walk has passed is flagged, the rest not.  *)
LEMMA FlagBefore ==
  ASSUME NEW A \in Nat, NEW B \in Nat, NEW L, NEW X, Goes(X, A, B, L), Sorts(L, A, B),
         NEW k \in 0 .. A + B, NEW x \in 0 .. X[k]
  PROVE  Passed(k, x, A, B, L)
<1>1. Shuffle(X, A, B)
  BY GoesShuffle
<1>2. X[k] \in 0 .. A /\ k - X[k] \in 0 .. B
  BY <1>1 DEF Shuffle
<1>3. x \in Nat /\ x <= A /\ x <= k
  BY <1>2
<1>4. SUFFICES ASSUME x # 0, k - x < B PROVE <<x - 1, k - x>> \in L
  BY <1>3 DEF Passed
<1>5. x - 1 \in Nat /\ x - 1 < X[k]
  BY <1>2, <1>3, <1>4
<1>6. PICK j \in 0 .. k - 1 : X[j] = x - 1 /\ X[j + 1] = (x - 1) + 1
  BY <1>1, <1>5, FirstTaken
<1>7. j \in 0 .. A + B - 1 /\ j - X[j] \in Nat /\ j - X[j] <= k - x
  <2>1. j \in 0 .. A + B - 1 /\ j \in 0 .. A + B
    OBVIOUS
  <2>2. j - X[j] \in 0 .. B
    BY <1>1, <2>1 DEF Shuffle
  <2> QED BY <1>3, <1>6, <2>1, <2>2
<1>8. Takes(X[j], j - X[j], A, B, L)
  <2>1. X[j + 1] # X[j]
    BY <1>3, <1>6
  <2> QED BY <1>7, <2>1 DEF Goes
<1>9. <<x - 1, j - X[j]>> \in L /\ j - X[j] \in 0 .. B - 1
  BY <1>3, <1>4, <1>6, <1>7, <1>8 DEF Takes
<1>10. x - 1 \in 0 .. A - 1 /\ x - 1 \in 0 .. x - 1 /\ k - x \in (j - X[j]) .. B - 1
  BY <1>3, <1>4, <1>7
<1> QED
  BY <1>9, <1>10 DEF Sorts

(* On the k-th diagonal, what the walk has yet to take is not flagged.        *)
LEMMA FlagAfter ==
  ASSUME NEW A \in Nat, NEW B \in Nat, NEW L, NEW X, Goes(X, A, B, L), Sorts(L, A, B),
         NEW k \in 0 .. A + B, NEW x \in Nat, X[k] < x
  PROVE  ~Passed(k, x, A, B, L)
<1> SUFFICES ASSUME Passed(k, x, A, B, L) PROVE FALSE
  OBVIOUS
<1>1. Shuffle(X, A, B)
  BY GoesShuffle
<1>2. X[k] \in 0 .. A /\ k - X[k] \in 0 .. B
  BY <1>1 DEF Shuffle
<1>3. x <= A /\ x <= k
  BY DEF Passed
<1>4. k - x \in Nat /\ k - x < k - X[k] /\ k - x < B /\ x # 0
  BY <1>2, <1>3
<1>5. PICK j \in 0 .. k - 1 : j - X[j] = k - x /\ X[j + 1] = X[j]
  BY <1>1, <1>4, SecondTaken
<1>6. j \in 0 .. A + B - 1 /\ j \in 0 .. k
  OBVIOUS
<1>7. X[j] <= X[k] /\ X[j] \in Nat
  BY <1>1, <1>6, ShuffleOrder
<1>8. ~Takes(X[j], j - X[j], A, B, L)
  <2>1. X[j] # X[j] + 1
    BY <1>7
  <2> QED BY <1>5, <1>6, <2>1 DEF Goes
<1>9. <<X[j], k - x>> \notin L
  BY <1>2, <1>3, <1>5, <1>7, <1>8 DEF Takes
<1>10. X[j] \in 0 .. x - 1 /\ x - 1 \in 0 .. A - 1 /\ k - x \in 0 .. B - 1 /\ k - x \in k - x .. B - 1
  BY <1>2, <1>3, <1>4, <1>7
<1>11. <<x - 1, k - x>> \notin L
  BY <1>9, <1>10 DEF Sorts
<1> QED
  BY <1>3, <1>4, <1>11 DEF Passed

(* A walk from where another one is to where it will be goes the same way.   *)
GoesFrom(Z, x0, y0, x1, y1, L) ==
  /\ Z[0] = x0
  /\ \A k \in 0 .. (x1 - x0) + (y1 - y0) - 1 :
       Z[k + 1] = IF Takes(Z[k], y0 + k - (Z[k] - x0), x1, y1, L) THEN Z[k] + 1 ELSE Z[k]

(* So the two walks have the same places.                                     *)
LEMMA SameWay ==
  ASSUME NEW A \in Nat, NEW B \in Nat, NEW L, NEW X, Goes(X, A, B, L),
         NEW e \in 0 .. A + B, NEW d \in 0 .. e,
         NEW Z, GoesFrom(Z, X[d], d - X[d], X[e], e - X[e], L)
  PROVE  \A k \in 0 .. e - d : Z[k] = X[d + k]
<1>1. Shuffle(X, A, B)
  BY GoesShuffle
<1>2. X[d] \in Nat /\ X[e] \in Nat /\ X[e] <= A /\ e - X[e] <= B /\ d \in Nat /\ e \in Nat /\ d <= e
  <2>1. d \in 0 .. A + B
    OBVIOUS
  <2> QED BY <1>1, <2>1 DEF Shuffle
<1>3. (X[e] - X[d]) + ((e - X[e]) - (d - X[d])) = e - d
  BY <1>2
<1> DEFINE S == {k \in 0 .. e - d : Z[k] = X[d + k]}
<1>4. 0 \in S
  BY <1>2 DEF GoesFrom
<1>5. ASSUME NEW k \in 1 .. e - d, k - 1 \in S PROVE k \in S
  <2> DEFINE j == d + (k - 1)
             x == X[j]
             y == j - x
  <2>1. k - 1 \in 0 .. (e - d) - 1 /\ (k - 1) + 1 = k
    OBVIOUS
  <2>2. j \in Nat /\ j \in 0 .. A + B - 1 /\ j \in 0 .. e /\ j + 1 \in 0 .. e /\ j + 1 = d + k /\ j \in 0 .. A + B
    BY <1>2
  <2>3. Z[k - 1] = x
    BY <1>5
  <2> HIDE DEF j
  <2>4. x \in Nat /\ y \in Nat /\ x <= A /\ y = j - x
    BY <1>1, <2>2 DEF Shuffle
  <2>5. X[j + 1] \in Nat /\ X[j + 1] <= X[e] /\ (j + 1) - X[j + 1] <= e - X[e]
    BY <1>1, <2>2, ShuffleOrder
  <2>6. X[j + 1] = IF Takes(x, y, A, B, L) THEN x + 1 ELSE x
    BY <2>2 DEF Goes
  <2>7. (d - X[d]) + (k - 1) - (x - X[d]) = y
    BY <1>2, <2>1, <2>2, <2>4 DEF j
  <2>8. Z[k] = IF Takes(x, y, X[e], e - X[e], L) THEN x + 1 ELSE x
    <3>1. Z[(k - 1) + 1] = IF Takes(Z[k - 1], (d - X[d]) + (k - 1) - (Z[k - 1] - X[d]), X[e], e - X[e], L)
                             THEN Z[k - 1] + 1 ELSE Z[k - 1]
      <4> DEFINE i == k - 1
      <4>1. i \in 0 .. (X[e] - X[d]) + ((e - X[e]) - (d - X[d])) - 1
        BY <1>2, <1>3, <2>1
      <4> HIDE DEF i
      <4>2. Z[i + 1] = IF Takes(Z[i], (d - X[d]) + i - (Z[i] - X[d]), X[e], e - X[e], L) THEN Z[i] + 1 ELSE Z[i]
        BY <4>1, Zenon DEF GoesFrom
      <4> QED BY <4>2 DEF i
    <3> QED BY <2>1, <2>3, <2>7, <3>1
  <2> HIDE DEF x, y
  <2>9. ASSUME Takes(x, y, A, B, L) PROVE Takes(x, y, X[e], e - X[e], L)
    <3>1. X[j + 1] = x + 1
      BY <2>6, <2>9
    <3>2. x < X[e]
      BY <1>2, <2>4, <2>5, <3>1
    <3>3. y >= B => y >= e - X[e]
      BY <1>2, <2>4
    <3> QED BY <2>9, <3>2, <3>3 DEF Takes
  <2>10. ASSUME ~Takes(x, y, A, B, L) PROVE ~Takes(x, y, X[e], e - X[e], L)
    <3>1. X[j + 1] = x
      BY <2>6, <2>10
    <3>2. (j + 1) - x <= e - X[e]
      BY <2>5, <3>1
    <3>3. (j + 1) - x = y + 1
      <4>1. j \in Nat /\ x \in Nat /\ y = j - x
        BY <2>2, <2>4
      <4> QED BY <4>1
    <3>4. ~(y >= e - X[e])
      BY <1>2, <2>4, <3>2, <3>3
    <3>5. x < X[e] => x < A
      BY <1>2, <2>4
    <3> QED BY <2>10, <3>4, <3>5 DEF Takes
  <2>11. Z[k] = X[j + 1]
    BY <2>6, <2>8, <2>9, <2>10
  <2> QED BY <2>2, <2>11
<1> HIDE DEF S
<1>6. e - d \in Nat
  BY <1>2
<1>7. \A k \in 0 .. e - d : k \in S
  BY <1>4, <1>5, <1>6, Induct
<1> QED
  BY <1>7 DEF S

(* What a shuffle takes adds up to what there is of both kinds.               *)
Shuffled(v, X, h, c, f, r, m) ==
  \A k \in 0 .. m - 1 : /\ X[k + 1] = X[k] + 1 => v[k] = h[c + X[k]]
                        /\ X[k + 1] = X[k] => v[k] = f[r + (k - X[k])]

(* The shuffled values weigh what the two runs they come from weigh.          *)
LEMMA SumsShuffled ==
  ASSUME NEW A \in Nat, NEW B \in Nat, NEW X, Shuffle(X, A, B),
         NEW H, NEW h, NEW F, NEW f, NEW V, NEW v, NEW hm \in Nat, NEW fm \in Nat,
         Adding(H, h, hm), Adding(F, f, fm), Adding(V, v, A + B),
         NEW c \in Nat, c + A <= hm, NEW r \in Nat, r + B <= fm,
         Shuffled(v, X, h, c, f, r, A + B)
  PROVE  V[A + B] = (H[c + A] - H[c]) + (F[r + B] - F[r])
<1> DEFINE S == {k \in 0 .. A + B : V[k] = (H[c + X[k]] - H[c]) + (F[r + (k - X[k])] - F[r])}
<1>1. ASSUME NEW G, NEW g, NEW m \in Nat, Adding(G, g, m), NEW k \in 0 .. m - 1
      PROVE  G[k] \in Nat /\ g[k] \in Nat /\ G[k + 1] = G[k] + g[k] /\ G[k + 1] \in Nat
  <2>1. k + 1 \in 1 .. m /\ (k + 1) - 1 = k /\ k \in 0 .. m /\ k + 1 \in 0 .. m
    OBVIOUS
  <2>2. g[(k + 1) - 1] \in Nat /\ G[k + 1] = G[(k + 1) - 1] + g[(k + 1) - 1]
    BY <1>1, <2>1, Zenon DEF Adding
  <2> QED BY <1>1, <2>1, <2>2 DEF Adding
<1>2. H[c] \in Nat /\ F[r] \in Nat
  BY DEF Adding
<1>3. 0 \in S
  <2>1. X[0] = 0
    BY DEF Shuffle
  <2>2. V[0] = 0
    BY DEF Adding
  <2> QED BY <1>2, <2>1, <2>2
<1>4. ASSUME NEW k \in 1 .. A + B, k - 1 \in S PROVE k \in S
  <2> DEFINE j == k - 1
             x == X[j]
             y == j - x
  <2>1. j \in 0 .. A + B - 1 /\ j + 1 = k /\ j \in 0 .. A + B /\ k \in 0 .. A + B /\ j \in Nat
    OBVIOUS
  <2>2. V[j] = (H[c + x] - H[c]) + (F[r + y] - F[r])
    BY <1>4
  <2> HIDE DEF j
  <2>3. x \in Nat /\ y \in Nat /\ x <= A /\ y <= B /\ x + y = j
    BY <2>1 DEF Shuffle
  <2>4. X[k] \in 0 .. A /\ k - X[k] \in 0 .. B
    BY <2>1 DEF Shuffle
  <2>5. V[j] \in Nat /\ V[k] = V[j] + v[j]
    BY <1>1, <2>1, SMTT(30)
  <2>6. H[c + x] \in Nat /\ F[r + y] \in Nat
    <3>1. c + x \in 0 .. hm /\ r + y \in 0 .. fm
      BY <2>3
    <3> QED BY <3>1 DEF Adding
  <2>7. CASE X[j + 1] = X[j] + 1
    <3>1. v[j] = h[c + x]
      BY <2>1, <2>7 DEF Shuffled
    <3>2. X[k] = x + 1 /\ x + 1 <= A /\ k - X[k] = y /\ c + X[k] = (c + x) + 1 /\ c + x \in 0 .. hm - 1
      BY <2>1, <2>3, <2>4, <2>7
    <3>3. H[(c + x) + 1] = H[c + x] + h[c + x] /\ h[c + x] \in Nat
      BY <1>1, <3>2
    <3>4. V[k] = (H[c + X[k]] - H[c]) + (F[r + (k - X[k])] - F[r])
      BY <1>2, <2>2, <2>5, <2>6, <3>1, <3>2, <3>3
    <3> QED BY <2>1, <3>4
  <2>8. CASE X[j + 1] = X[j]
    <3>1. v[j] = f[r + y]
      BY <2>1, <2>8 DEF Shuffled
    <3>2. X[k] = x /\ k - X[k] = y + 1 /\ y + 1 <= B /\ r + (k - X[k]) = (r + y) + 1 /\ r + y \in 0 .. fm - 1
      BY <2>1, <2>3, <2>4, <2>8
    <3>3. F[(r + y) + 1] = F[r + y] + f[r + y] /\ f[r + y] \in Nat
      BY <1>1, <3>2
    <3>4. V[k] = (H[c + X[k]] - H[c]) + (F[r + (k - X[k])] - F[r])
      BY <1>2, <2>2, <2>5, <2>6, <3>1, <3>2, <3>3
    <3> QED BY <2>1, <3>4
  <2>9. X[j + 1] = X[j] \/ X[j + 1] = X[j] + 1
    BY <2>1 DEF Shuffle
  <2> QED BY <2>7, <2>8, <2>9
<1> HIDE DEF S
<1>5. A + B \in Nat /\ A + B \in 0 .. A + B
  OBVIOUS
<1>6. \A k \in 0 .. A + B : k \in S
  BY <1>3, <1>4, <1>5, Induct
<1>7. V[A + B] = (H[c + X[A + B]] - H[c]) + (F[r + ((A + B) - X[A + B])] - F[r])
  BY <1>5, <1>6 DEF S
<1>8. X[A + B] = A /\ (A + B) - A = B
  BY DEF Shuffle
<1> QED
  BY <1>7, <1>8

-----------------------------------------------------------------------------
(* The inductive invariant, and the steps that disturb little of it.          *)

(* The ring is sorted whenever several blocks merge.                         *)
Joins == NBlocks = 1 \/ RingSorted

(* A round as thread 0 sees it: between two rounds; the two least nodes have  *)
(* been combined; a merge's nodes have been taken; their parents are in the  *)
(* ring.                                                                     *)
AtRest   == \/ phase = "combine" /\ at[0] # "wait"
            \/ phase = "size" /\ at[0] = "wait"
Combined == \/ phase = "combine" /\ at[0] = "wait"
            \/ phase = "select"
            \/ phase = "iterate" /\ at[0] # "wait"
Gathered == \/ phase = "iterate" /\ at[0] = "wait"
            \/ phase \in {"divide", "merge", "meld"}
            \/ phase = "rear" /\ at[0] # "wait"
Advanced == \/ phase = "rear" /\ at[0] = "wait"
            \/ phase = "leaders"
            \/ phase = "size" /\ at[0] # "wait"

Places ==
  /\ histogram \in Histograms
  /\ phase \in {"combine", "select", "iterate", "divide", "merge", "meld", "rear", "leaders", "size"}
  /\ at \in [Block -> {"run", "half", "wait", "exit"}]
  /\ \A b \in Block : /\ at[b] = "half" => phase \in {"combine", "select"}
                      /\ at[b] = "exit" => phase = "combine"

Shapes ==
  /\ lNodesLeader \in [0 .. size -> Int] /\ CL \in [0 .. size -> Nat]
  /\ iNodesFreq \in [0 .. size - 1 -> Nat] /\ iNodesLeader \in [0 .. size - 1 -> Int]
  /\ copy = [k \in 0 .. size - 1 |-> copy[k]] /\ temp = [k \in 0 .. size - 1 |-> temp[k]]
  /\ path = [b \in Block |-> path[b]]
  /\ minFreq \in Nat

(* How many nodes there are, leaves and internal ones.  A tree with size     *)
(* leaves has fewer internal nodes, so the ring never wraps.                 *)
InnerNum == mergeRear - mergeFront
AllNum   == curLeavesNum + InnerNum
RestRing ==
  /\ lNodesCur + iNodesFront = 2 * iNodesRear
  /\ iNodesSize = iNodesRear - iNodesFront
  /\ iNodesFront < iNodesRear \/ (iNodesFront = 0 /\ iNodesRear = 0)
CombinedRing ==
  /\ lNodesCur + iNodesFront = 2 * iNodesRear + 2
  /\ iNodesSize = iNodesRear - iNodesFront
  /\ iNodesFront <= iNodesRear
  /\ lNodesCur + curLeavesNum <= size
GatheredRing ==
  /\ mergeFront <= mergeRear /\ mergeRear = iNodesFront /\ iNodesFront < iNodesRear
  /\ curLeavesNum <= lNodesCur
  /\ lNodesCur + iNodesFront = 2 * iNodesRear + AllNum
  /\ AllNum % 2 = 0
AdvancedRing ==
  /\ lNodesCur + iNodesFront = 2 * iNodesRear
  /\ iNodesFront < iNodesRear
Ring ==
  /\ /\ lNodesCur \in 0 .. size /\ curLeavesNum \in 0 .. size
     /\ iNodesFront \in 0 .. size - 1 /\ iNodesRear \in 0 .. size - 1 /\ iNodesSize \in 0 .. size - 1
     /\ mergeFront \in 0 .. size - 1 /\ mergeRear \in 0 .. size - 1
  /\ AtRest => RestRing
  /\ phase = "combine" /\ at[0] = "half" => Working
  /\ Combined => CombinedRing
  /\ Gathered => GatheredRing
  /\ Advanced => AdvancedRing

(* The leaves that are no greater than minFreq are copied.                   *)
LeafNode(h, i) == [freq |-> h[i], index |-> i, leaf |-> TRUE]
IsSmall(i)     == lNodesCur <= i /\ histogram[i] <= minFreq
Selected(b) ==
  \A i \in Threads(b) : i < size /\ IsSmall(i) =>
    /\ at[b] # "run" => i < lNodesCur + curLeavesNum
    /\ at[b] = "wait" => copy[i - lNodesCur] = LeafNode(histogram, i)
CopiedFrom(cp, h, A, c) == \A k \in 0 .. A - 1 : cp[k] = LeafNode(h, c + k)
Copying ==
  /\ phase = "combine" /\ (\E b \in Block : at[b] = "wait") => curLeavesNum = 0
  /\ phase = "select" =>
       /\ \A k \in 0 .. curLeavesNum - 1 : IsSmall(lNodesCur + k)
       /\ \A b \in Block : Selected(b)
  /\ phase = "iterate" /\ at[0] # "wait" => CopiedFrom(copy, histogram, curLeavesNum, lNodesCur)
  /\ Gathered => CopiedFrom(copy, histogram, curLeavesNum, lNodesCur - curLeavesNum)

(* What the nodes from a to b weigh, and that it is no more than the leaves   *)
(* under them, so that the sums do not overflow.                             *)
Weigh(f, a, b) == Sums(f)[b] - Sums(f)[a]
RestWeights     == Weigh(iNodesFreq, iNodesFront, iNodesRear) <= Sums(histogram)[lNodesCur]
CombinedWeights == Weigh(iNodesFreq, iNodesFront, iNodesRear + 1) <= Sums(histogram)[lNodesCur]
GatheredWeights ==
  Weigh(iNodesFreq, mergeFront, iNodesRear) <= Sums(histogram)[lNodesCur - curLeavesNum]
Weights ==
  /\ AtRest \/ Advanced => RestWeights
  /\ Combined => CombinedWeights
  /\ Gathered => GatheredWeights

(* The merge of A leaves from c on with B internal nodes from m on as one     *)
(* walk, of which each block has its share.                                  *)
InnerNode(fr, j) == [freq |-> fr[j], index |-> j, leaf |-> FALSE]
Led(cp, fr, A, B, m) ==
  {p \in (0 .. A - 1) \X (0 .. B - 1) : cp[p[1]].freq <= fr[m + p[2]]}
Whole(h, fr, c, m, X, k) == IF X[k + 1] = X[k] THEN InnerNode(fr, m + (k - X[k]))
                                               ELSE LeafNode(h, c + X[k])
Cut(t, b) == (b * t) \div NBlocks
Divided(p, X, t, b) == p[b] = [x |-> X[Cut(t, b)], y |-> Cut(t, b) - X[Cut(t, b)]]
MergedFrom(tm, h, fr, c, m, X, i, j) == \A k \in i .. j - 1 : tm[k] = Whole(h, fr, c, m, X, k)
IsWay(X) == Goes(X, curLeavesNum, InnerNum, Led(copy, iNodesFreq, curLeavesNum, InnerNum, mergeFront))
IsMerged(X, i, j) ==
  MergedFrom(temp, histogram, iNodesFreq, lNodesCur - curLeavesNum, mergeFront, X, i, j)
Shares ==
  /\ phase = "divide" /\ AllNum > 0 =>
       \A X : IsWay(X) => \A b \in Block : at[b] = "wait" => Divided(path, X, AllNum, b)
  /\ phase = "merge" /\ AllNum > 0 =>
       \A X : IsWay(X) => \A b \in Block :
         Divided(path, X, AllNum, b)
         /\ (at[b] = "wait" => IsMerged(X, Cut(AllNum, b), Cut(AllNum, b + 1)))
  /\ phase = "meld" \/ (phase = "rear" /\ at[0] # "wait") =>
       \A X : IsWay(X) => IsMerged(X, 0, AllNum)

(* What melding makes of two nodes side by side, under the node j.            *)
LeaderOf(nd, ll, il) == IF nd.leaf THEN ll[nd.index] ELSE il[nd.index]
DepthOf(nd, cl)      == IF nd.leaf THEN cl[nd.index] ELSE 0
Melded(nd, ll, cl, il, j) == LeaderOf(nd, ll, il) = j /\ (nd.leaf => DepthOf(nd, cl) = 1)
Joined(tm, ll, cl, fr, il, j, i) ==
  /\ fr[j] = tm[2 * i].freq + tm[2 * i + 1].freq
  /\ il[j] = -1
  /\ Melded(tm[2 * i], ll, cl, il, j) /\ Melded(tm[2 * i + 1], ll, cl, il, j)
Apart(nd, ll, cl, il) == LeaderOf(nd, ll, il) = -1 /\ DepthOf(nd, cl) = 0
IsJoined(i) == Joined(temp, lNodesLeader, CL, iNodesFreq, iNodesLeader, iNodesRear + i, i)
IsApart(i)  == /\ Apart(temp[2 * i], lNodesLeader, CL, iNodesLeader)
               /\ Apart(temp[2 * i + 1], lNodesLeader, CL, iNodesLeader)
Melding ==
  /\ phase = "meld" => \A b \in Block : \A i \in Threads(b) :
       i < AllNum \div 2 => IF at[b] = "wait" THEN IsJoined(i) ELSE IsApart(i)
  /\ phase = "rear" /\ at[0] # "wait" => \A i \in 0 .. AllNum \div 2 - 1 : IsJoined(i)

(* The forest, with the roots from f to r and the leaves before c: a leaf's   *)
(* leader is its root, or has it for its parent.                             *)
Top(ll, il, f, i)   == IF ll[i] < f THEN il[ll[i]] ELSE ll[i]
Depth(ll, cl, f, i) == IF ll[i] < f THEN cl[i] + 1 ELSE cl[i]
Placed(ll, cl, il, f, r, c) ==
  \A i \in 0 .. c - 1 : /\ ll[i] \in 0 .. r - 1 /\ Top(ll, il, f, i) \in f .. r - 1
                        /\ cl[i] \in Nat \ {0} /\ Depth(ll, cl, f, i) <= Top(ll, il, f, i) + 1
Ordered(ll, cl, il, f, c) ==
  \A j \in 0 .. c - 1 : \A i \in 0 .. j :
    \/ Depth(ll, cl, f, i) > Depth(ll, cl, f, j)
    \/ Depth(ll, cl, f, i) = Depth(ll, cl, f, j) /\ Top(ll, il, f, i) <= Top(ll, il, f, j)
Fresh(ll, cl, c, n) == \A i \in c .. n - 1 : ll[i] = -1 /\ cl[i] = 0
Rooted(il, f, r)    == \A j \in f .. r - 1 : il[j] = -1
Climbed(ll, c, f)   == \A i \in 0 .. c - 1 : ll[i] >= f
Raised(ll, il, f, c, t) == \A i \in 0 .. c - 1 : ll[i] < f => il[ll[i]] >= t
Units(ll, cl, il, f, c, n, r) ==
  [i \in 0 .. n - 1 |-> IF i < c /\ Top(ll, il, f, i) = r THEN pow2[n - Depth(ll, cl, f, i)] ELSE 0]
Filled(ll, cl, il, f, r, c, n) ==
  \A j \in f .. r - 1 : Sums(Units(ll, cl, il, f, c, n, j))[n] = pow2[n]
Grown(f, r, c) ==
  /\ Placed(lNodesLeader, CL, iNodesLeader, f, r, c)
  /\ Ordered(lNodesLeader, CL, iNodesLeader, f, c)
  /\ Filled(lNodesLeader, CL, iNodesLeader, f, r, c, size)
  /\ Fresh(lNodesLeader, CL, lNodesCur, size)
RestForest ==
  /\ Grown(iNodesFront, iNodesRear, lNodesCur)
  /\ Rooted(iNodesLeader, iNodesFront, iNodesRear)
  /\ Climbed(lNodesLeader, lNodesCur, iNodesFront)
CombinedForest ==
  /\ Grown(iNodesFront, iNodesRear + 1, lNodesCur)
  /\ Rooted(iNodesLeader, iNodesFront, iNodesRear + 1)
  /\ Raised(lNodesLeader, iNodesLeader, iNodesFront, lNodesCur, iNodesRear)
GatheredForest ==
  /\ Grown(mergeFront, iNodesRear, lNodesCur - curLeavesNum)
  /\ Rooted(iNodesLeader, iNodesFront, iNodesRear)
  /\ Raised(lNodesLeader, iNodesLeader, mergeFront, lNodesCur - curLeavesNum, iNodesFront)
UnmeldedForest ==
  /\ Fresh(lNodesLeader, CL, lNodesCur - curLeavesNum, size)
  /\ Rooted(iNodesLeader, mergeFront, iNodesFront)
AdvancedForest ==
  /\ Grown(iNodesFront, iNodesRear, lNodesCur)
  /\ Rooted(iNodesLeader, iNodesFront, iNodesRear)
Forest ==
  /\ AtRest => RestForest
  /\ Combined => CombinedForest
  /\ Gathered => GatheredForest
  /\ Gathered /\ phase \in {"iterate", "divide", "merge"} => UnmeldedForest
  /\ Advanced => AdvancedForest
  /\ phase = "leaders" => \A b \in Block : at[b] = "wait" =>
       \A i \in Threads(b) : i < lNodesCur => lNodesLeader[i] >= iNodesFront
  /\ phase = "size" => Climbed(lNodesLeader, lNodesCur, iNodesFront)

(* With a single leaf nothing is ever merged.                                *)
Single ==
  /\ lNodesCur \in 0 .. 2 /\ curLeavesNum = 0
  /\ iNodesFront = 0 /\ iNodesRear = 0 /\ iNodesSize = 0 /\ mergeFront = 0 /\ mergeRear = 0
  /\ lNodesCur = 0 => phase = "combine" /\ at[0] # "wait"
  /\ phase = "combine" /\ at[0] = "half" => lNodesCur = 0
(* Block 0 has left the loop because there is nothing left to do.             *)
Ended == at[0] = "exit" => ~Working
Several == Shapes /\ Ring /\ Copying /\ Weights /\ Shares /\ Melding /\ Forest
Inv == Places /\ Ended /\ (size = 1 => Single) /\ (size > 1 => Several)
-----------------------------------------------------------------------------
(* size and the leaves.                                                     *)
LEMMA Sizes ==
  ASSUME histogram \in Histograms
  PROVE  /\ size \in Nat \ {0} /\ size <= NBlocks * NThreads /\ Leaf = 0 .. size - 1
         /\ histogram \in [0 .. size - 1 -> Nat \ {0}]
         /\ \A i, j \in 0 .. size - 1 : i <= j => histogram[i] <= histogram[j]
         /\ Sums(histogram)[size] < UINT_MAX
<1> USE LaunchAssumption
<1>1. PICK n \in 1 .. NBlocks * NThreads : histogram \in [0 .. n - 1 -> Nat \ {0}]
  OBVIOUS
<1>2. n \in Nat \ {0} /\ n <= NBlocks * NThreads
  <2>1. \A x, y \in Nat : x * y \in Nat
    OBVIOUS
  <2> QED BY <1>1, <2>1
<1>3. size = n
  BY <1>1, <1>2, FS_Interval DEF size
<1>5. \A i, j \in 0 .. size - 1 : i <= j => histogram[i] <= histogram[j]
  BY <1>1, <1>2, <1>3, SMTT(30)
<1> QED BY <1>1, <1>2, <1>3, <1>5 DEF Leaf, size

(* At first every block is at its place.                                      *)
LEMMA PlacesInit == Init => Places
BY DEF Init, Places

(* Every step keeps to the places there are.                                *)
LEMMA PlacesStep == Places /\ [Next]_vars => Places'
<1> SUFFICES ASSUME Places, [Next]_vars PROVE Places'
  OBVIOUS
<1> USE DEF Places, Go, At
<1>1. CASE GridSync
  BY <1>1 DEF GridSync, Following, Round
<1>2. CASE UNCHANGED vars
  BY <1>2 DEF vars
<1>3. ASSUME NEW b \in Block, BlockStep(b) PROVE Places'
  <2>1. CASE TestLoop(b)
    BY <2>1 DEF TestLoop
  <2>2. CASE Combine(b)
    BY <2>2 DEF Combine
  <2>3. CASE SelectMax(b)
    BY <2>3 DEF SelectMax
  <2>4. CASE SelectCopy(b)
    BY <2>4 DEF SelectCopy
  <2>5. CASE Iterate(b)
    BY <2>5 DEF Iterate
  <2>6. CASE Divide(b)
    BY <2>6 DEF Divide
  <2>7. CASE MergeShare(b)
    BY <2>7 DEF MergeShare
  <2>8. CASE Meld(b)
    BY <2>8 DEF Meld
  <2>9. CASE Advance(b)
    BY <2>9 DEF Advance
  <2>10. CASE UpdateLeaders(b)
    BY <2>10 DEF UpdateLeaders
  <2>11. CASE Resize(b)
    BY <2>11 DEF Resize
  <2>12. CASE \E ph \in {"iterate", "rear", "size"} : Idle(b, ph)
    BY <2>12 DEF Idle
  <2> QED BY <1>3, <2>1, <2>2, <2>3, <2>4, <2>5, <2>6, <2>7, <2>8, <2>9, <2>10, <2>11, <2>12, Zenon DEF BlockStep
<1> QED BY <1>1, <1>2, <1>3 DEF Next


(* What concerns the data alone stays as it is when only the places change.   *)
Data == <<histogram, nodes, iters, curLeavesNum, merged>>

(* All parts of the invariant that say nothing of the places read these       *)
(* variables only.                                                            *)
LEMMA SameData ==
  ASSUME UNCHANGED Data
  PROVE  /\ size' = size /\ Leaf' = Leaf /\ Working' = Working
         /\ Shapes' = Shapes /\ RestRing' = RestRing /\ CombinedRing' = CombinedRing
         /\ GatheredRing' = GatheredRing /\ AdvancedRing' = AdvancedRing
         /\ InnerNum' = InnerNum /\ AllNum' = AllNum
         /\ RestWeights' = RestWeights /\ CombinedWeights' = CombinedWeights
         /\ GatheredWeights' = GatheredWeights
         /\ RestForest' = RestForest /\ CombinedForest' = CombinedForest
         /\ GatheredForest' = GatheredForest /\ UnmeldedForest' = UnmeldedForest
         /\ AdvancedForest' = AdvancedForest
<1>1. /\ histogram' = histogram /\ lNodesLeader' = lNodesLeader /\ CL' = CL
      /\ iNodesFreq' = iNodesFreq /\ iNodesLeader' = iNodesLeader /\ lNodesCur' = lNodesCur
      /\ iNodesFront' = iNodesFront /\ iNodesRear' = iNodesRear /\ iNodesSize' = iNodesSize
      /\ minFreq' = minFreq /\ curLeavesNum' = curLeavesNum
      /\ mergeFront' = mergeFront /\ mergeRear' = mergeRear /\ copy' = copy /\ temp' = temp
      /\ path' = path
  BY DEF Data, nodes, iters, merged
<1>2. size' = size /\ Leaf' = Leaf
  BY <1>1 DEF size, Leaf
<1>3. Working' = Working
  BY <1>1, <1>2 DEF Working
<1>4. InnerNum' = InnerNum /\ AllNum' = AllNum
  BY <1>1 DEF InnerNum, AllNum
<1>5. Shapes' = Shapes
  BY <1>1, <1>2 DEF Shapes
<1>6. /\ RestRing' = RestRing /\ CombinedRing' = CombinedRing
      /\ GatheredRing' = GatheredRing /\ AdvancedRing' = AdvancedRing
  BY <1>1, <1>2, <1>4 DEF RestRing, CombinedRing, GatheredRing, AdvancedRing
<1>7. RestWeights' = RestWeights /\ CombinedWeights' = CombinedWeights /\ GatheredWeights' = GatheredWeights
  BY <1>1 DEF RestWeights, CombinedWeights, GatheredWeights
<1>8. /\ RestForest' = RestForest /\ CombinedForest' = CombinedForest
      /\ GatheredForest' = GatheredForest /\ UnmeldedForest' = UnmeldedForest
      /\ AdvancedForest' = AdvancedForest
  BY <1>1, <1>2 DEF RestForest, CombinedForest, GatheredForest, UnmeldedForest, AdvancedForest, Grown
<1> QED BY <1>2, <1>3, <1>4, <1>5, <1>6, <1>7, <1>8

(* The threads of the grid are those of its blocks, each of one block.        *)
LEMMA Blocks ==
  /\ NBlocks \in Nat \ {0} /\ NThreads \in Nat \ {0} /\ 0 \in Block
  /\ \A b \in Block : b \in Nat /\ b < NBlocks /\ Threads(b) \subseteq Nat
  /\ \A b, c \in Block : \A i \in Threads(b) : i \in Threads(c) => b = c
  /\ \A i \in 0 .. NBlocks * NThreads - 1 : \E b \in Block : i \in Threads(b)
<1>1. NBlocks \in Nat \ {0} /\ NThreads \in Nat \ {0}
  BY LaunchAssumption
<1>2. 0 \in Block /\ \A b \in Block : b \in Nat /\ b < NBlocks /\ Threads(b) \subseteq Nat
  BY <1>1 DEF Block, Threads, Thread
<1>3. \A b, c \in Block : \A i \in Threads(b) : i \in Threads(c) => b = c
  BY DEF Threads
<1>4. ASSUME NEW i \in 0 .. NBlocks * NThreads - 1 PROVE \E b \in Block : i \in Threads(b)
  <2> DEFINE q == i \div NThreads
  <2>1. q \in Nat /\ i = q * NThreads + (i % NThreads) /\ i % NThreads \in 0 .. NThreads - 1 /\ i \in Nat
    BY <1>1, Division
  <2>2. NBlocks * NThreads \in Nat /\ i < NBlocks * NThreads
    BY <1>1, ProductOrder
  <2> HIDE DEF q
  <2>3. q < NBlocks
    <3>1. q * NThreads \in Nat
      BY <1>1, <2>1, ProductOrder
    <3>2. q * NThreads < NBlocks * NThreads
      BY <2>1, <2>2, <3>1
    <3> QED BY <1>1, <2>1, <3>2, ProductOrder
  <2>4. q \in Block
    BY <1>1, <2>1, <2>3 DEF Block
  <2>5. i \in Threads(q)
    BY DEF q, Threads, Thread
  <2> QED BY <2>4, <2>5
<1> QED BY <1>1, <1>2, <1>3, <1>4

(* Every leaf has a thread, which is in some block.                           *)
LEMMA LeafBlock ==
  ASSUME histogram \in Histograms, NEW i \in 0 .. size - 1
  PROVE  \E b \in Block : i \in Threads(b)
<1>1. size \in Nat /\ size <= NBlocks * NThreads
  BY Sizes
<1>2. NBlocks * NThreads \in Nat
  BY Blocks, ProductOrder
<1>3. i \in 0 .. NBlocks * NThreads - 1
  BY <1>1, <1>2
<1> QED BY <1>3, Blocks

(* Indices below size are not wrapped.                                        *)
LEMMA ModSmall ==
  ASSUME size \in Nat \ {0}, NEW a \in 0 .. size - 1
  PROVE  MOD(a) = a
<1>1. (0 * size + a) % size = a
  BY DivisionUnique
<1>2. 0 * size + a = a
  OBVIOUS
<1> QED BY <1>1, <1>2 DEF MOD

(* Before the first round nothing is in the ring.                            *)
LEMMA InvInit == Init => Inv
<1> SUFFICES ASSUME Init PROVE Inv
  OBVIOUS
<1>1. Places
  BY PlacesInit
<1>2. size \in Nat \ {0} /\ Leaf = 0 .. size - 1 /\ histogram \in [0 .. size - 1 -> Nat \ {0}]
  BY <1>1, Sizes DEF Places
<1>3. phase = "combine" /\ at[0] # "wait" /\ 0 \in Block /\ \A b \in Block : at[b] = "run"
  BY Blocks DEF Init
<1>4. AtRest /\ ~Combined /\ ~Gathered /\ ~Advanced
  BY <1>3 DEF AtRest, Combined, Gathered, Advanced
<1>5. Single
  BY <1>3 DEF Init, Single
<1>7. Ended
  BY <1>3 DEF Ended
<1>6. ASSUME size > 1 PROVE Several
  <2>1. Shapes
    <3>1. copy = [k \in 0 .. size - 1 |-> copy[k]] /\ temp = [k \in 0 .. size - 1 |-> temp[k]]
      BY <1>2 DEF Init
    <3> QED BY <1>2, <3>1 DEF Init, Shapes
  <2>2. Ring
    BY <1>2, <1>3, <1>4, <1>6 DEF Init, Ring, RestRing
  <2>3. Copying
    BY <1>3, <1>4 DEF Copying
  <2>4. Weights
    <3>1. Sums(histogram)[0] \in Nat
      BY <1>2, SumsMono
    <3>2. iNodesFreq \in [0 .. size - 1 -> Nat]
      BY <1>2 DEF Init
    <3>3. Sums(iNodesFreq)[0] \in Nat
      BY <1>2, <3>2, SumsMono, SMTT(30)
    <3> QED BY <1>4, <3>1, <3>3 DEF Init, Weights, RestWeights, Weigh
  <2>5. Shares /\ Melding
    BY <1>3 DEF Shares, Melding
  <2>6. Forest
    <3>1. RestForest
      BY <1>2 DEF Init, RestForest, Grown, Placed, Ordered, Filled, Fresh, Rooted, Climbed
    <3> QED BY <1>3, <1>4, <3>1 DEF Forest
  <2> QED BY <2>1, <2>2, <2>3, <2>4, <2>5, <2>6 DEF Several
<1> QED BY <1>1, <1>5, <1>6, <1>7 DEF Inv

(* The loop test and an idle block change no data.                           *)
LEMMA TestLoopStep ==
  ASSUME Places, Several, NEW b \in Block, TestLoop(b)
  PROVE  Several'
<1>1. /\ phase = "combine" /\ phase' = "combine" /\ at[b] = "run" /\ UNCHANGED Data
      /\ at' = [at EXCEPT ![b] = IF Working THEN "half" ELSE "exit"]
  BY DEF TestLoop, At, Go, Data
<1>2. \A c \in Block : at'[c] = "wait" <=> at[c] = "wait"
  BY <1>1 DEF Places
<1>3. at'[0] = "half" => at[0] = "half" \/ Working
  BY <1>1, Blocks DEF Places
<1>4. AtRest' = AtRest /\ Combined' = Combined /\ ~Gathered /\ ~Gathered' /\ ~Advanced /\ ~Advanced'
  BY <1>1, <1>2, Blocks DEF AtRest, Combined, Gathered, Advanced
<1> USE DEF Several
<1>5. Shapes'
  BY <1>1, SameData
<1>6. Ring'
  <2>1. size' = size /\ RestRing' = RestRing /\ CombinedRing' = CombinedRing /\ Working' = Working
    BY <1>1, SameData
  <2> QED BY <1>1, <1>3, <1>4, <2>1 DEF Ring, Data, iters, merged
<1>7. Copying'
  <2>1. curLeavesNum' = curLeavesNum
    BY <1>1 DEF Data
  <2> QED BY <1>1, <1>2, <1>4, <2>1 DEF Copying
<1>8. Weights'
  BY <1>1, <1>4, SameData DEF Weights
<1>9. Shares' /\ Melding'
  BY <1>1 DEF Shares, Melding
<1>10. Forest'
  BY <1>1, <1>4, SameData DEF Forest
<1> QED BY <1>5, <1>6, <1>7, <1>8, <1>9, <1>10

(* A block that has no part in the serial steps of thread 0 keeps the         *)
(* invariant.                                                                 *)
LEMMA IdleStep ==
  ASSUME Places, Several, NEW b \in Block, NEW ph \in {"iterate", "rear", "size"}, Idle(b, ph)
  PROVE  Several'
<1>1. /\ b # 0 /\ phase = ph /\ phase' = phase /\ at[b] = "run" /\ UNCHANGED Data
      /\ at' = [at EXCEPT ![b] = "wait"]
  BY DEF Idle, At, Go, Data
<1>2. at'[0] = at[0]
  BY <1>1, Blocks DEF Places
<1>4. AtRest' = AtRest /\ Combined' = Combined /\ Gathered' = Gathered /\ Advanced' = Advanced
  BY <1>1, <1>2 DEF AtRest, Combined, Gathered, Advanced
<1> USE DEF Several
<1>5. Shapes'
  BY <1>1, SameData
<1>6. Ring'
  <2>1. /\ size' = size /\ RestRing' = RestRing /\ CombinedRing' = CombinedRing
        /\ GatheredRing' = GatheredRing /\ AdvancedRing' = AdvancedRing
    BY <1>1, SameData
  <2> QED BY <1>1, <1>4, <2>1 DEF Ring, Data, iters, merged
<1>7. Copying'
  BY <1>1, <1>2, <1>4 DEF Copying, Data, iters, merged
<1>8. Weights'
  BY <1>1, <1>4, SameData DEF Weights
<1>9. Shares' /\ Melding'
  <2>1. AllNum' = AllNum /\ InnerNum' = InnerNum
    BY <1>1, SameData
  <2> QED BY <1>1, <1>2, <2>1 DEF Shares, Melding, IsWay, IsMerged, IsJoined, Data, nodes, iters, merged
<1>10. Forest'
  <2>1. phase' # "leaders"
    BY <1>1
  <2> QED BY <1>1, <1>4, <2>1, SameData DEF Forest, Data, nodes, iters
<1> QED BY <1>5, <1>6, <1>7, <1>8, <1>9, <1>10

(* There is a walk for every merge.                                          *)
LEMMA GoesExists ==
  ASSUME NEW A \in Nat, NEW B \in Nat, NEW L
  PROVE  \E X : Goes(X, A, B, L)
<1> DEFINE M == {p \in (1 .. A + B) \X Nat : Takes(p[2], (p[1] - 1) - p[2], A, B, L)}
<1>1. \A k \in 1 .. A + B, x \in Nat : <<k, x>> \in M <=> Takes(x, (k - 1) - x, A, B, L)
  OBVIOUS
<1> HIDE DEF M
<1>2. PICK X : Counts(X, A + B, 0, M)
  <2>1. A + B \in Nat
    OBVIOUS
  <2> QED BY <2>1, Counter
<1>3. X[0] = 0
  BY <1>2 DEF Counts
<1>4. ASSUME NEW k \in 0 .. A + B - 1
      PROVE  X[k + 1] = IF Takes(X[k], k - X[k], A, B, L) THEN X[k] + 1 ELSE X[k]
  <2>1. k + 1 \in 1 .. A + B /\ (k + 1) - 1 = k
    OBVIOUS
  <2>2. X[(k + 1) - 1] \in Nat /\ X[k + 1] = IF <<k + 1, X[(k + 1) - 1]>> \in M THEN X[(k + 1) - 1] + 1 ELSE X[(k + 1) - 1]
    BY <1>2, <2>1, Zenon DEF Counts
  <2>3. X[k] \in Nat /\ X[k + 1] = IF <<k + 1, X[k]>> \in M THEN X[k] + 1 ELSE X[k]
    BY <2>1, <2>2
  <2>4. <<k + 1, X[k]>> \in M <=> Takes(X[k], ((k + 1) - 1) - X[k], A, B, L)
    BY <1>1, <2>1, <2>3
  <2> QED BY <2>1, <2>3, <2>4
<1>5. Goes(X, A, B, L)
  BY <1>3, <1>4, Zenon DEF Goes
<1> QED BY <1>5

(* Each place of a merge has a node of one kind or the other.                *)
IsNode(nd, h, fr, c, m, A, B) == \/ \E y \in 0 .. B - 1 : nd = InnerNode(fr, m + y)
                                 \/ \E x \in 0 .. A - 1 : nd = LeafNode(h, c + x)

(* Every place of the merge as a whole is a leaf's or an internal node's.     *)
LEMMA WholeNode ==
  ASSUME NEW A \in Nat, NEW B \in Nat, NEW X, Shuffle(X, A, B), NEW k \in 0 .. A + B - 1,
         NEW h, NEW fr, NEW c \in Nat, NEW m \in Nat
  PROVE  IsNode(Whole(h, fr, c, m, X, k), h, fr, c, m, A, B)
<1>1. k \in 0 .. A + B /\ k + 1 \in 0 .. A + B
  OBVIOUS
<1>2. X[k] \in 0 .. A /\ k - X[k] \in 0 .. B /\ X[k + 1] \in 0 .. A /\ (k + 1) - X[k + 1] \in 0 .. B
  BY <1>1 DEF Shuffle
<1>3. X[k + 1] = X[k] \/ X[k + 1] = X[k] + 1
  BY DEF Shuffle
<1>4. CASE X[k + 1] = X[k]
  <2>1. k - X[k] \in 0 .. B - 1
    BY <1>2, <1>4
  <2> QED BY <1>4, <2>1 DEF Whole, IsNode
<1>5. CASE X[k + 1] = X[k] + 1
  <2>1. X[k] \in 0 .. A - 1 /\ X[k + 1] # X[k]
    BY <1>2, <1>5
  <2> QED BY <2>1 DEF Whole, IsNode
<1> QED BY <1>3, <1>4, <1>5

(* The shares lie side by side and are all of the merge.                     *)
LEMMA Cuts ==
  ASSUME NEW t \in Nat
  PROVE  /\ Cut(t, 0) = 0 /\ Cut(t, NBlocks) = t
         /\ \A b \in 0 .. NBlocks - 1 :
              /\ Cut(t, b) \in Nat /\ Cut(t, b + 1) \in Nat
              /\ Cut(t, b) <= Cut(t, b + 1) /\ Cut(t, b + 1) <= t
<1>1. NBlocks \in Nat \ {0}
  BY Blocks
<1>2. Cut(t, 0) = 0
  <2>1. (0 * NBlocks + 0) \div NBlocks = 0
    BY <1>1, DivisionUnique
  <2> QED BY <1>1, <2>1 DEF Cut
<1>3. Cut(t, NBlocks) = t
  <2>1. (t * NBlocks + 0) \div NBlocks = t
    BY <1>1, DivisionUnique
  <2>2. t * NBlocks + 0 = NBlocks * t
    BY <1>1
  <2> QED BY <2>1, <2>2 DEF Cut
<1>4. ASSUME NEW b \in Nat
      PROVE  /\ b * t \in Nat /\ Cut(t, b) \in Nat /\ Cut(t, b) * NBlocks \in Nat
             /\ Cut(t, b) * NBlocks <= b * t /\ b * t < Cut(t, b) * NBlocks + NBlocks
  <2> DEFINE n == b * t
  <2>1. n \in Nat
    OBVIOUS
  <2>2. Cut(t, b) = n \div NBlocks
    BY DEF Cut
  <2> HIDE DEF n
  <2>3. n \div NBlocks \in Nat /\ n % NBlocks \in 0 .. NBlocks - 1 /\ n = (n \div NBlocks) * NBlocks + (n % NBlocks)
    BY <1>1, <2>1, Division
  <2> DEFINE q == n \div NBlocks
             r == n % NBlocks
  <2>4. q * NBlocks \in Nat
    <3> HIDE DEF q
    <3>1. q \in Nat
      BY <2>3 DEF q
    <3> QED BY <1>1, <3>1, ProductOrder
  <2>5. q * NBlocks <= n /\ n < q * NBlocks + NBlocks
    <3> DEFINE p == q * NBlocks
    <3>1. p \in Nat /\ r \in 0 .. NBlocks - 1 /\ n = p + r
      BY <2>3, <2>4
    <3> HIDE DEF p, r
    <3>2. p <= n /\ n < p + NBlocks
      BY <1>1, <3>1
    <3> QED BY <3>2 DEF p
  <2>6. n \in Nat /\ q \in Nat /\ q * NBlocks \in Nat /\ q * NBlocks <= n /\ n < q * NBlocks + NBlocks
    BY <2>1, <2>3, <2>4, <2>5
  <2> HIDE DEF q
  <2> QED BY <2>2, <2>6 DEF n, q
<1>5. ASSUME NEW x \in Nat, NEW y \in Nat, x * NBlocks < y * NBlocks + NBlocks PROVE x <= y
  <2>1. ASSUME y < x PROVE FALSE
    <3>1. y * NBlocks + NBlocks <= x * NBlocks /\ x * NBlocks \in Nat /\ y * NBlocks \in Nat
      BY <1>1, <2>1, ProductOrder
    <3> QED BY <1>1, <1>5, <3>1
  <2> QED BY <2>1
<1>6. ASSUME NEW b \in 0 .. NBlocks - 1
      PROVE  /\ Cut(t, b) \in Nat /\ Cut(t, b + 1) \in Nat
             /\ Cut(t, b) <= Cut(t, b + 1) /\ Cut(t, b + 1) <= t
  <2>1. b \in Nat /\ b + 1 \in Nat /\ b + 1 <= NBlocks
    BY <1>1
  <2>2. /\ b * t \in Nat /\ Cut(t, b) \in Nat /\ Cut(t, b) * NBlocks \in Nat
        /\ Cut(t, b) * NBlocks <= b * t /\ b * t < Cut(t, b) * NBlocks + NBlocks
    BY <1>4, <2>1
  <2>3. /\ (b + 1) * t \in Nat /\ Cut(t, b + 1) \in Nat /\ Cut(t, b + 1) * NBlocks \in Nat
        /\ Cut(t, b + 1) * NBlocks <= (b + 1) * t /\ (b + 1) * t < Cut(t, b + 1) * NBlocks + NBlocks
    BY <1>4, <2>1
  <2>4. (b + 1) * t = b * t + t
    BY <2>1
  <2>5. Cut(t, b) * NBlocks < Cut(t, b + 1) * NBlocks + NBlocks
    BY <1>1, <2>2, <2>3, <2>4
  <2>6. Cut(t, b) <= Cut(t, b + 1)
    BY <1>5, <2>2, <2>3, <2>5
  <2>7. (b + 1) * t <= NBlocks * t
    <3>1. \A u, v, w \in Nat : u <= v => u * w <= v * w
      OBVIOUS
    <3> QED BY <1>1, <2>1, <3>1
  <2>8. Cut(t, b + 1) * NBlocks < t * NBlocks + NBlocks
    <3>1. NBlocks * t = t * NBlocks /\ t * NBlocks \in Nat
      BY <1>1
    <3> QED BY <1>1, <2>3, <2>7, <3>1
  <2>9. Cut(t, b + 1) <= t
    BY <1>5, <2>3, <2>8
  <2> QED BY <2>2, <2>3, <2>6, <2>9
<1> QED BY <1>2, <1>3, <1>6

(* When every block's share is merged, all of the merge is.                   *)
LEMMA SharesCover ==
  ASSUME NEW t \in Nat, NEW tm, NEW h, NEW fr, NEW c, NEW m, NEW X,
         \A b \in Block : MergedFrom(tm, h, fr, c, m, X, Cut(t, b), Cut(t, b + 1))
  PROVE  MergedFrom(tm, h, fr, c, m, X, 0, t)
<1> SUFFICES ASSUME NEW k \in 0 .. t - 1 PROVE tm[k] = Whole(h, fr, c, m, X, k)
  BY DEF MergedFrom
<1> DEFINE D == {b \in 0 .. NBlocks : k < Cut(t, b)}
<1>1. NBlocks \in Nat \ {0} /\ Cut(t, 0) = 0 /\ Cut(t, NBlocks) = t
  BY Blocks, Cuts
<1>2. NBlocks \in D
  BY <1>1
<1>3. D \in SUBSET Nat /\ D # {}
  BY <1>2
<1> HIDE DEF D
<1>4. PICK e \in D : \A b \in D : e <= b
  BY <1>3, Least
<1>5. e \in 0 .. NBlocks /\ k < Cut(t, e)
  BY <1>4 DEF D
<1>6. e # 0
  BY <1>1, <1>5
<1>7. e - 1 \in 0 .. NBlocks - 1 /\ e - 1 \in Block /\ (e - 1) + 1 = e /\ e - 1 \in 0 .. NBlocks /\ ~(e <= e - 1)
  BY <1>1, <1>5, <1>6 DEF Block
<1>8. ~(k < Cut(t, e - 1))
  BY <1>4, <1>7 DEF D
<1>9. Cut(t, e - 1) \in Nat /\ Cut(t, (e - 1) + 1) \in Nat
  BY <1>7, Cuts
<1>10. k \in Cut(t, e - 1) .. Cut(t, e) - 1
  BY <1>5, <1>7, <1>8, <1>9
<1>11. MergedFrom(tm, h, fr, c, m, X, Cut(t, e - 1), Cut(t, e))
  <2>1. MergedFrom(tm, h, fr, c, m, X, Cut(t, e - 1), Cut(t, (e - 1) + 1))
    BY <1>7
  <2> QED BY <1>7, <2>1
<1> QED BY <1>10, <1>11 DEF MergedFrom

-----------------------------------------------------------------------------
(* The barriers.                                                              *)

(* What a barrier that everyone has reached leads to.                        *)
LEMMA SyncStages ==
  ASSUME Places, GridSync
  PROVE  /\ UNCHANGED Data /\ phase' = Round[phase] /\ 0 \in Block
         /\ \A b \in Block : at[b] = "wait" /\ at'[b] = "run"
         /\ AtRest' = AtRest /\ Combined' = Combined /\ Gathered' = Gathered /\ Advanced' = Advanced
<1>1. UNCHANGED Data /\ phase' = Round[phase] /\ \A b \in Block : at[b] = "wait" /\ at'[b] = "run"
  BY DEF GridSync, Data, Following
<1>2. at[0] = "wait" /\ at'[0] = "run" /\ 0 \in Block
  BY <1>1, Blocks
<1>3. /\ AtRest' <=> AtRest
      /\ Combined' <=> Combined
      /\ Gathered' <=> Gathered
      /\ Advanced' <=> Advanced
  BY <1>1, <1>2 DEF Places, Round, AtRest, Combined, Gathered, Advanced
<1>4. AtRest' = AtRest /\ Combined' = Combined /\ Gathered' = Gathered /\ Advanced' = Advanced
  BY <1>3 DEF AtRest, Combined, Gathered, Advanced
<1> QED BY <1>1, <1>2, <1>4

(* When all leaves that are small enough have been copied, all leaves to     *)
(* merge have been.                                                          *)
LEMMA AllCopied ==
  ASSUME histogram \in Histograms, lNodesCur \in Nat, curLeavesNum \in Nat, lNodesCur + curLeavesNum <= size,
         \A k \in 0 .. curLeavesNum - 1 : IsSmall(lNodesCur + k),
         \A b \in Block : Selected(b) /\ at[b] = "wait"
  PROVE  CopiedFrom(copy, histogram, curLeavesNum, lNodesCur)
<1> SUFFICES ASSUME NEW k \in 0 .. curLeavesNum - 1
             PROVE copy[k] = LeafNode(histogram, lNodesCur + k)
  BY DEF CopiedFrom
<1> DEFINE i == lNodesCur + k
<1>1. size \in Nat
  BY Sizes
<1>2. i \in 0 .. size - 1 /\ i < size /\ IsSmall(i) /\ i - lNodesCur = k
  BY <1>1
<1> HIDE DEF i
<1>3. PICK b \in Block : i \in Threads(b)
  BY <1>2, LeafBlock
<1>4. copy[i - lNodesCur] = LeafNode(histogram, i)
  BY <1>2, <1>3, Zenon DEF Selected
<1>5. copy[k] = LeafNode(histogram, i)
  BY <1>2, <1>4
<1> QED BY <1>5 DEF i

(* What is taken from the merge sits at the top of the forest.               *)
LEMMA ApartAll ==
  ASSUME histogram \in Histograms, Shapes, Ring, Gathered, UnmeldedForest,
         \A X : IsWay(X) => IsMerged(X, 0, AllNum),
         NEW k \in 0 .. AllNum - 1
  PROVE  Apart(temp[k], lNodesLeader, CL, iNodesLeader)
<1> DEFINE A == curLeavesNum
           D == InnerNum
           c == lNodesCur - curLeavesNum
           m == mergeFront
           L == Led(copy, iNodesFreq, A, D, m)
<1>1. /\ A \in Nat /\ D \in Nat /\ c \in Nat /\ m \in Nat /\ AllNum = A + D
      /\ c + A <= size /\ m + D = iNodesFront /\ size \in Nat
  BY Sizes DEF Ring, GatheredRing, InnerNum, AllNum
<1>2. PICK X : Goes(X, A, D, L)
  <2> HIDE DEF A, D, L
  <2> QED BY <1>1, GoesExists
<1>3. IsWay(X)
  BY <1>2 DEF IsWay
<1>4. temp[k] = Whole(histogram, iNodesFreq, c, m, X, k)
  <2>1. IsMerged(X, 0, AllNum)
    BY <1>3
  <2> QED BY <2>1 DEF IsMerged, MergedFrom
<1>5. Fresh(lNodesLeader, CL, c, size) /\ Rooted(iNodesLeader, m, m + D)
  BY <1>1 DEF UnmeldedForest
<1> HIDE DEF A, D, c, m, L
<1>6. Shuffle(X, A, D)
  BY <1>1, <1>2, GoesShuffle
<1>7. k \in 0 .. A + D - 1
  BY <1>1
<1>8. IsNode(Whole(histogram, iNodesFreq, c, m, X, k), histogram, iNodesFreq, c, m, A, D)
  BY <1>1, <1>6, <1>7, WholeNode
<1>11. IsNode(temp[k], histogram, iNodesFreq, c, m, A, D)
  BY <1>4, <1>8
<1>9. CASE \E y \in 0 .. D - 1 : temp[k] = InnerNode(iNodesFreq, m + y)
  <2>1. PICK y \in 0 .. D - 1 : temp[k] = InnerNode(iNodesFreq, m + y)
    BY <1>9
  <2>2. m + y \in m .. (m + D) - 1
    BY <1>1
  <2>3. iNodesLeader[m + y] = -1
    BY <1>5, <2>2, Zenon DEF Rooted
  <2> QED BY <2>1, <2>3 DEF Apart, LeaderOf, DepthOf, InnerNode
<1>10. CASE \E x \in 0 .. A - 1 : temp[k] = LeafNode(histogram, c + x)
  <2>1. PICK x \in 0 .. A - 1 : temp[k] = LeafNode(histogram, c + x)
    BY <1>10
  <2>2. c + x \in c .. size - 1
    BY <1>1
  <2>3. lNodesLeader[c + x] = -1 /\ CL[c + x] = 0
    BY <1>5, <2>2, Zenon DEF Fresh
  <2> QED BY <2>1, <2>3 DEF Apart, LeaderOf, DepthOf, LeafNode
<1> QED BY <1>9, <1>10, <1>11 DEF IsNode

(* Half of what there is to merge.                                           *)
LEMMA Halves ==
  ASSUME AllNum \in Nat, AllNum % 2 = 0
  PROVE  /\ AllNum \div 2 \in Nat /\ AllNum = 2 * (AllNum \div 2)
         /\ \A i \in 0 .. AllNum \div 2 - 1 : 2 * i \in 0 .. AllNum - 1 /\ 2 * i + 1 \in 0 .. AllNum - 1
<1>1. AllNum \div 2 \in Nat /\ AllNum = 2 * (AllNum \div 2)
  OBVIOUS
<1> DEFINE q == AllNum \div 2
<1>2. q \in Nat /\ AllNum = 2 * q
  BY <1>1
<1> HIDE DEF q
<1>3. \A i \in 0 .. q - 1 : 2 * i \in 0 .. AllNum - 1 /\ 2 * i + 1 \in 0 .. AllNum - 1
  BY <1>2
<1> QED BY <1>2, <1>3 DEF q

(* grid.sync() keeps the invariant: what it leads to is what the phase before *)
(* has made.                                                                  *)
LEMMA GridSyncStep ==
  ASSUME Places, Several, GridSync
  PROVE  Several'
<1> USE DEF Several
<1>1. /\ UNCHANGED Data /\ phase' = Round[phase] /\ 0 \in Block
      /\ \A b \in Block : at[b] = "wait" /\ at'[b] = "run"
      /\ AtRest' = AtRest /\ Combined' = Combined /\ Gathered' = Gathered /\ Advanced' = Advanced
  BY SyncStages
<1>2. /\ histogram' = histogram /\ lNodesLeader' = lNodesLeader /\ CL' = CL
      /\ iNodesFreq' = iNodesFreq /\ iNodesLeader' = iNodesLeader /\ lNodesCur' = lNodesCur
      /\ iNodesFront' = iNodesFront /\ iNodesRear' = iNodesRear /\ iNodesSize' = iNodesSize
      /\ minFreq' = minFreq /\ curLeavesNum' = curLeavesNum
      /\ mergeFront' = mergeFront /\ mergeRear' = mergeRear /\ copy' = copy /\ temp' = temp
      /\ path' = path
  BY <1>1 DEF Data, nodes, iters, merged
<1>3. /\ size' = size /\ Leaf' = Leaf /\ Working' = Working
      /\ Shapes' = Shapes /\ RestRing' = RestRing /\ CombinedRing' = CombinedRing
      /\ GatheredRing' = GatheredRing /\ AdvancedRing' = AdvancedRing
      /\ InnerNum' = InnerNum /\ AllNum' = AllNum
      /\ RestWeights' = RestWeights /\ CombinedWeights' = CombinedWeights
      /\ GatheredWeights' = GatheredWeights
      /\ RestForest' = RestForest /\ CombinedForest' = CombinedForest
      /\ GatheredForest' = GatheredForest /\ UnmeldedForest' = UnmeldedForest
      /\ AdvancedForest' = AdvancedForest
  BY <1>1, SameData
<1>4. /\ phase \in DOMAIN Round
      /\ phase' = "combine" <=> phase = "size"
      /\ phase' = "select" <=> phase = "combine"
      /\ phase' = "iterate" <=> phase = "select"
      /\ phase' = "divide" <=> phase = "iterate"
      /\ phase' = "merge" <=> phase = "divide"
      /\ phase' = "meld" <=> phase = "merge"
      /\ phase' = "rear" <=> phase = "meld"
      /\ phase' = "leaders" <=> phase = "rear"
      /\ phase' = "size" <=> phase = "leaders"
  BY <1>1 DEF Round, Places
<1>5. /\ histogram \in Histograms /\ size \in Nat \ {0} /\ at[0] = "wait" /\ at'[0] = "run"
  BY <1>1, Sizes DEF Places
<1>6. Shapes' /\ Weights'
  BY <1>1, <1>3 DEF Weights
<1>7. Ring'
  BY <1>1, <1>2, <1>3, <1>5 DEF Ring
<1>8. Copying'
  <2>1. CASE phase = "combine"
    <3>1. curLeavesNum = 0
      BY <1>1, <2>1 DEF Copying
    <3>2. \A b \in Block : Selected(b)'
      <4> SUFFICES ASSUME NEW b \in Block PROVE Selected(b)'
        OBVIOUS
      <4>1. at'[b] = "run"
        BY <1>1
      <4> QED BY <4>1 DEF Selected
    <3> QED BY <1>1, <1>2, <1>4, <1>5, <2>1, <3>1, <3>2 DEF Copying, Gathered
  <2>2. CASE phase = "select"
    <3>1. Combined
      BY <2>2 DEF Combined
    <3>2. lNodesCur \in Nat /\ curLeavesNum \in Nat /\ lNodesCur + curLeavesNum <= size
      BY <1>5, <3>1 DEF Ring, CombinedRing
    <3>3. CopiedFrom(copy, histogram, curLeavesNum, lNodesCur)
      BY <1>1, <1>5, <2>2, <3>2, AllCopied DEF Copying
    <3> QED BY <1>1, <1>2, <1>4, <1>5, <2>2, <3>3 DEF Copying, Gathered
  <2>3. CASE phase \notin {"combine", "select"}
    <3>1. phase' \notin {"select", "iterate"} /\ \A b \in Block : at'[b] # "wait"
      BY <1>1, <1>4, <2>3
    <3> QED BY <1>1, <1>2, <2>3, <3>1 DEF Copying
  <2> QED BY <2>1, <2>2, <2>3
<1>9. Shares'
  <2>0. ASSUME NEW X
        PROVE  /\ IsWay(X)' = IsWay(X)
               /\ \A i, j : IsMerged(X, i, j)' = IsMerged(X, i, j)
    BY <1>2, <1>3 DEF IsWay, IsMerged
  <2>1. CASE phase \notin {"divide", "merge", "meld"}
    BY <1>1, <1>4, <1>5, <2>1 DEF Shares
  <2>2. CASE phase = "divide"
    <3> SUFFICES ASSUME AllNum > 0, NEW X, IsWay(X), NEW b \in Block
                 PROVE  Divided(path, X, AllNum, b)
      BY <1>1, <1>2, <1>3, <1>4, <2>0, <2>2 DEF Shares
    <3> QED BY <1>1, <2>2 DEF Shares
  <2>3. CASE phase = "merge"
    <3> SUFFICES ASSUME NEW X, IsWay(X) PROVE IsMerged(X, 0, AllNum)
      BY <1>1, <1>2, <1>3, <1>4, <1>5, <2>0, <2>3 DEF Shares
    <3>1. AllNum \in Nat
      <4>1. Gathered
        BY <2>3 DEF Gathered
      <4> QED BY <1>5, <4>1 DEF Ring, GatheredRing, AllNum, InnerNum
    <3>2. CASE AllNum = 0
      BY <3>2 DEF IsMerged, MergedFrom
    <3>3. CASE AllNum > 0
      <4>1. \A b \in Block : IsMerged(X, Cut(AllNum, b), Cut(AllNum, b + 1))
        BY <1>1, <2>3, <3>3 DEF Shares
      <4> DEFINE t == AllNum
                 c == lNodesCur - curLeavesNum
      <4>2. \A b \in Block : MergedFrom(temp, histogram, iNodesFreq, c, mergeFront, X, Cut(t, b), Cut(t, b + 1))
        BY <4>1 DEF IsMerged
      <4>3. t \in Nat
        BY <3>1
      <4> HIDE DEF t, c
      <4>4. MergedFrom(temp, histogram, iNodesFreq, c, mergeFront, X, 0, t)
        BY <4>2, <4>3, SharesCover
      <4> QED BY <4>4 DEF IsMerged, t, c
    <3> QED BY <3>1, <3>2, <3>3
  <2>4. CASE phase = "meld"
    <3> SUFFICES ASSUME NEW X, IsWay(X) PROVE IsMerged(X, 0, AllNum)
      BY <1>1, <1>2, <1>3, <1>4, <1>5, <2>0, <2>4 DEF Shares
    <3> QED BY <2>4 DEF Shares
  <2> QED BY <2>1, <2>2, <2>3, <2>4
<1>10. Melding'
  <2>0. ASSUME NEW i PROVE IsApart(i)' = IsApart(i) /\ IsJoined(i)' = IsJoined(i)
    BY <1>2 DEF IsApart, IsJoined
  <2>1. CASE phase = "merge"
    <3>1. Gathered /\ UnmeldedForest
      BY <2>1 DEF Gathered, Forest
    <3>2. AllNum \in Nat /\ AllNum % 2 = 0
      BY <1>5, <3>1 DEF Ring, GatheredRing, AllNum, InnerNum
    <3>3. \A X : IsWay(X) => IsMerged(X, 0, AllNum)
      <4>1. \A X : (IsWay(X) => IsMerged(X, 0, AllNum))'
        BY <1>4, <1>9, <2>1 DEF Shares
      <4>2. ASSUME NEW X PROVE IsWay(X)' = IsWay(X) /\ IsMerged(X, 0, AllNum)' = IsMerged(X, 0, AllNum)
        BY <1>2, <1>3 DEF IsWay, IsMerged
      <4> QED BY <4>1, <4>2
    <3>4. ASSUME NEW i \in 0 .. AllNum \div 2 - 1 PROVE IsApart(i)
      <4>1. 2 * i \in 0 .. AllNum - 1 /\ 2 * i + 1 \in 0 .. AllNum - 1
        BY <3>2, Halves
      <4> QED BY <1>5, <3>1, <3>3, <4>1, ApartAll DEF IsApart
    <3>5. \A b \in Block : \A i \in Threads(b) : i < AllNum \div 2 => IsApart(i)
      BY <3>2, <3>4, Blocks, Halves
    <3> QED BY <1>1, <1>3, <1>4, <2>0, <2>1, <3>5 DEF Melding
  <2>2. CASE phase = "meld"
    <3>1. AllNum \in Nat /\ AllNum % 2 = 0 /\ AllNum <= size + size
      <4>1. Gathered
        BY <2>2 DEF Gathered
      <4> QED BY <1>5, <4>1 DEF Ring, GatheredRing, AllNum, InnerNum
    <3>2. ASSUME NEW i \in 0 .. AllNum \div 2 - 1 PROVE IsJoined(i)
      <4>1. i \in 0 .. size - 1 /\ i < AllNum \div 2
        BY <1>5, <3>1, Halves
      <4>2. PICK b \in Block : i \in Threads(b)
        BY <1>5, <4>1, LeafBlock
      <4> QED BY <1>1, <2>2, <4>1, <4>2 DEF Melding
    <3> QED BY <1>1, <1>3, <1>4, <2>0, <2>2, <3>2 DEF Melding
  <2>3. CASE phase \notin {"merge", "meld"}
    BY <1>4, <2>3 DEF Melding
  <2> QED BY <2>1, <2>2, <2>3
<1>11. Forest'
  <2>1. AtRest /\ phase = "size" => Climbed(lNodesLeader, lNodesCur, iNodesFront)
    BY DEF Forest
  <2>2. phase = "leaders" => Climbed(lNodesLeader, lNodesCur, iNodesFront)
    <3> SUFFICES ASSUME phase = "leaders", NEW i \in 0 .. lNodesCur - 1
                 PROVE  lNodesLeader[i] >= iNodesFront
      BY DEF Climbed
    <3>1. i \in 0 .. size - 1 /\ i < lNodesCur
      BY <1>5 DEF Ring
    <3>2. PICK b \in Block : i \in Threads(b)
      BY <1>5, <3>1, LeafBlock
    <3> QED BY <1>1, <3>1, <3>2 DEF Forest
  <2>3. /\ AtRest' => RestForest'
        /\ Combined' => CombinedForest'
        /\ Gathered' => GatheredForest'
        /\ Advanced' => AdvancedForest'
    BY <1>1, <1>3 DEF Forest
  <2>4. Gathered' /\ phase' \in {"iterate", "divide", "merge"} => UnmeldedForest'
    <3>1. phase' # "iterate" \/ ~Gathered'
      BY <1>1, <1>5 DEF Gathered
    <3> QED BY <1>1, <1>3, <1>4, <3>1 DEF Forest
  <2>5. phase' = "leaders" => \A b \in Block : at'[b] # "wait"
    BY <1>1
  <2>6. phase' = "size" => Climbed(lNodesLeader, lNodesCur, iNodesFront)'
    BY <1>2, <1>4, <2>2
  <2> QED BY <2>3, <2>4, <2>5, <2>6 DEF Forest
<1> QED BY <1>6, <1>7, <1>8, <1>9, <1>10, <1>11

-----------------------------------------------------------------------------
(* Joining the nodes of a shuffle in pairs: the shape of the forest.          *)

(* Where each node goes in a shuffle: pl for the first kind, pi for the       *)
(* second.                                                                   *)
Slots(pl, pi, A, B, X) ==
  /\ \A x \in 0 .. A - 1 : pl[x] \in 0 .. A + B - 1 /\ X[pl[x]] = x /\ X[pl[x] + 1] = x + 1
  /\ \A y \in 0 .. B - 1 : pi[y] \in 0 .. A + B - 1 /\ pi[y] - X[pi[y]] = y /\ X[pi[y] + 1] = X[pi[y]]
  /\ \A k \in 0 .. A + B - 1 :
       \/ X[k + 1] = X[k] + 1 /\ X[k] \in 0 .. A - 1 /\ pl[X[k]] = k
       \/ X[k + 1] = X[k] /\ k - X[k] \in 0 .. B - 1 /\ pi[k - X[k]] = k
  /\ \A x \in 0 .. A - 1 : \A w \in 0 .. x : pl[w] <= pl[x]
  /\ \A y \in 0 .. B - 1 : \A z \in 0 .. y : pi[z] <= pi[y]

(* Every node of a shuffle has a slot in it.                                  *)
LEMMA SlotsExist ==
  ASSUME NEW A \in Nat, NEW B \in Nat, NEW X, Shuffle(X, A, B)
  PROVE  \E pl, pi : Slots(pl, pi, A, B, X)
<1> DEFINE n == A + B
           P(x, k) == X[k] = x /\ X[k + 1] = x + 1
           Q(y, k) == k - X[k] = y /\ X[k + 1] = X[k]
           pl == [x \in 0 .. A - 1 |-> CHOOSE k \in 0 .. n - 1 : P(x, k)]
           pi == [y \in 0 .. B - 1 |-> CHOOSE k \in 0 .. n - 1 : Q(y, k)]
<1>1. n \in Nat /\ n \in 0 .. n /\ X[n] = A /\ n - X[n] = B
  BY DEF Shuffle
<1>2. ASSUME NEW k \in 0 .. n
      PROVE  X[k] \in 0 .. A /\ k - X[k] \in 0 .. B /\ k \in Nat
  BY <1>2 DEF Shuffle
<1>3. ASSUME NEW k \in 0 .. n - 1
      PROVE  /\ X[k + 1] = X[k] + 1 => X[k] \in 0 .. A - 1
             /\ X[k + 1] = X[k] => k - X[k] \in 0 .. B - 1
             /\ X[k + 1] = X[k] + 1 \/ X[k + 1] = X[k]
             /\ X[k] \in Nat /\ X[k + 1] \in Nat
  <2>1. k \in 0 .. n /\ k + 1 \in 0 .. n
    BY <1>1
  <2>2. X[k] \in 0 .. A /\ k - X[k] \in 0 .. B /\ X[k + 1] \in 0 .. A /\ (k + 1) - X[k + 1] \in 0 .. B
    BY <1>2, <2>1
  <2>3. X[k + 1] = X[k] + 1 \/ X[k + 1] = X[k]
    BY <1>3 DEF Shuffle
  <2> QED BY <2>1, <2>2, <2>3
<1>4. ASSUME NEW k \in 0 .. n - 1, NEW j \in 0 .. n - 1, j < k
      PROVE  X[j + 1] <= X[k] /\ (j + 1) - X[j + 1] <= k - X[k]
  <2>1. k \in 0 .. n /\ j + 1 \in 0 .. k
    BY <1>1, <1>4
  <2> HIDE DEF n
  <2>2. k \in 0 .. A + B
    BY <2>1 DEF n
  <2> QED BY <2>1, <2>2, ShuffleOrder
<1>5. ASSUME NEW x \in 0 .. A - 1 PROVE pl[x] \in 0 .. n - 1 /\ P(x, pl[x])
  <2>1. \E k \in 0 .. n - 1 : P(x, k)
    <3>1. n \in 0 .. A + B /\ x \in Nat /\ x < X[n]
      BY <1>1
    <3> HIDE DEF n
    <3> QED BY <3>1, FirstTaken
  <2> QED BY <2>1
<1>6. ASSUME NEW y \in 0 .. B - 1 PROVE pi[y] \in 0 .. n - 1 /\ Q(y, pi[y])
  <2>1. \E k \in 0 .. n - 1 : Q(y, k)
    <3>1. n \in 0 .. A + B /\ y \in Nat /\ y < n - X[n]
      BY <1>1
    <3> HIDE DEF n
    <3> QED BY <3>1, SecondTaken
  <2> QED BY <2>1
<1> HIDE DEF pl, pi
<1>7. ASSUME NEW k \in 0 .. n - 1, NEW j \in 0 .. n - 1, NEW x \in Nat, NEW w \in 0 .. x, P(x, k), P(w, j)
      PROVE  j <= k
  <2>1. ASSUME k < j PROVE FALSE
    <3>1. X[k + 1] <= X[j]
      BY <1>4, <2>1
    <3> QED BY <1>1, <1>7, <3>1
  <2> QED BY <1>1, <2>1
<1>8. ASSUME NEW k \in 0 .. n - 1, NEW j \in 0 .. n - 1, NEW y \in Nat, NEW z \in 0 .. y, Q(y, k), Q(z, j)
      PROVE  j <= k
  <2>1. ASSUME k < j PROVE FALSE
    <3>1. (k + 1) - X[k + 1] <= j - X[j]
      BY <1>4, <2>1
    <3>2. X[k] \in Nat /\ k \in Nat /\ j \in Nat /\ X[j] \in Nat
      BY <1>1, <1>3
    <3> QED BY <1>8, <3>1, <3>2
  <2> QED BY <1>1, <2>1
<1>9. ASSUME NEW k \in 0 .. n - 1
      PROVE  \/ X[k + 1] = X[k] + 1 /\ X[k] \in 0 .. A - 1 /\ pl[X[k]] = k
             \/ X[k + 1] = X[k] /\ k - X[k] \in 0 .. B - 1 /\ pi[k - X[k]] = k
  <2>1. CASE X[k + 1] = X[k] + 1
    <3> DEFINE x == X[k]
               j == pl[x]
    <3>1. x \in 0 .. A - 1 /\ x \in Nat /\ x \in 0 .. x /\ P(x, k)
      BY <1>3, <2>1
    <3>2. j \in 0 .. n - 1 /\ P(x, j)
      BY <1>5, <3>1
    <3> HIDE DEF x, j, P
    <3>3. j <= k /\ k <= j
      BY <1>7, <3>1, <3>2
    <3> QED BY <1>1, <2>1, <3>1, <3>2, <3>3 DEF x, j
  <2>2. CASE X[k + 1] = X[k]
    <3> DEFINE y == k - X[k]
               j == pi[y]
    <3>1. y \in 0 .. B - 1 /\ y \in Nat /\ y \in 0 .. y /\ Q(y, k)
      BY <1>3, <2>2
    <3>2. j \in 0 .. n - 1 /\ Q(y, j)
      BY <1>6, <3>1
    <3> HIDE DEF y, j, Q
    <3>3. j <= k /\ k <= j
      BY <1>8, <3>1, <3>2
    <3> QED BY <1>1, <2>2, <3>1, <3>2, <3>3 DEF y, j
  <2> QED BY <1>3, <2>1, <2>2
<1>10. ASSUME NEW x \in 0 .. A - 1, NEW w \in 0 .. x PROVE pl[w] <= pl[x]
  <2>1. w \in 0 .. A - 1 /\ x \in Nat
    OBVIOUS
  <2>2. pl[x] \in 0 .. n - 1 /\ P(x, pl[x]) /\ pl[w] \in 0 .. n - 1 /\ P(w, pl[w])
    BY <1>5, <2>1
  <2> HIDE DEF P
  <2> QED BY <1>7, <2>1, <2>2
<1>11. ASSUME NEW x \in 0 .. B - 1, NEW w \in 0 .. x PROVE pi[w] <= pi[x]
  <2>1. w \in 0 .. B - 1 /\ x \in Nat
    OBVIOUS
  <2>2. pi[x] \in 0 .. n - 1 /\ Q(x, pi[x]) /\ pi[w] \in 0 .. n - 1 /\ Q(w, pi[w])
    BY <1>6, <2>1
  <2> HIDE DEF Q
  <2> QED BY <1>8, <2>1, <2>2
<1>12. Slots(pl, pi, A, B, X)
  BY <1>5, <1>6, <1>9, <1>10, <1>11 DEF Slots
<1> QED BY <1>12

Half(k) == k \div 2

(* What integer division by 2 does to the numbers of nodes and of pairs.      *)
LEMMA HalfFacts ==
  /\ \A k \in Nat : Half(k) \in Nat /\ (k = Half(k) + Half(k) \/ k = Half(k) + Half(k) + 1)
  /\ \A k, j \in Nat : j <= k => Half(j) <= Half(k)
  /\ \A t \in Nat : \A k \in 0 .. t + t - 1 : Half(k) \in 0 .. t - 1
  /\ \A t \in Nat : Half(t + t) = t
<1>1. ASSUME NEW k \in Nat PROVE Half(k) \in Nat /\ (k = Half(k) + Half(k) \/ k = Half(k) + Half(k) + 1)
  BY DEF Half
<1>2. ASSUME NEW k \in Nat, NEW j \in Nat, j <= k PROVE Half(j) <= Half(k)
  BY <1>1, <1>2
<1>3. ASSUME NEW t \in Nat, NEW k \in 0 .. t + t - 1 PROVE Half(k) \in 0 .. t - 1
  <2>1. k \in Nat /\ k < t + t
    OBVIOUS
  <2>2. Half(k) \in Nat /\ (k = Half(k) + Half(k) \/ k = Half(k) + Half(k) + 1)
    BY <1>1, <2>1
  <2>3. \A h \in Nat : (k = h + h \/ k = h + h + 1) => h \in 0 .. t - 1
    BY <2>1
  <2> QED BY <2>2, <2>3
<1>4. ASSUME NEW t \in Nat PROVE Half(t + t) = t
  <2>1. t + t \in Nat
    OBVIOUS
  <2>2. Half(t + t) \in Nat /\ (t + t = Half(t + t) + Half(t + t) \/ t + t = Half(t + t) + Half(t + t) + 1)
    BY <1>1, <2>1
  <2>3. \A h \in Nat : (t + t = h + h \/ t + t = h + h + 1) => h = t
    OBVIOUS
  <2> QED BY <2>2, <2>3
<1> QED BY <1>1, <1>2, <1>3, <1>4

(* A shuffle of the leaves from c on and the roots from f on is joined by     *)
(* pairs, under new roots from r on.                                         *)
Paired(ll, cl, il, f, r, c, A, B, X) ==
  \A k \in 0 .. A + B - 1 :
    /\ X[k + 1] = X[k] + 1 => ll[c + X[k]] = r + Half(k) /\ cl[c + X[k]] = 1
    /\ X[k + 1] = X[k] => il[f + (k - X[k])] = r + Half(k)

(* The tops and the depths of the leaves before and after that.              *)
Tops(T, D, ll, cl, il, f, c) ==
  \A i \in 0 .. c - 1 : T[i] = Top(ll, il, f, i) /\ D[i] = Depth(ll, cl, f, i)
Rejoined(T, D, V, E, pl, pi, f, r, c, A, B) ==
  /\ \A i \in 0 .. c - 1 : T[i] < f + B => V[i] = r + Half(pi[T[i] - f]) /\ E[i] = D[i] + 1
  /\ \A i \in 0 .. c - 1 : ~(T[i] < f + B) => V[i] = T[i] /\ E[i] = D[i]
  /\ \A i \in c .. c + A - 1 : V[i] = r + Half(pl[i - c]) /\ E[i] = 1
Standing(T, D, f, r, c) ==
  \A i \in 0 .. c - 1 : T[i] \in f .. r - 1 /\ D[i] \in Nat \ {0} /\ D[i] <= T[i] + 1

(* The tops of the leaves are roots, and no leaf is deeper than its top is    *)
(* far.                                                                       *)
LEMMA Stands ==
  ASSUME NEW f \in Nat, NEW r \in Nat, NEW c \in Nat, NEW ll, NEW cl, NEW il,
         Placed(ll, cl, il, f, r, c), NEW T, NEW D, Tops(T, D, ll, cl, il, f, c)
  PROVE  Standing(T, D, f, r, c)
<1> SUFFICES ASSUME NEW i \in 0 .. c - 1
             PROVE  T[i] \in f .. r - 1 /\ D[i] \in Nat \ {0} /\ D[i] <= T[i] + 1
  BY DEF Standing
<1>1. T[i] = Top(ll, il, f, i) /\ D[i] = Depth(ll, cl, f, i)
  BY DEF Tops
<1>2. Top(ll, il, f, i) \in f .. r - 1 /\ cl[i] \in Nat \ {0} /\ Depth(ll, cl, f, i) <= Top(ll, il, f, i) + 1
  BY DEF Placed
<1>3. Depth(ll, cl, f, i) \in Nat \ {0}
  BY <1>2 DEF Depth
<1> QED BY <1>1, <1>2, <1>3

(* Joining a shuffle in pairs changes tops and depths as Rejoined says.       *)
LEMMA JoinTops ==
  ASSUME NEW A \in Nat, NEW B \in Nat, NEW X, NEW f \in Nat, NEW r \in Nat, NEW c \in Nat,
         f + B <= r, NEW ll, NEW cl, NEW il, NEW pl, NEW pi, Slots(pl, pi, A, B, X),
         Placed(ll, cl, il, f, r, c), Raised(ll, il, f, c, f + B),
         Paired(ll, cl, il, f, r, c, A, B, X),
         NEW T, NEW D, NEW V, NEW E, Tops(T, D, ll, cl, il, f, c), Tops(V, E, ll, cl, il, f + B, c + A)
  PROVE  Rejoined(T, D, V, E, pl, pi, f, r, c, A, B)
<1>1. ASSUME NEW y \in 0 .. B - 1 PROVE il[f + y] = r + Half(pi[y])
  <2> DEFINE k == pi[y]
  <2>1. k \in 0 .. A + B - 1 /\ k - X[k] = y /\ X[k + 1] = X[k]
    BY DEF Slots
  <2>2. il[f + (k - X[k])] = r + Half(k)
    BY <2>1 DEF Paired
  <2> QED BY <2>1, <2>2
<1>2. ASSUME NEW x \in 0 .. A - 1 PROVE ll[c + x] = r + Half(pl[x]) /\ cl[c + x] = 1 /\ Half(pl[x]) \in Nat
  <2> DEFINE k == pl[x]
  <2>1. k \in 0 .. A + B - 1 /\ X[k] = x /\ X[k + 1] = x + 1
    BY DEF Slots
  <2>2. ll[c + X[k]] = r + Half(k) /\ cl[c + X[k]] = 1
    BY <2>1 DEF Paired
  <2>3. Half(k) \in Nat
    <3>1. k \in Nat
      BY <2>1
    <3> HIDE DEF k
    <3> QED BY <3>1, HalfFacts
  <2> QED BY <2>1, <2>2, <2>3
<1>3. ASSUME NEW i \in 0 .. c - 1
      PROVE  /\ T[i] < f + B => V[i] = r + Half(pi[T[i] - f]) /\ E[i] = D[i] + 1
             /\ ~(T[i] < f + B) => V[i] = T[i] /\ E[i] = D[i]
  <2>1. i \in 0 .. c + A - 1
    OBVIOUS
  <2>2. /\ T[i] = (IF ll[i] < f THEN il[ll[i]] ELSE ll[i])
        /\ D[i] = (IF ll[i] < f THEN cl[i] + 1 ELSE cl[i])
        /\ V[i] = (IF ll[i] < f + B THEN il[ll[i]] ELSE ll[i])
        /\ E[i] = (IF ll[i] < f + B THEN cl[i] + 1 ELSE cl[i])
    BY <2>1 DEF Tops, Top, Depth
  <2>3. ll[i] \in 0 .. r - 1 /\ cl[i] \in Nat /\ (IF ll[i] < f THEN il[ll[i]] ELSE ll[i]) \in f .. r - 1
    BY DEF Placed, Top
  <2>4. ll[i] < f => il[ll[i]] >= f + B
    BY DEF Raised
  <2>5. CASE ll[i] < f
    <3>1. T[i] = il[ll[i]] /\ D[i] = cl[i] + 1 /\ V[i] = il[ll[i]] /\ E[i] = cl[i] + 1
      BY <2>2, <2>3, <2>5
    <3>2. il[ll[i]] \in f .. r - 1
      BY <2>3, <2>5
    <3> QED BY <2>4, <2>5, <3>1, <3>2
  <2>6. CASE ~(ll[i] < f) /\ ll[i] < f + B
    <3>1. ll[i] - f \in 0 .. B - 1 /\ f + (ll[i] - f) = ll[i] /\ T[i] = ll[i]
      BY <2>2, <2>3, <2>6
    <3>2. il[f + (ll[i] - f)] = r + Half(pi[ll[i] - f])
      BY <1>1, <3>1
    <3> QED BY <2>2, <2>6, <3>1, <3>2
  <2>7. CASE ~(ll[i] < f + B)
    BY <2>2, <2>3, <2>7
  <2> QED BY <2>3, <2>5, <2>6, <2>7
<1>4. ASSUME NEW i \in c .. c + A - 1
      PROVE  V[i] = r + Half(pl[i - c]) /\ E[i] = 1
  <2>1. i \in 0 .. c + A - 1 /\ i - c \in 0 .. A - 1 /\ c + (i - c) = i
    OBVIOUS
  <2>2. /\ V[i] = (IF ll[i] < f + B THEN il[ll[i]] ELSE ll[i])
        /\ E[i] = (IF ll[i] < f + B THEN cl[i] + 1 ELSE cl[i])
    BY <2>1 DEF Tops, Top, Depth
  <2>3. ll[i] = r + Half(pl[i - c]) /\ cl[i] = 1 /\ Half(pl[i - c]) \in Nat
    <3>1. ll[c + (i - c)] = r + Half(pl[i - c]) /\ cl[c + (i - c)] = 1 /\ Half(pl[i - c]) \in Nat
      BY <1>2, <2>1
    <3> QED BY <2>1, <3>1
  <2>4. ~(ll[i] < f + B)
    BY <2>3
  <2> QED BY <2>2, <2>3, <2>4
<1> QED BY <1>3, <1>4 DEF Rejoined

OrderedBy(T, D, c) ==
  \A j \in 0 .. c - 1 : \A i \in 0 .. j : D[i] > D[j] \/ (D[i] = D[j] /\ T[i] <= T[j])

(* What each leaf's new top and depth can be.                                *)
LEMMA JoinStands ==
  ASSUME NEW A \in Nat, NEW B \in Nat, NEW X, NEW f \in Nat, NEW r \in Nat, NEW c \in Nat,
         NEW t \in Nat, A + B = t + t, f + B <= r, NEW pl, NEW pi, Slots(pl, pi, A, B, X),
         NEW T, NEW D, NEW V, NEW E, Standing(T, D, f, r, c),
         Rejoined(T, D, V, E, pl, pi, f, r, c, A, B)
  PROVE  /\ Standing(V, E, f + B, r + t, c + A)
         /\ \A i \in 0 .. c - 1 : T[i] < f + B => V[i] >= r
         /\ \A i \in c .. c + A - 1 : V[i] >= r
<1>1. ASSUME NEW x \in 0 .. A - 1 PROVE Half(pl[x]) \in 0 .. t - 1
  <2> DEFINE k == pl[x]
  <2>1. k \in 0 .. t + t - 1
    BY DEF Slots
  <2> HIDE DEF k
  <2>2. Half(k) \in 0 .. t - 1
    BY <2>1, HalfFacts
  <2> QED BY <2>2 DEF k
<1>2. ASSUME NEW y \in 0 .. B - 1 PROVE Half(pi[y]) \in 0 .. t - 1
  <2> DEFINE k == pi[y]
  <2>1. k \in 0 .. t + t - 1
    BY DEF Slots
  <2> HIDE DEF k
  <2>2. Half(k) \in 0 .. t - 1
    BY <2>1, HalfFacts
  <2> QED BY <2>2 DEF k
<1>3. ASSUME NEW i \in 0 .. c - 1
      PROVE  /\ V[i] \in f + B .. r + t - 1 /\ E[i] \in Nat \ {0} /\ E[i] <= V[i] + 1
             /\ T[i] < f + B => V[i] >= r
  <2>1. T[i] \in f .. r - 1 /\ D[i] \in Nat \ {0} /\ D[i] <= T[i] + 1
    BY DEF Standing
  <2>2. CASE T[i] < f + B
    <3>1. T[i] - f \in 0 .. B - 1
      BY <2>1, <2>2
    <3>2. Half(pi[T[i] - f]) \in 0 .. t - 1
      BY <1>2, <3>1
    <3>3. V[i] = r + Half(pi[T[i] - f]) /\ E[i] = D[i] + 1
      BY <2>2 DEF Rejoined
    <3> QED BY <2>1, <3>2, <3>3
  <2>3. CASE ~(T[i] < f + B)
    <3>1. V[i] = T[i] /\ E[i] = D[i]
      BY <2>3 DEF Rejoined
    <3> QED BY <2>1, <2>3, <3>1
  <2> QED BY <2>2, <2>3
<1>4. ASSUME NEW i \in c .. c + A - 1
      PROVE  V[i] \in f + B .. r + t - 1 /\ E[i] \in Nat \ {0} /\ E[i] <= V[i] + 1 /\ V[i] >= r
  <2>1. i - c \in 0 .. A - 1
    OBVIOUS
  <2>2. Half(pl[i - c]) \in 0 .. t - 1
    BY <1>1, <2>1
  <2>3. V[i] = r + Half(pl[i - c]) /\ E[i] = 1
    BY DEF Rejoined
  <2> QED BY <2>2, <2>3
<1>5. \A i \in 0 .. c + A - 1 : i \in 0 .. c - 1 \/ i \in c .. c + A - 1
  OBVIOUS
<1> QED BY <1>3, <1>4, <1>5 DEF Standing

(* The leaves stay in order of their depths, and of their tops among equals.  *)
LEMMA JoinOrder ==
  ASSUME NEW A \in Nat, NEW B \in Nat, NEW X, NEW f \in Nat, NEW r \in Nat, NEW c \in Nat,
         NEW t \in Nat, A + B = t + t, f + B <= r, NEW pl, NEW pi, Slots(pl, pi, A, B, X),
         NEW T, NEW D, NEW V, NEW E, Standing(T, D, f, r, c),
         Rejoined(T, D, V, E, pl, pi, f, r, c, A, B), OrderedBy(T, D, c)
  PROVE  OrderedBy(V, E, c + A)
<1> SUFFICES ASSUME NEW j \in 0 .. c + A - 1, NEW i \in 0 .. j
             PROVE  E[i] > E[j] \/ (E[i] = E[j] /\ V[i] <= V[j])
  BY DEF OrderedBy
<1>1. /\ Standing(V, E, f + B, r + t, c + A)
      /\ \A k \in 0 .. c - 1 : T[k] < f + B => V[k] >= r
      /\ \A k \in c .. c + A - 1 : V[k] >= r
  BY JoinStands
<1>2. i \in 0 .. c + A - 1 /\ i \in Nat /\ j \in Nat /\ i <= j
  OBVIOUS
<1>3. /\ V[i] \in Nat /\ E[i] \in Nat /\ E[i] >= 1 /\ V[j] \in Nat /\ E[j] \in Nat /\ E[j] >= 1
  BY <1>1, <1>2 DEF Standing
<1>4. CASE j \in 0 .. c - 1
  <2>1. i \in 0 .. c - 1
    BY <1>2, <1>4
  <2>2. /\ T[i] \in f .. r - 1 /\ D[i] \in Nat \ {0} /\ T[j] \in f .. r - 1 /\ D[j] \in Nat \ {0}
    BY <1>4, <2>1 DEF Standing
  <2>3. D[i] > D[j] \/ (D[i] = D[j] /\ T[i] <= T[j])
    BY <1>4 DEF OrderedBy
  <2>4. /\ T[i] < f + B => V[i] = r + Half(pi[T[i] - f]) /\ E[i] = D[i] + 1 /\ V[i] >= r
        /\ ~(T[i] < f + B) => V[i] = T[i] /\ E[i] = D[i]
    BY <1>1, <2>1 DEF Rejoined
  <2>5. /\ T[j] < f + B => V[j] = r + Half(pi[T[j] - f]) /\ E[j] = D[j] + 1 /\ V[j] >= r
        /\ ~(T[j] < f + B) => V[j] = T[j] /\ E[j] = D[j]
    BY <1>1, <1>4 DEF Rejoined
  <2>6. CASE T[i] < f + B /\ T[j] < f + B
    <3>1. CASE D[i] > D[j]
      BY <2>2, <2>4, <2>5, <2>6, <3>1
    <3>2. CASE D[i] = D[j] /\ T[i] <= T[j]
      <4>1. T[j] - f \in 0 .. B - 1 /\ T[i] - f \in 0 .. T[j] - f
        BY <2>2, <2>6, <3>2
      <4> DEFINE y == T[j] - f
                 z == T[i] - f
                 u == pi[y]
                 v == pi[z]
      <4>2. y \in 0 .. B - 1 /\ z \in 0 .. y
        BY <4>1
      <4> HIDE DEF y, z
      <4>3. z \in 0 .. B - 1
        BY <4>2
      <4>4. v <= u /\ v \in Nat /\ u \in Nat
        BY <4>2, <4>3 DEF Slots
      <4> HIDE DEF u, v
      <4>5. Half(v) <= Half(u) /\ Half(v) \in Nat /\ Half(u) \in Nat
        BY <4>4, HalfFacts
      <4>6. V[i] = r + Half(v) /\ V[j] = r + Half(u) /\ E[i] = D[i] + 1 /\ E[j] = D[j] + 1
        BY <2>4, <2>5, <2>6 DEF u, v, y, z
      <4> QED BY <2>2, <3>2, <4>5, <4>6
    <3> QED BY <2>3, <3>1, <3>2
  <2>7. CASE T[i] < f + B /\ ~(T[j] < f + B)
    BY <2>2, <2>3, <2>4, <2>5, <2>7
  <2>8. CASE ~(T[i] < f + B) /\ T[j] < f + B
    BY <1>3, <2>2, <2>3, <2>4, <2>5, <2>8
  <2>9. CASE ~(T[i] < f + B) /\ ~(T[j] < f + B)
    BY <2>2, <2>3, <2>4, <2>5, <2>9
  <2> QED BY <2>6, <2>7, <2>8, <2>9
<1>5. CASE j \in c .. c + A - 1 /\ i \in 0 .. c - 1
  <2>1. T[i] \in f .. r - 1 /\ D[i] \in Nat \ {0}
    BY <1>5 DEF Standing
  <2>2. E[j] = 1 /\ V[j] >= r
    BY <1>1, <1>5 DEF Rejoined
  <2>3. /\ T[i] < f + B => E[i] = D[i] + 1
        /\ ~(T[i] < f + B) => V[i] = T[i] /\ E[i] = D[i]
    BY <1>5 DEF Rejoined
  <2> QED BY <1>3, <2>1, <2>2, <2>3
<1>6. CASE j \in c .. c + A - 1 /\ i \in c .. c + A - 1
  <2> DEFINE x == j - c
             w == i - c
             u == pl[x]
             v == pl[w]
  <2>1. x \in 0 .. A - 1 /\ w \in 0 .. x /\ w \in 0 .. A - 1
    BY <1>2, <1>6
  <2>2. V[i] = r + Half(v) /\ V[j] = r + Half(u) /\ E[i] = 1 /\ E[j] = 1
    BY <1>6 DEF Rejoined
  <2> HIDE DEF x, w
  <2>3. v <= u /\ v \in Nat /\ u \in Nat
    BY <2>1 DEF Slots
  <2> HIDE DEF u, v
  <2>4. Half(v) <= Half(u) /\ Half(v) \in Nat /\ Half(u) \in Nat
    BY <2>3, HalfFacts
  <2> QED BY <2>2, <2>4
<1>7. (j \in 0 .. c - 1) \/ (j \in c .. c + A - 1 /\ i \in 0 .. c - 1) \/ (j \in c .. c + A - 1 /\ i \in c .. c + A - 1)
  BY <1>2
<1> QED BY <1>4, <1>5, <1>6, <1>7

(* pow2[k] is 2^k up to the number of threads.                                *)
LEMMA Powers ==
  LET N == NBlocks * NThreads
  IN  /\ N \in Nat /\ pow2[0] = 1
      /\ \A k \in 0 .. N : pow2[k] \in Nat
      /\ \A k \in 1 .. N : pow2[k] = pow2[k - 1] + pow2[k - 1]
<1> DEFINE N == NBlocks * NThreads
           Eq(S) == S = [k \in 0 .. N |-> IF k = 0 THEN 1 ELSE 2 * S[k - 1]]
           g == [k \in 1 .. N |-> 0]
<1>1. N \in Nat
  <2>1. NBlocks \in Nat \ {0} /\ NThreads \in Nat \ {0}
    BY LaunchAssumption
  <2>2. \A x, y \in Nat : x * y \in Nat
    OBVIOUS
  <2> QED BY <2>1, <2>2
<1> HIDE DEF N
<1>2. PICK T : Recurs(T, N, 2, 1, g)
  <2>1. g \in [1 .. N -> Nat]
    OBVIOUS
  <2> HIDE DEF g
  <2> QED BY <1>1, <2>1, Recurrence
<1>3. Eq(T)
  <2>1. T \in [0 .. N -> Nat] /\ T[0] = 1 /\ \A k \in 1 .. N : T[k] = 2 * T[k - 1] + 0
    BY <1>2 DEF Recurs
  <2>2. ASSUME NEW k \in 0 .. N PROVE T[k] = IF k = 0 THEN 1 ELSE 2 * T[k - 1]
    <3>1. k = 0 \/ (k \in 1 .. N /\ k - 1 \in 0 .. N)
      BY <1>1
    <3>2. CASE k \in 1 .. N /\ k - 1 \in 0 .. N
      <4>1. T[k - 1] \in Nat /\ k # 0
        BY <2>1, <3>2
      <4>2. T[k] = 2 * T[k - 1] + 0
        BY <2>1, <3>2
      <4> QED BY <4>1, <4>2
    <3> QED BY <2>1, <3>1, <3>2
  <2> QED BY <2>1, <2>2
<1>4. pow2 = CHOOSE S : Eq(S)
  BY Zenon DEF pow2, N
<1> DEFINE C == CHOOSE S : Eq(S)
<1>5. Eq(C)
  <2> HIDE DEF Eq
  <2> QED BY <1>3
<1>6. ASSUME NEW S, Eq(S), NEW k \in 0 .. N PROVE S[k] = IF k = 0 THEN 1 ELSE 2 * S[k - 1]
  BY <1>6
<1>7. ASSUME NEW k \in 0 .. N PROVE C[k] = IF k = 0 THEN 1 ELSE 2 * C[k - 1]
  <2> HIDE DEF Eq, C
  <2> QED BY <1>5, <1>6
<1> HIDE DEF C, Eq
<1> DEFINE Q == {k \in 0 .. N : C[k] \in Nat}
<1>8. 0 \in Q
  BY <1>1, <1>7
<1>9. ASSUME NEW k \in 1 .. N, k - 1 \in Q PROVE k \in Q
  <2>1. k \in 0 .. N /\ k # 0
    BY <1>1
  <2> QED BY <1>7, <1>9, <2>1
<1>10. \A k \in 0 .. N : k \in Q
  <2> HIDE DEF Q
  <2> QED BY <1>1, <1>8, <1>9, Induct
<1>11. ASSUME NEW k \in 1 .. N PROVE C[k] = C[k - 1] + C[k - 1]
  <2>1. k \in 0 .. N /\ k # 0 /\ k - 1 \in 0 .. N
    BY <1>1
  <2>2. C[k - 1] \in Nat
    BY <1>10, <2>1
  <2>3. C[k] = 2 * C[k - 1]
    BY <1>7, <2>1
  <2> QED BY <2>2, <2>3
<1>12. C[0] = 1
  BY <1>1, <1>7
<1>13. \A k \in 0 .. N : C[k] \in Nat
  BY <1>10
<1>14. pow2 = C
  BY <1>4 DEF C
<1> QED BY <1>1, <1>11, <1>12, <1>13, <1>14 DEF N

(* What the leaves under the top j make together, in units of 2^-n.          *)
UnitsOf(T, D, c, n, j) == [i \in 0 .. n - 1 |-> IF i < c /\ T[i] = j THEN pow2[n - D[i]] ELSE 0]
FullBy(T, D, f, r, c, n) == \A j \in f .. r - 1 : Sums(UnitsOf(T, D, c, n, j))[n] = pow2[n]

(* What the k-th node of the shuffle makes: a leaf all, a root its tree.      *)
Part(T, D, X, f, c, n, k) ==
  IF X[k + 1] = X[k] THEN UnitsOf(T, D, c, n, f + (k - X[k]))
                     ELSE [i \in 0 .. n - 1 |-> IF i = c + X[k] THEN pow2[n] ELSE 0]

(* The units of the leaves under a top are numbers.                           *)
LEMMA UnitsType ==
  ASSUME NEW n \in Nat, n <= NBlocks * NThreads, NEW c \in Nat, c <= n, NEW T, NEW D, NEW j,
         \A i \in 0 .. c - 1 : D[i] \in Nat /\ D[i] <= n
  PROVE  UnitsOf(T, D, c, n, j) \in [0 .. n - 1 -> Nat]
<1>1. ASSUME NEW i \in 0 .. n - 1, i < c PROVE pow2[n - D[i]] \in Nat
  <2>1. i \in 0 .. c - 1
    BY <1>1
  <2>2. D[i] \in Nat /\ D[i] <= n
    BY <2>1
  <2>3. n - D[i] \in 0 .. NBlocks * NThreads
    BY <2>2, Powers
  <2> QED BY <2>3, Powers
<1> QED BY <1>1 DEF UnitsOf

(* Each of the first m parts makes a full tree.                              *)
PartFull(T, D, X, f, c, n, k) ==
  Part(T, D, X, f, c, n, k) \in [0 .. n - 1 -> Nat] /\ Sums(Part(T, D, X, f, c, n, k))[n] = pow2[n]
PartsFull(T, D, X, f, c, n, m) == \A k \in 0 .. m - 1 : PartFull(T, D, X, f, c, n, k)

(* Either kind of node in a shuffle is a full tree: its units add up to 2^n.  *)
LEMMA PartSum ==
  ASSUME NEW A \in Nat, NEW B \in Nat, NEW X, NEW f \in Nat, NEW r \in Nat, NEW c \in Nat,
         NEW n \in Nat, n <= NBlocks * NThreads, c + A <= n, r < n,
         f + B <= r, NEW pl, NEW pi, Slots(pl, pi, A, B, X),
         NEW T, NEW D, Standing(T, D, f, r, c), FullBy(T, D, f, r, c, n)
  PROVE  PartsFull(T, D, X, f, c, n, A + B)
<1> SUFFICES ASSUME NEW k \in 0 .. A + B - 1
             PROVE  Part(T, D, X, f, c, n, k) \in [0 .. n - 1 -> Nat] /\ Sums(Part(T, D, X, f, c, n, k))[n] = pow2[n]
  BY SMTT(30) DEF PartsFull, PartFull
<1> DEFINE P == Part(T, D, X, f, c, n, k)
<1>0. \A i \in 0 .. c - 1 : D[i] \in Nat /\ D[i] <= n
  BY DEF Standing
<1>1. CASE X[k + 1] = X[k] /\ k - X[k] \in 0 .. B - 1
  <2>1. P = UnitsOf(T, D, c, n, f + (k - X[k]))
    BY <1>1 DEF Part
  <2>2. f + (k - X[k]) \in f .. r - 1
    BY <1>1
  <2>3. c <= n
    OBVIOUS
  <2>4. UnitsOf(T, D, c, n, f + (k - X[k])) \in [0 .. n - 1 -> Nat]
    BY <1>0, <2>3, UnitsType
  <2>5. Sums(UnitsOf(T, D, c, n, f + (k - X[k])))[n] = pow2[n]
    BY <2>2 DEF FullBy
  <2> QED BY <2>1, <2>4, <2>5
<1>2. CASE X[k + 1] = X[k] + 1 /\ X[k] \in 0 .. A - 1
  <2> DEFINE a == c + X[k]
  <2>1. X[k + 1] # X[k] /\ a \in 0 .. n - 1
    BY <1>2
  <2>2. P = [i \in 0 .. n - 1 |-> IF i = a THEN pow2[n] ELSE 0]
    BY <2>1 DEF Part
  <2>3. pow2[n] \in Nat
    <3>1. n \in 0 .. NBlocks * NThreads
      BY Powers
    <3> QED BY <3>1, Powers
  <2> HIDE DEF P, a
  <2>4. P \in [0 .. n - 1 -> Nat] /\ P[a] = pow2[n] /\ \A i \in 0 .. n - 1 : i # a => P[i] = 0
    BY <2>1, <2>2, <2>3
  <2>5. Sums(P)[n] = P[a]
    BY <2>1, <2>4, SumsSpot
  <2> QED BY <2>4, <2>5 DEF P
<1> QED BY <1>1, <1>2 DEF Slots

(* Half of a pair is one unit for each of its two halves.                     *)
LEMMA Spotted ==
  ASSUME NEW p \in Nat, NEW q \in Nat, NEW w \in Nat
  PROVE  LET u == IF q + q = p THEN w + w ELSE 0
             v == IF q + q + 1 = p THEN w + w ELSE 0
             z == IF Half(p) = q THEN w ELSE 0
         IN  z + z = u + v /\ u \in Nat /\ v \in Nat /\ z \in Nat
<1>1. Half(p) \in Nat /\ (p = Half(p) + Half(p) \/ p = Half(p) + Half(p) + 1)
  BY HalfFacts
<1>2. (Half(p) = q) <=> (q + q = p \/ q + q + 1 = p)
  <2>1. \A h \in Nat : (p = h + h \/ p = h + h + 1) => (h = q <=> (q + q = p \/ q + q + 1 = p))
    OBVIOUS
  <2> QED BY <1>1, <2>1
<1>3. ~(q + q = p /\ q + q + 1 = p)
  OBVIOUS
<1> QED BY <1>2, <1>3

(* A new root's tree is half of each of the two parts it joins.               *)
LEMMA JoinUnits ==
  ASSUME NEW A \in Nat, NEW B \in Nat, NEW X, NEW f \in Nat, NEW r \in Nat, NEW c \in Nat,
         NEW t \in Nat, A + B = t + t, NEW n \in Nat, n <= NBlocks * NThreads, c + A <= n, r < n,
         f + B <= r, NEW pl, NEW pi, Slots(pl, pi, A, B, X),
         NEW T, NEW D, NEW V, NEW E, Standing(T, D, f, r, c),
         Rejoined(T, D, V, E, pl, pi, f, r, c, A, B), NEW q \in 0 .. t - 1
  PROVE  Means(Part(T, D, X, f, c, n, q + q), Part(T, D, X, f, c, n, q + q + 1),
               UnitsOf(V, E, c + A, n, r + q), n)
<1> DEFINE G(k) == Part(T, D, X, f, c, n, k)
           U == UnitsOf(V, E, c + A, n, r + q)
<1>1. q + q \in 0 .. A + B - 1 /\ q + q + 1 \in 0 .. A + B - 1
  OBVIOUS
<1>2. ASSUME NEW i \in 0 .. n - 1, NEW p \in Nat, NEW w \in Nat,
             \A k \in 0 .. A + B - 1 : G(k)[i] = IF k = p THEN w + w ELSE 0,
             U[i] = IF Half(p) = q THEN w ELSE 0
      PROVE  /\ G(q + q)[i] \in Nat /\ G(q + q + 1)[i] \in Nat /\ U[i] \in Nat
             /\ U[i] + U[i] = G(q + q)[i] + G(q + q + 1)[i]
  <2>1. G(q + q)[i] = IF q + q = p THEN w + w ELSE 0
    BY <1>1, <1>2
  <2>2. G(q + q + 1)[i] = IF q + q + 1 = p THEN w + w ELSE 0
    BY <1>1, <1>2
  <2> DEFINE u == IF q + q = p THEN w + w ELSE 0
             v == IF q + q + 1 = p THEN w + w ELSE 0
             z == IF Half(p) = q THEN w ELSE 0
  <2>3. z + z = u + v /\ u \in Nat /\ v \in Nat /\ z \in Nat
    BY Spotted
  <2>4. G(q + q)[i] = u /\ G(q + q + 1)[i] = v /\ U[i] = z
    BY <1>2, <2>1, <2>2
  <2> HIDE DEF u, v, z, G, U
  <2> QED BY <2>3, <2>4
<1>3. ASSUME NEW i \in 0 .. n - 1, \A k \in 0 .. A + B - 1 : G(k)[i] = 0, U[i] = 0
      PROVE  /\ G(q + q)[i] \in Nat /\ G(q + q + 1)[i] \in Nat /\ U[i] \in Nat
             /\ U[i] + U[i] = G(q + q)[i] + G(q + q + 1)[i]
  <2>1. G(q + q)[i] = 0 /\ G(q + q + 1)[i] = 0
    BY <1>1, <1>3
  <2> HIDE DEF G, U
  <2> QED BY <1>3, <2>1
<1>4. ASSUME NEW k \in 0 .. A + B - 1, NEW i \in 0 .. n - 1
      PROVE  \/ /\ X[k] \in 0 .. A - 1 /\ pl[X[k]] = k
                /\ G(k)[i] = IF i = c + X[k] THEN pow2[n] ELSE 0
             \/ /\ k - X[k] \in 0 .. B - 1 /\ pi[k - X[k]] = k
                /\ G(k)[i] = IF i < c /\ T[i] = f + (k - X[k]) THEN pow2[n - D[i]] ELSE 0
  <2>1. CASE X[k + 1] = X[k] + 1 /\ X[k] \in 0 .. A - 1 /\ pl[X[k]] = k
    <3>1. X[k + 1] # X[k]
      BY <2>1
    <3> QED BY <2>1, <3>1 DEF Part
  <2>2. CASE X[k + 1] = X[k] /\ k - X[k] \in 0 .. B - 1 /\ pi[k - X[k]] = k
    BY <2>2 DEF Part, UnitsOf
  <2> QED BY <2>1, <2>2 DEF Slots
<1>5. ASSUME NEW i \in 0 .. n - 1
      PROVE  U[i] = IF i < c + A /\ V[i] = r + q THEN pow2[n - E[i]] ELSE 0
  BY DEF UnitsOf
<1>6. ASSUME NEW m \in 1 .. n PROVE pow2[m] = pow2[m - 1] + pow2[m - 1] /\ pow2[m - 1] \in Nat
  <2>1. m \in 1 .. NBlocks * NThreads /\ m - 1 \in 0 .. NBlocks * NThreads
    BY Powers
  <2> QED BY <2>1, Powers
<1> HIDE DEF G, U
<1>7. ASSUME NEW i \in 0 .. n - 1
      PROVE  /\ G(q + q)[i] \in Nat /\ G(q + q + 1)[i] \in Nat /\ U[i] \in Nat
             /\ U[i] + U[i] = G(q + q)[i] + G(q + q + 1)[i]
  <2>1. CASE ~(i < c + A)
    <3>1. U[i] = 0
      BY <1>5, <2>1
    <3>2. ASSUME NEW k \in 0 .. A + B - 1 PROVE G(k)[i] = 0
      <4>1. X[k] \in 0 .. A - 1 => i # c + X[k]
        BY <2>1
      <4>2. ~(i < c)
        BY <2>1
      <4> QED BY <1>4, <4>1, <4>2
    <3> QED BY <1>3, <3>1, <3>2
  <2>2. CASE i \in c .. c + A - 1
    <3> DEFINE x == i - c
               p == pl[x]
               w == pow2[n - 1]
    <3>1. x \in 0 .. A - 1 /\ i = c + x /\ i < c + A /\ ~(i < c)
      BY <2>2
    <3>2. V[i] = r + Half(p) /\ E[i] = 1
      BY <2>2 DEF Rejoined
    <3>3. pow2[n] = w + w /\ w \in Nat
      <4>1. n \in 1 .. n
        OBVIOUS
      <4> QED BY <1>6, <4>1
    <3> HIDE DEF x, w
    <3>4. p \in Nat /\ X[p] = x
      BY <3>1 DEF Slots
    <3> HIDE DEF p
    <3>5. ASSUME NEW k \in 0 .. A + B - 1 PROVE G(k)[i] = IF k = p THEN w + w ELSE 0
      <4>1. \/ X[k] \in 0 .. A - 1 /\ pl[X[k]] = k /\ G(k)[i] = IF i = c + X[k] THEN w + w ELSE 0
            \/ k - X[k] \in 0 .. B - 1 /\ pi[k - X[k]] = k /\ G(k)[i] = 0
        BY <1>4, <3>1, <3>3
      <4>2. CASE X[k] \in 0 .. A - 1 /\ pl[X[k]] = k /\ G(k)[i] = IF i = c + X[k] THEN w + w ELSE 0
        <5>1. (i = c + X[k]) <=> X[k] = x
          BY <3>1, <4>2
        <5>2. (X[k] = x) <=> k = p
          BY <3>4, <4>2 DEF p
        <5> QED BY <4>2, <5>1, <5>2
      <4>3. CASE k - X[k] \in 0 .. B - 1 /\ pi[k - X[k]] = k /\ G(k)[i] = 0
        <5>1. X[k + 1] = X[k]
          <6>1. k - X[k] \in 0 .. B - 1 /\ X[pi[k - X[k]] + 1] = X[pi[k - X[k]]]
            BY <4>3 DEF Slots
          <6> QED BY <4>3, <6>1
        <5>2. X[p + 1] = x + 1
          BY <3>1 DEF p, Slots
        <5>3. k # p
          BY <3>1, <3>4, <5>1, <5>2
        <5> QED BY <4>3, <5>3
      <4> QED BY <4>1, <4>2, <4>3
    <3>6. U[i] = IF Half(p) = q THEN w ELSE 0
      <4>1. Half(p) \in Nat
        BY <3>4, HalfFacts
      <4>2. (V[i] = r + q) <=> Half(p) = q
        BY <3>2, <4>1 DEF p
      <4> QED BY <1>5, <3>1, <3>2, <4>2 DEF w
    <3> QED BY <1>2, <3>3, <3>4, <3>5, <3>6
  <2>3. CASE i \in 0 .. c - 1 /\ T[i] < f + B
    <3> DEFINE y == T[i] - f
               p == pi[y]
               w == pow2[n - D[i] - 1]
    <3>0. T[i] \in f .. r - 1 /\ D[i] \in Nat \ {0} /\ D[i] <= T[i] + 1
      BY <2>3 DEF Standing
    <3>1. y \in 0 .. B - 1 /\ T[i] = f + y /\ i < c /\ i < c + A /\ n - D[i] \in 1 .. n
      BY <2>3, <3>0
    <3>2. V[i] = r + Half(p) /\ E[i] = D[i] + 1
      BY <2>3 DEF Rejoined
    <3>3. pow2[n - D[i]] = w + w /\ w \in Nat
      BY <1>6, <3>1
    <3>3a. pow2[n - E[i]] = w
      <4>1. n - E[i] = n - D[i] - 1
        BY <3>0, <3>2
      <4> QED BY <4>1
    <3> HIDE DEF y, w
    <3>4. p \in Nat /\ p - X[p] = y /\ X[p + 1] = X[p]
      BY <3>1 DEF Slots
    <3> HIDE DEF p
    <3>5. ASSUME NEW k \in 0 .. A + B - 1 PROVE G(k)[i] = IF k = p THEN w + w ELSE 0
      <4>1. \/ X[k] \in 0 .. A - 1 /\ pl[X[k]] = k /\ G(k)[i] = IF i = c + X[k] THEN pow2[n] ELSE 0
            \/ k - X[k] \in 0 .. B - 1 /\ pi[k - X[k]] = k
               /\ G(k)[i] = IF T[i] = f + (k - X[k]) THEN w + w ELSE 0
        BY <1>4, <3>1, <3>3
      <4>2. CASE X[k] \in 0 .. A - 1 /\ pl[X[k]] = k /\ G(k)[i] = IF i = c + X[k] THEN pow2[n] ELSE 0
        <5>1. i # c + X[k]
          BY <3>1, <4>2
        <5>2. X[k + 1] = X[k] + 1
          <6>1. X[pl[X[k]] + 1] = X[k] + 1
            BY <4>2 DEF Slots
          <6> QED BY <4>2, <6>1
        <5>3. k # p
          BY <3>4, <4>2, <5>2
        <5> QED BY <4>2, <5>1, <5>3
      <4>3. CASE /\ k - X[k] \in 0 .. B - 1 /\ pi[k - X[k]] = k
                 /\ G(k)[i] = IF T[i] = f + (k - X[k]) THEN w + w ELSE 0
        <5>1. (T[i] = f + (k - X[k])) <=> k - X[k] = y
          <6>1. \A z \in 0 .. B - 1 : (f + y = f + z) <=> z = y
            BY <3>1
          <6> QED BY <3>1, <4>3, <6>1
        <5>2. (k - X[k] = y) <=> k = p
          BY <3>4, <4>3 DEF p
        <5> QED BY <4>3, <5>1, <5>2
      <4> QED BY <4>1, <4>2, <4>3
    <3>6. U[i] = IF Half(p) = q THEN w ELSE 0
      <4>1. Half(p) \in Nat
        BY <3>4, HalfFacts
      <4>2. (V[i] = r + q) <=> Half(p) = q
        BY <3>2, <4>1
      <4> QED BY <1>5, <3>1, <3>3a, <4>2
    <3> QED BY <1>2, <3>3, <3>4, <3>5, <3>6
  <2>4. CASE i \in 0 .. c - 1 /\ ~(T[i] < f + B)
    <3>0. T[i] \in f .. r - 1 /\ V[i] = T[i]
      BY <2>4 DEF Standing, Rejoined
    <3>1. U[i] = 0
      <4>1. V[i] # r + q
        BY <3>0
      <4> QED BY <1>5, <4>1
    <3>2. ASSUME NEW k \in 0 .. A + B - 1 PROVE G(k)[i] = 0
      <4>1. X[k] \in 0 .. A - 1 => i # c + X[k]
        BY <2>4
      <4>2. k - X[k] \in 0 .. B - 1 => T[i] # f + (k - X[k])
        BY <2>4, <3>0
      <4> QED BY <1>4, <4>1, <4>2
    <3> QED BY <1>3, <3>1, <3>2
  <2> QED BY <2>1, <2>2, <2>3, <2>4
<1>8. Means(G(q + q), G(q + q + 1), U, n)
  BY <1>7 DEF Means
<1> QED BY <1>8 DEF G, U

(* Every root of the forest after that has a full tree.                      *)
LEMMA JoinFull ==
  ASSUME NEW A \in Nat, NEW B \in Nat, NEW X, NEW f \in Nat, NEW r \in Nat, NEW c \in Nat,
         NEW t \in Nat, A + B = t + t, NEW n \in Nat, n <= NBlocks * NThreads, c + A <= n, r + t <= n, r < n,
         f + B <= r, NEW pl, NEW pi, Slots(pl, pi, A, B, X),
         NEW T, NEW D, NEW V, NEW E, Standing(T, D, f, r, c), FullBy(T, D, f, r, c, n),
         Rejoined(T, D, V, E, pl, pi, f, r, c, A, B)
  PROVE  FullBy(V, E, f + B, r + t, c + A, n)
<1> SUFFICES ASSUME NEW j \in f + B .. r + t - 1
             PROVE  Sums(UnitsOf(V, E, c + A, n, j))[n] = pow2[n]
  BY DEF FullBy
<1>0. PartsFull(T, D, X, f, c, n, A + B)
  BY PartSum, Zenon
<1>1. /\ Standing(V, E, f + B, r + t, c + A)
      /\ \A i \in 0 .. c - 1 : T[i] < f + B => V[i] >= r
      /\ \A i \in c .. c + A - 1 : V[i] >= r
  BY JoinStands
<1>2. CASE j < r
  <2>1. ASSUME NEW i \in 0 .. n - 1
        PROVE  /\ (i < c + A /\ V[i] = j) <=> (i < c /\ T[i] = j)
               /\ i < c /\ T[i] = j => E[i] = D[i]
    <3>1. CASE i \in 0 .. c - 1
      <4>1. T[i] \in f .. r - 1 /\ V[i] \in Nat
        BY <1>1, <3>1 DEF Standing
      <4>2. CASE T[i] < f + B
        <5>1. V[i] >= r
          BY <1>1, <3>1, <4>2
        <5> QED BY <1>2, <3>1, <4>1, <4>2, <5>1
      <4>3. CASE ~(T[i] < f + B)
        <5>1. V[i] = T[i] /\ E[i] = D[i]
          BY <3>1, <4>3 DEF Rejoined
        <5> QED BY <3>1, <5>1
      <4> QED BY <4>2, <4>3
    <3>2. CASE i \in c .. c + A - 1
      <4>1. V[i] >= r /\ V[i] \in Nat
        BY <1>1, <3>2 DEF Standing
      <4> QED BY <1>2, <3>2, <4>1
    <3>3. CASE ~(i < c + A)
      BY <3>3
    <3> QED BY <3>1, <3>2, <3>3
  <2>2. UnitsOf(V, E, c + A, n, j) = UnitsOf(T, D, c, n, j)
    BY <2>1, Zenon DEF UnitsOf
  <2>3. j \in f .. r - 1
    BY <1>2
  <2> QED BY <2>2, <2>3 DEF FullBy
<1>3. CASE j >= r
  <2> DEFINE q == j - r
             a == q + q
             b == q + q + 1
             P == Part(T, D, X, f, c, n, a)
             Q == Part(T, D, X, f, c, n, b)
             U == UnitsOf(V, E, c + A, n, r + q)
  <2>1. q \in 0 .. t - 1 /\ r + q = j
    BY <1>3
  <2> HIDE DEF q
  <2>2. a \in 0 .. A + B - 1 /\ b \in 0 .. A + B - 1
    BY <2>1
  <2>3. Means(P, Q, U, n)
    BY <2>1, JoinUnits
  <2> HIDE DEF a, b
  <2>4. P \in [0 .. n - 1 -> Nat] /\ Sums(P)[n] = pow2[n]
    <3>1. PartFull(T, D, X, f, c, n, a)
      BY <1>0, <2>2 DEF PartsFull
    <3> QED BY <3>1, Zenon DEF PartFull
  <2>5. Q \in [0 .. n - 1 -> Nat] /\ Sums(Q)[n] = pow2[n]
    <3>1. PartFull(T, D, X, f, c, n, b)
      BY <1>0, <2>2 DEF PartsFull
    <3> QED BY <3>1, Zenon DEF PartFull
  <2>6. U \in [0 .. n - 1 -> Nat]
    <3>1. ASSUME NEW i \in 0 .. (c + A) - 1 PROVE E[i] \in Nat /\ E[i] <= n
      BY <1>1 DEF Standing
    <3> DEFINE m == c + A
    <3>2. m \in Nat /\ m <= n /\ \A i \in 0 .. m - 1 : E[i] \in Nat /\ E[i] <= n
      BY <3>1
    <3> HIDE DEF m
    <3>3. UnitsOf(V, E, m, n, r + q) \in [0 .. n - 1 -> Nat]
      BY <3>2, UnitsType
    <3> QED BY <3>3 DEF m
  <2> HIDE DEF P, Q, U
  <2>7. Sums(U)[n] + Sums(U)[n] = Sums(P)[n] + Sums(Q)[n]
    BY <2>3, <2>4, <2>5, <2>6, SumsMeans
  <2>8. Sums(U)[n] \in Nat
    <3>1. n \in 0 .. n
      OBVIOUS
    <3> QED BY <2>6, <3>1, SumsMono
  <2>9. pow2[n] \in Nat
    <3>1. n \in 0 .. NBlocks * NThreads
      BY Powers
    <3> QED BY <3>1, Powers
  <2>10. Sums(U)[n] = pow2[n]
    BY <2>4, <2>5, <2>7, <2>8, <2>9
  <2>11. UnitsOf(V, E, c + A, n, j) = U
    BY <2>1 DEF U
  <2> QED BY <2>10, <2>11
<1> QED BY <1>2, <1>3

(* The units of a top are those that the tops and the depths of the leaves    *)
(* give.                                                                      *)
LEMMA UnitsTops ==
  ASSUME NEW n \in Nat, NEW c \in Nat, NEW ll, NEW cl, NEW il, NEW f, NEW T, NEW D,
         Tops(T, D, ll, cl, il, f, c), NEW j
  PROVE  Units(ll, cl, il, f, c, n, j) = UnitsOf(T, D, c, n, j)
<1>1. ASSUME NEW i \in 0 .. n - 1, i < c PROVE T[i] = Top(ll, il, f, i) /\ D[i] = Depth(ll, cl, f, i)
  BY <1>1 DEF Tops
<1> QED BY <1>1, Zenon DEF Units, UnitsOf

(* So the forest keeps its shape, whatever pairs are joined.                  *)
LEMMA JoinForest ==
  ASSUME NEW A \in Nat, NEW B \in Nat, NEW X, Shuffle(X, A, B),
         NEW f \in Nat, NEW r \in Nat, NEW c \in Nat, NEW t \in Nat, A + B = t + t, NEW n \in Nat,
         n <= NBlocks * NThreads, c + A <= n, r + t <= n, r < n, f + B <= r, NEW ll, NEW cl, NEW il,
         Placed(ll, cl, il, f, r, c), Ordered(ll, cl, il, f, c), Filled(ll, cl, il, f, r, c, n),
         Raised(ll, il, f, c, f + B), Paired(ll, cl, il, f, r, c, A, B, X)
  PROVE  /\ Placed(ll, cl, il, f + B, r + t, c + A) /\ Ordered(ll, cl, il, f + B, c + A)
         /\ Filled(ll, cl, il, f + B, r + t, c + A, n)
<1> DEFINE g == f + B
           d == c + A
           T == [i \in 0 .. c - 1 |-> Top(ll, il, f, i)]
           D == [i \in 0 .. c - 1 |-> Depth(ll, cl, f, i)]
           V == [i \in 0 .. d - 1 |-> Top(ll, il, g, i)]
           E == [i \in 0 .. d - 1 |-> Depth(ll, cl, g, i)]
<1>1. PICK pl, pi : Slots(pl, pi, A, B, X)
  BY SlotsExist
<1>2. Tops(T, D, ll, cl, il, f, c) /\ Tops(V, E, ll, cl, il, g, d)
  BY DEF Tops
<1> HIDE DEF T, D, V, E
<1>3. Standing(T, D, f, r, c)
  BY <1>2, Stands
<1>4. Rejoined(T, D, V, E, pl, pi, f, r, c, A, B)
  BY <1>1, <1>2, JoinTops
<1>5. /\ Standing(V, E, g, r + t, d)
      /\ \A i \in 0 .. c - 1 : T[i] < f + B => V[i] >= r
      /\ \A i \in c .. c + A - 1 : V[i] >= r
  BY <1>1, <1>3, <1>4, JoinStands
<1>6. OrderedBy(T, D, c)
  <2> SUFFICES ASSUME NEW j \in 0 .. c - 1, NEW i \in 0 .. j
               PROVE  D[i] > D[j] \/ (D[i] = D[j] /\ T[i] <= T[j])
    BY DEF OrderedBy
  <2>1. i \in 0 .. c - 1
    OBVIOUS
  <2>2. T[i] = Top(ll, il, f, i) /\ D[i] = Depth(ll, cl, f, i) /\ T[j] = Top(ll, il, f, j) /\ D[j] = Depth(ll, cl, f, j)
    BY <1>2, <2>1 DEF Tops
  <2> QED BY <2>2 DEF Ordered
<1>7. OrderedBy(V, E, d)
  BY <1>1, <1>3, <1>4, <1>6, JoinOrder
<1>8. FullBy(T, D, f, r, c, n)
  <2> SUFFICES ASSUME NEW j \in f .. r - 1 PROVE Sums(UnitsOf(T, D, c, n, j))[n] = pow2[n]
    BY DEF FullBy
  <2>1. Units(ll, cl, il, f, c, n, j) = UnitsOf(T, D, c, n, j)
    BY <1>2, UnitsTops
  <2> QED BY <2>1 DEF Filled
<1>9. FullBy(V, E, g, r + t, d, n)
  BY <1>1, <1>3, <1>4, <1>8, JoinFull
<1>10. d \in Nat /\ g \in Nat
  OBVIOUS
<1>16. ASSUME NEW i \in 0 .. d - 1 PROVE ll[i] \in 0 .. r + t - 1 /\ cl[i] \in Nat \ {0}
  <2>1. CASE i \in 0 .. c - 1
    <3>1. ll[i] \in 0 .. r - 1 /\ cl[i] \in Nat \ {0}
      BY <2>1 DEF Placed
    <3> QED BY <3>1
  <2>2. CASE i \in c .. c + A - 1
    <3> DEFINE x == i - c
               k == pl[x]
    <3>1. x \in 0 .. A - 1 /\ c + x = i
      BY <2>2
    <3> HIDE DEF x
    <3>2. k \in 0 .. A + B - 1 /\ X[k] = x /\ X[k + 1] = x + 1
      BY <1>1, <3>1 DEF Slots
    <3> HIDE DEF k
    <3>3. ll[c + X[k]] = r + Half(k) /\ cl[c + X[k]] = 1
      BY <3>2 DEF Paired
    <3>4. Half(k) \in 0 .. t - 1
      <4>1. k \in 0 .. t + t - 1
        BY <3>2
      <4> QED BY <4>1, HalfFacts
    <3> QED BY <3>1, <3>2, <3>3, <3>4
  <2> QED BY <2>1, <2>2
<1>11. \A i \in 0 .. d - 1 : V[i] = Top(ll, il, g, i) /\ E[i] = Depth(ll, cl, g, i)
  BY <1>2 DEF Tops
<1> HIDE DEF g, d
<1>12. Placed(ll, cl, il, g, r + t, d)
  <2> DEFINE s == r + t
  <2>0. Standing(V, E, g, s, d)
    BY <1>5
  <2> HIDE DEF s
  <2>1. \A i \in 0 .. d - 1 : V[i] \in g .. s - 1 /\ E[i] <= V[i] + 1
    BY <2>0, Zenon DEF Standing
  <2>2. \A i \in 0 .. d - 1 : ll[i] \in 0 .. s - 1 /\ cl[i] \in Nat \ {0}
    BY <1>16 DEF s
  <2>3. Placed(ll, cl, il, g, s, d)
    BY <1>11, <2>1, <2>2, Zenon DEF Placed
  <2> QED BY <2>3 DEF s
<1>13. Ordered(ll, cl, il, g, d)
  <2> SUFFICES ASSUME NEW j \in 0 .. d - 1, NEW i \in 0 .. j
               PROVE  \/ Depth(ll, cl, g, i) > Depth(ll, cl, g, j)
                      \/ Depth(ll, cl, g, i) = Depth(ll, cl, g, j) /\ Top(ll, il, g, i) <= Top(ll, il, g, j)
    BY DEF Ordered
  <2>1. i \in 0 .. d - 1
    BY <1>10
  <2>2. E[i] > E[j] \/ (E[i] = E[j] /\ V[i] <= V[j])
    BY <1>7 DEF OrderedBy
  <2> QED BY <1>11, <2>1, <2>2
<1>14. Filled(ll, cl, il, g, r + t, d, n)
  <2> SUFFICES ASSUME NEW j \in g .. r + t - 1 PROVE Sums(Units(ll, cl, il, g, d, n, j))[n] = pow2[n]
    BY DEF Filled
  <2>1. Units(ll, cl, il, g, d, n, j) = UnitsOf(V, E, d, n, j)
    BY <1>2, <1>10, UnitsTops
  <2> QED BY <1>9, <2>1 DEF FullBy
<1> QED BY <1>12, <1>13, <1>14 DEF g, d

-----------------------------------------------------------------------------
(* Joining the nodes of a shuffle in pairs: the weights.                      *)

(* A new node weighs no more than the two of the shuffle that it joins.       *)
Value(fr, h, f, c, X, k) == IF X[k + 1] = X[k] THEN fr[f + (k - X[k])] ELSE h[c + X[k]]
Borne(fr, v, r, t) == \A q \in 0 .. t - 1 : fr[r + q] <= v[q + q] + v[q + q + 1]

(* So the new nodes together weigh no more than the nodes they join.          *)
LEMMA SumsPaired ==
  ASSUME NEW t \in Nat, NEW r \in Nat, NEW n \in Nat, r + t <= n, NEW F, NEW fr, Adding(F, fr, n),
         NEW V, NEW v, Adding(V, v, t + t), Borne(fr, v, r, t)
  PROVE  F[r + t] - F[r] <= V[t + t]
<1> DEFINE S == {q \in 0 .. t : F[r + q] - F[r] <= V[q + q]}
<1>1. F \in [0 .. n -> Nat] /\ V \in [0 .. t + t -> Nat] /\ V[0] = 0
  BY DEF Adding
<1>2. 0 \in S
  <2>1. r + 0 = r /\ 0 + 0 = 0 /\ r \in 0 .. n
    OBVIOUS
  <2>2. F[r] \in Nat
    BY <1>1, <2>1
  <2>3. F[r + 0] - F[r] <= V[0 + 0]
    BY <1>1, <2>1, <2>2
  <2> QED BY <2>3
<1>3. ASSUME NEW q \in 1 .. t, q - 1 \in S PROVE q \in S
  <2> DEFINE p == q - 1
             a == p + p
  <2>1. /\ p \in 0 .. t - 1 /\ r + p \in 0 .. n /\ r + q \in 1 .. n /\ (r + q) - 1 = r + p
        /\ a \in 0 .. t + t /\ a + 1 \in 1 .. t + t /\ (a + 1) - 1 = a
        /\ a + 2 \in 1 .. t + t /\ (a + 2) - 1 = a + 1 /\ q + q = a + 2 /\ r \in 0 .. n
    OBVIOUS
  <2>2. F[r + p] - F[r] <= V[a]
    BY <1>3
  <2> HIDE DEF p, a
  <2>3. fr[r + p] \in Nat /\ F[r + q] = F[r + p] + fr[r + p]
    <3>1. fr[(r + q) - 1] \in Nat /\ F[r + q] = F[(r + q) - 1] + fr[(r + q) - 1]
      BY <2>1 DEF Adding
    <3> QED BY <2>1, <3>1
  <2>4. v[a] \in Nat /\ V[a + 1] = V[a] + v[a]
    <3>1. v[(a + 1) - 1] \in Nat /\ V[a + 1] = V[(a + 1) - 1] + v[(a + 1) - 1]
      BY <2>1 DEF Adding
    <3> QED BY <2>1, <3>1
  <2>5. v[a + 1] \in Nat /\ V[a + 2] = V[a + 1] + v[a + 1]
    <3>1. v[(a + 2) - 1] \in Nat /\ V[a + 2] = V[(a + 2) - 1] + v[(a + 2) - 1]
      BY <2>1 DEF Adding
    <3> QED BY <2>1, <3>1
  <2>6. fr[r + p] <= v[a] + v[a + 1]
    <3>1. fr[r + p] <= v[p + p] + v[p + p + 1]
      BY <2>1 DEF Borne
    <3> QED BY <3>1 DEF a
  <2>7. F[r] \in Nat /\ F[r + p] \in Nat /\ F[r + q] \in Nat /\ V[a] \in Nat /\ V[a + 1] \in Nat /\ V[a + 2] \in Nat
    <3>1. F[r] \in Nat /\ F[r + p] \in Nat
      BY <1>1, <2>1
    <3>2. V[a] \in Nat
      BY <1>1, <2>1
    <3>3. V[a + 1] \in Nat
      BY <2>4, <3>2
    <3> QED BY <2>3, <2>5, <3>1, <3>2, <3>3
  <2>8. F[r + q] - F[r] <= V[a + 2]
    BY <2>2, <2>3, <2>4, <2>5, <2>6, <2>7
  <2>9. F[r + q] - F[r] <= V[q + q]
    BY <2>1, <2>8
  <2> QED BY <2>9
<1> HIDE DEF S
<1>4. \A q \in 0 .. t : q \in S
  BY <1>2, <1>3, Induct
<1>5. t \in 0 .. t
  OBVIOUS
<1> QED BY <1>4, <1>5 DEF S

Heavier(fr, h, f, r, c, X, t) ==
  \A q \in 0 .. t - 1 : fr[r + q] <= Value(fr, h, f, c, X, q + q) + Value(fr, h, f, c, X, q + q + 1)

(* Joining pairs adds nothing to the weight of the roots and of the leaves    *)
(* taken.                                                                     *)
LEMMA JoinWeights ==
  ASSUME NEW A \in Nat, NEW B \in Nat, NEW X, Shuffle(X, A, B),
         NEW f \in Nat, NEW r \in Nat, NEW c \in Nat, NEW t \in Nat, A + B = t + t, NEW n \in Nat,
         c + A <= n, r + t <= n, f + B <= r, NEW h \in [0 .. n - 1 -> Nat], NEW fr \in [0 .. n - 1 -> Nat],
         Heavier(fr, h, f, r, c, X, t)
  PROVE  Weigh(fr, f + B, r + t) + Sums(h)[c] <= Weigh(fr, f, r) + Sums(h)[c + A]
<1> DEFINE F == Sums(fr)
           H == Sums(h)
           v == [k \in 0 .. t + t - 1 |-> Value(fr, h, f, c, X, k)]
           V == Sums(v)
<1>1. ASSUME NEW k \in 0 .. t + t - 1
      PROVE  /\ Value(fr, h, f, c, X, k) \in Nat
             /\ X[k + 1] = X[k] + 1 => v[k] = h[c + X[k]]
             /\ X[k + 1] = X[k] => v[k] = fr[f + (k - X[k])]
  <2>1. k \in 0 .. A + B /\ k + 1 \in 0 .. A + B /\ k \in 0 .. A + B - 1
    OBVIOUS
  <2>2. X[k] \in 0 .. A /\ k - X[k] \in 0 .. B /\ X[k + 1] \in 0 .. A /\ (k + 1) - X[k + 1] \in 0 .. B
    BY <2>1 DEF Shuffle
  <2>3. X[k + 1] = X[k] \/ X[k + 1] = X[k] + 1
    BY <2>1 DEF Shuffle
  <2>4. CASE X[k + 1] = X[k]
    <3>0. \A z \in 0 .. B - 1 : f + z \in 0 .. n - 1
      OBVIOUS
    <3>1. k - X[k] \in 0 .. B - 1 /\ X[k + 1] # X[k] + 1
      <4>1. k \in Nat
        OBVIOUS
      <4>2. \A x \in 0 .. A : (k + 1) - x \in 0 .. B /\ k - x \in 0 .. B => k - x \in 0 .. B - 1 /\ x # x + 1
        BY <4>1
      <4> QED BY <2>2, <2>4, <4>2
    <3>2. f + (k - X[k]) \in 0 .. n - 1
      BY <3>0, <3>1
    <3> QED BY <2>4, <3>1, <3>2 DEF Value
  <2>5. CASE X[k + 1] = X[k] + 1
    <3>0. \A z \in 0 .. A - 1 : c + z \in 0 .. n - 1
      OBVIOUS
    <3>1. X[k] \in 0 .. A - 1 /\ X[k + 1] # X[k]
      <4>1. \A x \in 0 .. A : x + 1 \in 0 .. A => x \in 0 .. A - 1 /\ x # x + 1
        OBVIOUS
      <4> QED BY <2>2, <2>5, <4>1
    <3>2. c + X[k] \in 0 .. n - 1
      BY <3>0, <3>1
    <3> QED BY <2>5, <3>1, <3>2 DEF Value
  <2> QED BY <2>3, <2>4, <2>5
<1>2. v \in [0 .. t + t - 1 -> Nat]
  BY <1>1
<1>3. Shuffled(v, X, h, c, fr, f, t + t)
  BY <1>1 DEF Shuffled
<1>4. Borne(fr, v, r, t)
  <2>1. \A q \in 0 .. t - 1 : q + q \in 0 .. t + t - 1 /\ q + q + 1 \in 0 .. t + t - 1
    OBVIOUS
  <2> QED BY <2>1 DEF Heavier, Borne
<1> HIDE DEF v
<1>5. Adding(F, fr, n) /\ Adding(H, h, n) /\ Adding(V, v, t + t)
  <2>1. t + t \in Nat
    OBVIOUS
  <2>2. Adding(F, fr, n) /\ Adding(H, h, n)
    BY SumsAdd
  <2> DEFINE m == t + t
  <2> HIDE DEF F, H
  <2>3. m \in Nat /\ v \in [0 .. m - 1 -> Nat]
    BY <1>2, <2>1
  <2> HIDE DEF m
  <2>4. Adding(Sums(v), v, m)
    BY <2>3, SumsAdd
  <2> QED BY <2>2, <2>4 DEF m
<1> HIDE DEF F, H, V
<1>6. F[r + t] - F[r] <= V[t + t]
  BY <1>4, <1>5, SumsPaired
<1>7. V[A + B] = (H[c + A] - H[c]) + (F[f + B] - F[f])
  <2>1. Adding(V, v, A + B) /\ Shuffled(v, X, h, c, fr, f, A + B)
    BY <1>3, <1>5
  <2>2. f + B <= n
    OBVIOUS
  <2> QED BY <1>5, <2>1, <2>2, SumsShuffled
<1>8. /\ F[r + t] \in Nat /\ F[r] \in Nat /\ F[f] \in Nat /\ F[f + B] \in Nat
      /\ H[c] \in Nat /\ H[c + A] \in Nat
  <2>1. F \in [0 .. n -> Nat] /\ H \in [0 .. n -> Nat]
    BY <1>5 DEF Adding
  <2>2. r + t \in 0 .. n /\ r \in 0 .. n /\ f \in 0 .. n /\ f + B \in 0 .. n /\ c \in 0 .. n /\ c + A \in 0 .. n
    OBVIOUS
  <2> QED BY <2>1, <2>2
<1>9. F[r + t] - F[r] <= (H[c + A] - H[c]) + (F[f + B] - F[f])
  BY <1>6, <1>7
<1>10. (F[r + t] - F[f + B]) + H[c] <= (F[r] - F[f]) + H[c + A]
  <2>1. \A a, b, d, e, x, y \in Nat : a - b <= (y - x) + (e - d) => (a - e) + x <= (b - d) + y
    OBVIOUS
  <2> QED BY <1>8, <1>9, <2>1
<1> QED BY <1>10 DEF Weigh, F, H

-----------------------------------------------------------------------------
(* The first combination of a round, by thread 0.                             *)

(* The sorting network puts two least ones first.                            *)
Least2(mid, m, p, q) ==
  /\ p # q /\ mid[0] = m[p] /\ mid[1] = m[q] /\ m[p].freq <= m[q].freq
  /\ \A k \in 0 .. 3 : k # p /\ k # q => m[q].freq <= m[k].freq

(* One comparator of the network swaps its two nodes or leaves them.          *)
LEMMA Exchanging ==
  ASSUME NEW S, NEW m \in [0 .. 3 -> S], NEW a \in 0 .. 3, NEW b \in 0 .. 3, a # b
  PROVE  /\ Exchange(m, a, b) \in [0 .. 3 -> S]
         /\ \A k \in 0 .. 3 : k # a /\ k # b => Exchange(m, a, b)[k] = m[k]
         /\ \/ m[a].freq > m[b].freq /\ Exchange(m, a, b)[a] = m[b] /\ Exchange(m, a, b)[b] = m[a]
            \/ ~(m[a].freq > m[b].freq) /\ Exchange(m, a, b)[a] = m[a] /\ Exchange(m, a, b)[b] = m[b]
BY DEF Exchange

(* The first two of the four sorted nodes are two least ones of the four.     *)
LEMMA NetworkLeast ==
  ASSUME NEW S, NEW m \in [0 .. 3 -> S], \A s \in S : s.freq \in Nat
  PROVE  \E p, q \in 0 .. 3 : Least2(Network(m), m, p, q)
<1> DEFINE a == Exchange(m, 1, 3)
           b == Exchange(a, 0, 2)
           c == Exchange(b, 0, 1)
           d == Exchange(c, 2, 3)
           e == Exchange(d, 1, 2)
<1>1. /\ a \in [0 .. 3 -> S] /\ a[0] = m[0] /\ a[2] = m[2]
      /\ \/ m[1].freq > m[3].freq /\ a[1] = m[3] /\ a[3] = m[1]
         \/ ~(m[1].freq > m[3].freq) /\ a[1] = m[1] /\ a[3] = m[3]
  BY Exchanging
<1> HIDE DEF a
<1>2. /\ b \in [0 .. 3 -> S] /\ b[1] = a[1] /\ b[3] = a[3]
      /\ \/ a[0].freq > a[2].freq /\ b[0] = a[2] /\ b[2] = a[0]
         \/ ~(a[0].freq > a[2].freq) /\ b[0] = a[0] /\ b[2] = a[2]
  BY <1>1, Exchanging
<1> HIDE DEF b
<1>3. /\ c \in [0 .. 3 -> S] /\ c[2] = b[2] /\ c[3] = b[3]
      /\ \/ b[0].freq > b[1].freq /\ c[0] = b[1] /\ c[1] = b[0]
         \/ ~(b[0].freq > b[1].freq) /\ c[0] = b[0] /\ c[1] = b[1]
  <2>1. 0 \in 0 .. 3 /\ 1 \in 0 .. 3 /\ 0 # 1 /\ b \in [0 .. 3 -> S]
    BY <1>2
  <2>2. /\ Exchange(b, 0, 1) \in [0 .. 3 -> S]
        /\ \A k \in 0 .. 3 : k # 0 /\ k # 1 => Exchange(b, 0, 1)[k] = b[k]
        /\ \/ b[0].freq > b[1].freq /\ Exchange(b, 0, 1)[0] = b[1] /\ Exchange(b, 0, 1)[1] = b[0]
           \/ ~(b[0].freq > b[1].freq) /\ Exchange(b, 0, 1)[0] = b[0] /\ Exchange(b, 0, 1)[1] = b[1]
    BY <2>1, Exchanging
  <2> QED BY <2>2
<1> HIDE DEF c
<1>4. /\ d \in [0 .. 3 -> S] /\ d[0] = c[0] /\ d[1] = c[1]
      /\ \/ c[2].freq > c[3].freq /\ d[2] = c[3] /\ d[3] = c[2]
         \/ ~(c[2].freq > c[3].freq) /\ d[2] = c[2] /\ d[3] = c[3]
  <2>1. 2 \in 0 .. 3 /\ 3 \in 0 .. 3 /\ 2 # 3 /\ c \in [0 .. 3 -> S]
    BY <1>3
  <2>2. /\ Exchange(c, 2, 3) \in [0 .. 3 -> S]
        /\ \A k \in 0 .. 3 : k # 2 /\ k # 3 => Exchange(c, 2, 3)[k] = c[k]
        /\ \/ c[2].freq > c[3].freq /\ Exchange(c, 2, 3)[2] = c[3] /\ Exchange(c, 2, 3)[3] = c[2]
           \/ ~(c[2].freq > c[3].freq) /\ Exchange(c, 2, 3)[2] = c[2] /\ Exchange(c, 2, 3)[3] = c[3]
    BY <2>1, Exchanging
  <2> QED BY <2>2
<1> HIDE DEF d
<1>5. /\ e[0] = d[0] /\ e[3] = d[3]
      /\ \/ d[1].freq > d[2].freq /\ e[1] = d[2] /\ e[2] = d[1]
         \/ ~(d[1].freq > d[2].freq) /\ e[1] = d[1] /\ e[2] = d[2]
  BY <1>4, Exchanging
<1> HIDE DEF e
<1>6. m[0].freq \in Nat /\ m[1].freq \in Nat /\ m[2].freq \in Nat /\ m[3].freq \in Nat
  OBVIOUS
<1>7. \A k \in 0 .. 3 : k = 0 \/ k = 1 \/ k = 2 \/ k = 3
  OBVIOUS
<1>8. e = Network(m)
  BY DEF a, b, c, d, e, Network
<1> DEFINE P(p, q, r, s) == e[0] = m[p] /\ e[1] = m[q] /\ m[p].freq <= m[q].freq /\ m[q].freq <= m[r].freq /\ m[q].freq <= m[s].freq
<1>9. \/ P(0, 1, 2, 3) \/ P(0, 2, 1, 3) \/ P(0, 3, 1, 2) \/ P(1, 0, 2, 3) \/ P(1, 2, 0, 3) \/ P(1, 3, 0, 2)
      \/ P(2, 0, 1, 3) \/ P(2, 1, 0, 3) \/ P(2, 3, 0, 1) \/ P(3, 0, 1, 2) \/ P(3, 1, 0, 2) \/ P(3, 2, 0, 1)
  BY <1>1, <1>2, <1>3, <1>4, <1>5, <1>6
<1>10. ASSUME NEW p \in 0 .. 3, NEW q \in 0 .. 3, NEW r \in 0 .. 3, NEW s \in 0 .. 3,
              p # q, \A k \in 0 .. 3 : k # p /\ k # q => k = r \/ k = s, P(p, q, r, s)
       PROVE  \E u, v \in 0 .. 3 : Least2(Network(m), m, u, v)
  <2>1. Least2(e, m, p, q)
    BY <1>10 DEF Least2
  <2> QED BY <1>8, <2>1
<1> HIDE DEF P
<1> QED BY <1>7, <1>9, <1>10

(* Of a leaves and b roots at hand, at least two in all, the two least are    *)
(* taken.                                                                    *)
Hand(m, a, b, u, v, U, flag) ==
  /\ m[0] = (IF a >= 1 THEN [freq |-> u[0], leaf |-> TRUE] ELSE [freq |-> U, leaf |-> flag])
  /\ m[1] = (IF a >= 2 THEN [freq |-> u[1], leaf |-> TRUE] ELSE [freq |-> U, leaf |-> flag])
  /\ m[2] = (IF b >= 1 THEN [freq |-> v[0], leaf |-> FALSE] ELSE [freq |-> U, leaf |-> flag])
  /\ m[3] = (IF b >= 2 THEN [freq |-> v[1], leaf |-> FALSE] ELSE [freq |-> U, leaf |-> flag])
  /\ a >= 1 => u[0] \in Nat /\ u[0] < U
  /\ a >= 2 => u[1] \in Nat /\ u[1] < U /\ u[0] <= u[1]
  /\ b >= 1 => v[0] \in Nat /\ v[0] < U
  /\ b >= 2 => v[1] \in Nat /\ v[1] < U
Taken(mid, a, b, u, v, U) ==
  /\ mid[0].freq \in Nat /\ mid[1].freq \in Nat /\ mid[1].freq < U
  /\ \/ /\ mid[0].leaf = TRUE /\ mid[1].leaf = TRUE /\ a >= 2
        /\ mid[0].freq + mid[1].freq <= u[0] + u[1]
     \/ /\ (mid[0].leaf = TRUE /\ mid[1].leaf = FALSE) \/ (mid[0].leaf = FALSE /\ mid[1].leaf = TRUE)
        /\ a >= 1 /\ b >= 1
        /\ mid[0].freq + mid[1].freq <= u[0] + v[0]
     \/ /\ mid[0].leaf = FALSE /\ mid[1].leaf = FALSE /\ b >= 2
        /\ mid[0].freq + mid[1].freq <= v[0] + v[1]

(* The two least of the four nodes are nodes that are there, not the dummies. *)
LEMMA PickTwo ==
  ASSUME NEW m, NEW mid, NEW a \in 0 .. 2, NEW b \in 0 .. 2, NEW u, NEW v, NEW U \in Nat, NEW flag,
         Hand(m, a, b, u, v, U, flag), a + b >= 2,
         NEW p \in 0 .. 3, NEW q \in 0 .. 3, Least2(mid, m, p, q)
  PROVE  Taken(mid, a, b, u, v, U)
<1> DEFINE x == m[p].freq
           y == m[q].freq
<1>1. mid[0] = m[p] /\ mid[1] = m[q] /\ p # q /\ x <= y
  BY DEF Least2
<1>2. /\ a >= 1 => m[0].freq = u[0] /\ m[0].leaf = TRUE /\ u[0] \in Nat /\ u[0] < U
      /\ a >= 2 => m[1].freq = u[1] /\ m[1].leaf = TRUE /\ u[1] \in Nat /\ u[1] < U /\ u[0] <= u[1]
      /\ b >= 1 => m[2].freq = v[0] /\ m[2].leaf = FALSE /\ v[0] \in Nat /\ v[0] < U
      /\ b >= 2 => m[3].freq = v[1] /\ m[3].leaf = FALSE /\ v[1] \in Nat /\ v[1] < U
      /\ ~(a >= 1) => m[0].freq = U
      /\ ~(a >= 2) => m[1].freq = U
      /\ ~(b >= 1) => m[2].freq = U
      /\ ~(b >= 2) => m[3].freq = U
  BY DEF Hand
<1>3. m[0].freq \in Nat /\ m[1].freq \in Nat /\ m[2].freq \in Nat /\ m[3].freq \in Nat
  BY <1>2
<1>4. /\ p # 0 /\ q # 0 => y <= m[0].freq
      /\ p # 1 /\ q # 1 => y <= m[1].freq
      /\ p # 2 /\ q # 2 => y <= m[2].freq
      /\ p # 3 /\ q # 3 => y <= m[3].freq
  BY DEF Least2
<1>5. (p = 0 \/ p = 1 \/ p = 2 \/ p = 3) /\ (q = 0 \/ q = 1 \/ q = 2 \/ q = 3)
  OBVIOUS
<1>6. /\ p = 0 => x = m[0].freq /\ m[p] = m[0]
      /\ p = 1 => x = m[1].freq /\ m[p] = m[1]
      /\ p = 2 => x = m[2].freq /\ m[p] = m[2]
      /\ p = 3 => x = m[3].freq /\ m[p] = m[3]
      /\ q = 0 => y = m[0].freq /\ m[q] = m[0]
      /\ q = 1 => y = m[1].freq /\ m[q] = m[1]
      /\ q = 2 => y = m[2].freq /\ m[q] = m[2]
      /\ q = 3 => y = m[3].freq /\ m[q] = m[3]
  OBVIOUS
<1>7. x \in Nat /\ y \in Nat
  BY <1>3, <1>5, <1>6
<1>8. y < U
  BY <1>1, <1>2, <1>3, <1>4, <1>5, <1>6, <1>7
<1>9. /\ p = 0 \/ q = 0 => a >= 1
      /\ p = 1 \/ q = 1 => a >= 2
      /\ p = 2 \/ q = 2 => b >= 1
      /\ p = 3 \/ q = 3 => b >= 2
  BY <1>1, <1>2, <1>3, <1>6, <1>7, <1>8
<1>10. a >= 2 => a >= 1
  OBVIOUS
<1>11. b >= 2 => b >= 1
  OBVIOUS
<1>12. CASE p \in {0, 1} /\ q \in {0, 1}
  <2>1. mid[0].leaf = TRUE /\ mid[1].leaf = TRUE /\ a >= 2
    BY <1>1, <1>2, <1>5, <1>6, <1>9, <1>10, <1>12
  <2>2. x + y <= u[0] + u[1]
    BY <1>1, <1>2, <1>5, <1>6, <1>9, <1>10, <1>12
  <2> QED BY <1>1, <1>7, <1>8, <2>1, <2>2 DEF Taken
<1>13. CASE p \in {2, 3} /\ q \in {2, 3}
  <2>1. mid[0].leaf = FALSE /\ mid[1].leaf = FALSE /\ b >= 2
    BY <1>1, <1>2, <1>5, <1>6, <1>9, <1>11, <1>13
  <2>2. x + y <= v[0] + v[1]
    BY <1>1, <1>2, <1>5, <1>6, <1>9, <1>11, <1>13
  <2> QED BY <1>1, <1>7, <1>8, <2>1, <2>2 DEF Taken
<1>14. CASE (p \in {0, 1} /\ q \in {2, 3}) \/ (p \in {2, 3} /\ q \in {0, 1})
  <2>1. /\ (mid[0].leaf = TRUE /\ mid[1].leaf = FALSE) \/ (mid[0].leaf = FALSE /\ mid[1].leaf = TRUE)
        /\ a >= 1 /\ b >= 1
    BY <1>1, <1>2, <1>5, <1>6, <1>9, <1>10, <1>11, <1>14
  <2>2. x + y <= u[0] + v[0]
    BY <1>1, <1>2, <1>3, <1>4, <1>5, <1>6, <1>7, <1>10, <1>11, <2>1, <1>14
  <2> QED BY <1>1, <1>7, <1>8, <2>1, <2>2 DEF Taken
<1> QED BY <1>5, <1>12, <1>13, <1>14

(* One node weighs no more than the run it is in.                             *)
LEMMA SumsTerm ==
  ASSUME NEW m \in Nat, NEW f \in [0 .. m - 1 -> Nat], NEW b \in 0 .. m, NEW a \in 0 .. b, NEW j \in a .. b - 1
  PROVE  f[j] <= Weigh(f, a, b)
<1> DEFINE T == Sums(f)
<1>1. a \in 0 .. j /\ j \in 0 .. m /\ j + 1 \in 0 .. b /\ j + 1 \in 1 .. m /\ (j + 1) - 1 = j
  OBVIOUS
<1>2. T[a] <= T[j] /\ T[a] \in Nat /\ T[j] \in Nat
  BY <1>1, SumsMono
<1>3. T[j + 1] <= T[b] /\ T[b] \in Nat /\ T[j + 1] \in Nat
  BY <1>1, SumsMono
<1>4. f[j] \in Nat /\ T[j + 1] = T[j] + f[j]
  <2>1. Adding(T, f, m)
    BY SumsAdd
  <2> HIDE DEF T
  <2>2. f[(j + 1) - 1] \in Nat /\ T[j + 1] = T[(j + 1) - 1] + f[(j + 1) - 1]
    BY <1>1, <2>1 DEF Adding
  <2> QED BY <1>1, <2>2
<1> HIDE DEF T
<1>5. f[j] <= T[b] - T[a]
  BY <1>2, <1>3, <1>4
<1> QED BY <1>5 DEF Weigh, T

(* No leaf is as frequent as UINT_MAX, the frequency of a dummy.              *)
LEMMA LeafLabels ==
  ASSUME histogram \in Histograms, NEW i \in 0 .. size - 1
  PROVE  histogram[i] \in Nat /\ histogram[i] < UINT_MAX
<1> DEFINE n == size
           h == histogram
<1>1. n \in Nat /\ h \in [0 .. n - 1 -> Nat] /\ Sums(h)[n] < UINT_MAX
  BY Sizes
<1> HIDE DEF n, h
<1>2. n \in 0 .. n /\ 0 \in 0 .. n /\ i \in 0 .. n - 1
  BY <1>1 DEF n
<1>3. h[i] <= Weigh(h, 0, n)
  BY <1>1, <1>2, SumsTerm
<1>4. Sums(h)[0] \in Nat /\ Sums(h)[n] \in Nat /\ h[i] \in Nat
  BY <1>1, <1>2, SumsMono
<1>5. UINT_MAX \in Nat
  BY DEF UINT_MAX
<1>6. h[i] < UINT_MAX
  BY <1>1, <1>3, <1>4, <1>5 DEF Weigh
<1> QED BY <1>4, <1>6 DEF h

(* No root in the ring is as frequent as UINT_MAX, the frequency of a dummy.  *)
LEMMA RootLabels ==
  ASSUME histogram \in Histograms, Shapes, Ring, RestRing, RestWeights,
         NEW j \in iNodesFront .. iNodesRear - 1
  PROVE  iNodesFreq[j] \in Nat /\ iNodesFreq[j] < UINT_MAX
<1> DEFINE n == size
           h == histogram
           f == iNodesFreq
           a == iNodesFront
           b == iNodesRear
           c == lNodesCur
<1>1. n \in Nat /\ h \in [0 .. n - 1 -> Nat] /\ Sums(h)[n] < UINT_MAX
  BY Sizes
<1>2. f \in [0 .. n - 1 -> Nat] /\ b \in 0 .. n /\ a \in 0 .. b /\ c \in 0 .. n /\ j \in a .. b - 1 /\ j \in 0 .. n - 1
  <2>1. /\ size \in Nat /\ iNodesFreq \in [0 .. size - 1 -> Nat]
        /\ iNodesFront \in 0 .. size - 1 /\ iNodesRear \in 0 .. size - 1 /\ lNodesCur \in 0 .. size
    BY <1>1 DEF Shapes, Ring
  <2>2. iNodesFront <= iNodesRear
    BY <2>1 DEF RestRing
  <2>3. /\ iNodesRear \in 0 .. size /\ iNodesFront \in 0 .. iNodesRear /\ j \in 0 .. size - 1
    BY <2>1, <2>2
  <2> QED BY <2>1, <2>3
<1>3. Weigh(f, a, b) <= Sums(h)[c]
  BY DEF RestWeights
<1> HIDE DEF n, h, f, a, b, c
<1>4. f[j] <= Weigh(f, a, b)
  BY <1>1, <1>2, SumsTerm
<1>5. Sums(h)[c] <= Sums(h)[n] /\ Sums(h)[c] \in Nat /\ Sums(h)[n] \in Nat
  <2>1. n \in 0 .. n
    BY <1>1
  <2> QED BY <1>1, <1>2, <2>1, SumsMono
<1>6. Sums(f)[a] \in Nat /\ Sums(f)[b] \in Nat /\ f[j] \in Nat
  BY <1>1, <1>2, SumsMono
<1>7. UINT_MAX \in Nat
  BY DEF UINT_MAX
<1>8. f[j] < UINT_MAX
  BY <1>1, <1>3, <1>4, <1>5, <1>6, <1>7, SMTT(30) DEF Weigh
<1> QED BY <1>6, <1>8 DEF f

(* What thread 0 takes: l leaves and the other nodes from the ring.           *)
Picked(l) ==
  /\ lNodesCur + l <= size /\ iNodesFront + 2 - l <= iNodesRear
  /\ minFreq' \in Nat
  /\ minFreq' <= (IF l = 0 THEN iNodesFreq[iNodesFront + 1] ELSE histogram[lNodesCur])
                 + (IF l = 2 THEN histogram[lNodesCur + 1] ELSE iNodesFreq[iNodesFront])
  /\ iNodesFreq' = [iNodesFreq EXCEPT ![iNodesRear] = minFreq']
  /\ iNodesLeader' = [j \in DOMAIN iNodesLeader |->
       IF j \in iNodesFront .. iNodesFront + 1 - l THEN iNodesRear
       ELSE IF j = iNodesRear THEN -1 ELSE iNodesLeader[j]]
  /\ lNodesLeader' = [i \in DOMAIN lNodesLeader |->
       IF i \in lNodesCur .. lNodesCur + l - 1 THEN iNodesRear ELSE lNodesLeader[i]]
  /\ CL' = [i \in DOMAIN CL |-> IF i \in lNodesCur .. lNodesCur + l - 1 THEN CL[i] + 1 ELSE CL[i]]
  /\ lNodesCur' = lNodesCur + l /\ iNodesFront' = iNodesFront + 2 - l
  /\ iNodesSize' = iNodesRear - (iNodesFront + 2 - l) /\ iNodesRear' = iNodesRear

(* Thread 0 combines two nodes, l of them leaves.                             *)
LEMMA CombinePicks ==
  ASSUME histogram \in Histograms, size > 1, Shapes, Ring, RestRing, RestWeights, Working,
         NEW flag \in BOOLEAN, CombineTwo(flag)
  PROVE  \E l \in 0 .. 2 : Picked(l)
<1> DEFINE m == Candidates(flag)
           mid == Network(m)
           leaves == Cardinality({k \in {0, 1} : mid[k].leaf})
           a == IF lNodesCur + 1 < size THEN 2 ELSE IF lNodesCur < size THEN 1 ELSE 0
           b == IF iNodesSize >= 2 THEN 2 ELSE IF iNodesSize >= 1 THEN 1 ELSE 0
           u == [k \in {0, 1} |-> histogram[lNodesCur + k]]
           v == [k \in {0, 1} |-> iNodesFreq[iNodesFront + k]]
           sum == mid[0].freq + IF mid[1].freq < UINT_MAX THEN mid[1].freq ELSE 0
           front == MOD(iNodesFront + 2 - leaves)
<1>1. /\ size \in Nat \ {0} /\ lNodesCur \in 0 .. size /\ iNodesFront \in Nat /\ iNodesRear \in 0 .. size - 1
      /\ iNodesSize = iNodesRear - iNodesFront /\ iNodesFront <= iNodesRear
      /\ lNodesCur + iNodesFront = 2 * iNodesRear
      /\ iNodesFront < iNodesRear \/ (iNodesFront = 0 /\ iNodesRear = 0)
      /\ UINT_MAX \in Nat
  BY Sizes DEF Ring, RestRing, UINT_MAX
<1>2. a \in 0 .. 2 /\ b \in 0 .. 2 /\ a + b >= 2
  BY <1>1 DEF Working
<1>3. /\ a >= 1 <=> lNodesCur < size
      /\ a >= 2 <=> lNodesCur + 1 < size
      /\ b >= 1 <=> iNodesFront < iNodesRear
      /\ b >= 2 <=> iNodesFront + 1 < iNodesRear
      /\ b >= 1 <=> iNodesSize >= 1
      /\ b >= 2 <=> iNodesSize >= 2
  BY <1>1
<1> HIDE DEF a, b
<1>4. \A k \in 0 .. size - 1 : MOD(k) = k
  BY <1>1, ModSmall
<1>5. Hand(m, a, b, u, v, UINT_MAX, flag)
  <2>1. /\ m[0] = (IF a >= 1 THEN [freq |-> u[0], leaf |-> TRUE] ELSE [freq |-> UINT_MAX, leaf |-> flag])
        /\ m[1] = (IF a >= 2 THEN [freq |-> u[1], leaf |-> TRUE] ELSE [freq |-> UINT_MAX, leaf |-> flag])
    BY <1>1, <1>3 DEF Candidates
  <2>2. m[2] = (IF b >= 1 THEN [freq |-> v[0], leaf |-> FALSE] ELSE [freq |-> UINT_MAX, leaf |-> flag])
    <3>1. m[2] = IF iNodesSize >= 1 THEN [freq |-> iNodesFreq[MOD(iNodesFront)], leaf |-> FALSE]
                 ELSE [freq |-> UINT_MAX, leaf |-> flag]
      <4>1. iNodesFront + 2 - 2 = iNodesFront
        BY <1>1
      <4>2. m[2] = IF iNodesSize >= 2 - 1 THEN [freq |-> iNodesFreq[MOD(iNodesFront + 2 - 2)], leaf |-> FALSE]
                   ELSE [freq |-> UINT_MAX, leaf |-> flag]
        BY DEF Candidates
      <4>3. m[2] = IF iNodesSize >= 2 - 1 THEN [freq |-> iNodesFreq[MOD(iNodesFront)], leaf |-> FALSE]
                   ELSE [freq |-> UINT_MAX, leaf |-> flag]
        BY <4>1, <4>2
      <4> HIDE DEF m
      <4> QED BY <4>3
    <3>2. b >= 1 => MOD(iNodesFront) = iNodesFront
      BY <1>1, <1>3, <1>4
    <3>3. v[0] = iNodesFreq[iNodesFront]
      BY <1>1
    <3> HIDE DEF m, v
    <3> QED BY <1>3, <3>1, <3>2, <3>3
  <2>3. m[3] = (IF b >= 2 THEN [freq |-> v[1], leaf |-> FALSE] ELSE [freq |-> UINT_MAX, leaf |-> flag])
    <3>1. m[3] = IF iNodesSize >= 2 THEN [freq |-> iNodesFreq[MOD(iNodesFront + 1)], leaf |-> FALSE]
                 ELSE [freq |-> UINT_MAX, leaf |-> flag]
      <4>1. iNodesFront + 3 - 2 = iNodesFront + 1
        BY <1>1
      <4> QED BY <4>1 DEF Candidates
    <3>2. b >= 2 => MOD(iNodesFront + 1) = iNodesFront + 1
      BY <1>1, <1>3, <1>4
    <3>3. v[1] = iNodesFreq[iNodesFront + 1]
      OBVIOUS
    <3> HIDE DEF m, v
    <3> QED BY <1>3, <3>1, <3>2, <3>3
  <2>4. a >= 1 => u[0] \in Nat /\ u[0] < UINT_MAX
    <3>1. u[0] = histogram[lNodesCur]
      BY <1>1
    <3> QED BY <1>1, <1>3, <3>1, LeafLabels
  <2>5. a >= 2 => u[1] \in Nat /\ u[1] < UINT_MAX /\ u[0] <= u[1]
    <3>1. u[1] = histogram[lNodesCur + 1] /\ u[0] = histogram[lNodesCur]
      BY <1>1
    <3>2. a >= 2 => lNodesCur \in 0 .. size - 1 /\ lNodesCur + 1 \in 0 .. size - 1 /\ lNodesCur <= lNodesCur + 1
      BY <1>1, <1>3
    <3> QED BY <3>1, <3>2, LeafLabels, Sizes
  <2>6. b >= 1 => v[0] \in Nat /\ v[0] < UINT_MAX
    <3>1. v[0] = iNodesFreq[iNodesFront]
      BY <1>1
    <3>2. b >= 1 => iNodesFront \in iNodesFront .. iNodesRear - 1
      BY <1>1, <1>3
    <3> QED BY <3>1, <3>2, RootLabels
  <2>7. b >= 2 => v[1] \in Nat /\ v[1] < UINT_MAX
    <3>1. b >= 2 => iNodesFront + 1 \in iNodesFront .. iNodesRear - 1
      BY <1>1, <1>3
    <3> QED BY <3>1, RootLabels
  <2> HIDE DEF m, a, b, u, v
  <2> QED BY <2>1, <2>2, <2>3, <2>4, <2>5, <2>6, <2>7 DEF Hand
<1>6. m = [k \in 0 .. 3 |-> m[k]]
  BY DEF Candidates
<1> HIDE DEF m, u, v
<1>7. PICK p, q \in 0 .. 3 : Least2(mid, m, p, q)
  <2> DEFINE S == [freq : Nat, leaf : BOOLEAN]
  <2>1. m[0] \in S /\ m[1] \in S /\ m[2] \in S /\ m[3] \in S
    BY <1>1, <1>5 DEF Hand
  <2>2. m \in [0 .. 3 -> S]
    <3>1. \A k \in 0 .. 3 : k = 0 \/ k = 1 \/ k = 2 \/ k = 3
      OBVIOUS
    <3> HIDE DEF S
    <3> QED BY <1>6, <2>1, <3>1
  <2>3. \A s \in S : s.freq \in Nat
    OBVIOUS
  <2> HIDE DEF S
  <2> QED BY <2>2, <2>3, NetworkLeast
<1>8. Taken(mid, a, b, u, v, UINT_MAX)
  BY <1>1, <1>2, <1>5, <1>7, PickTwo
<1>9. /\ minFreq' = sum
      /\ iNodesFreq' = [iNodesFreq EXCEPT ![iNodesRear] = sum]
      /\ iNodesLeader' = [j \in DOMAIN iNodesLeader |->
           IF j \in {MOD(iNodesFront + k) : k \in 0 .. 1 - leaves} THEN iNodesRear
           ELSE IF j = iNodesRear THEN -1 ELSE iNodesLeader[j]]
      /\ lNodesLeader' = [i \in DOMAIN lNodesLeader |->
           IF i \in lNodesCur .. lNodesCur + leaves - 1 THEN iNodesRear ELSE lNodesLeader[i]]
      /\ CL' = [i \in DOMAIN CL |-> IF i \in lNodesCur .. lNodesCur + leaves - 1 THEN CL[i] + 1 ELSE CL[i]]
      /\ lNodesCur' = lNodesCur + leaves
      /\ iNodesFront' = front
      /\ iNodesSize' = MOD(iNodesRear - front)
      /\ iNodesRear' = iNodesRear
  BY DEF CombineTwo, m
<1> HIDE DEF mid
<1>10. mid[0].freq \in Nat /\ mid[1].freq \in Nat /\ sum = mid[0].freq + mid[1].freq
  BY <1>8 DEF Taken
<1>11. /\ u[0] = histogram[lNodesCur] /\ u[1] = histogram[lNodesCur + 1]
       /\ v[0] = iNodesFreq[iNodesFront] /\ v[1] = iNodesFreq[iNodesFront + 1]
  BY <1>1 DEF u, v
<1> HIDE DEF sum, leaves, front
<1>12. ASSUME NEW l \in 0 .. 2, leaves = l, a >= l, b >= 2 - l,
              sum <= (IF l = 0 THEN v[1] ELSE u[0]) + (IF l = 2 THEN u[1] ELSE v[0])
       PROVE  Picked(l)
  <2>1. lNodesCur + l <= size /\ iNodesFront + 2 - l <= iNodesRear
    BY <1>1, <1>2, <1>3, <1>12
  <2>2. front = iNodesFront + 2 - l
    BY <1>1, <1>4, <1>12, <2>1 DEF front
  <2>3. MOD(iNodesRear - front) = iNodesRear - (iNodesFront + 2 - l)
    BY <1>1, <1>4, <2>1, <2>2
  <2>4. {MOD(iNodesFront + k) : k \in 0 .. 1 - leaves} = iNodesFront .. iNodesFront + 1 - l
    <3>1. \A k \in 0 .. 1 - l : MOD(iNodesFront + k) = iNodesFront + k
      BY <1>1, <1>4, <2>1
    <3>2. \A j \in iNodesFront .. iNodesFront + 1 - l : j - iNodesFront \in 0 .. 1 - l /\ iNodesFront + (j - iNodesFront) = j
      BY <1>1
    <3>3. \A k \in 0 .. 1 - l : iNodesFront + k \in iNodesFront .. iNodesFront + 1 - l
      BY <1>1
    <3> QED BY <1>12, <3>1, <3>2, <3>3
  <2>5. sum \in Nat
    BY <1>10
  <2>6. sum <= (IF l = 0 THEN iNodesFreq[iNodesFront + 1] ELSE histogram[lNodesCur])
               + (IF l = 2 THEN histogram[lNodesCur + 1] ELSE iNodesFreq[iNodesFront])
    BY <1>11, <1>12
  <2> QED BY <1>9, <1>12, <2>1, <2>2, <2>3, <2>4, <2>5, <2>6 DEF Picked
<1>13. CASE /\ mid[0].leaf = TRUE /\ mid[1].leaf = TRUE /\ a >= 2
            /\ mid[0].freq + mid[1].freq <= u[0] + u[1]
  <2>1. {k \in {0, 1} : mid[k].leaf} = 0 .. 1
    BY <1>13
  <2>2. Cardinality(0 .. 1) = 2
    <3>1. 0 \in Int /\ 1 \in Int
      OBVIOUS
    <3>2. Cardinality(0 .. 1) = IF 0 > 1 THEN 0 ELSE 1 - 0 + 1
      BY <3>1, FS_Interval, Zenon
    <3> QED BY <3>2
  <2>3. leaves = 2
    BY <2>1, <2>2 DEF leaves
  <2>4. 2 \in 0 .. 2 /\ b >= 2 - 2
    BY <1>2
  <2> QED BY <1>10, <1>12, <1>13, <2>3, <2>4
<1>14. CASE /\ (mid[0].leaf = TRUE /\ mid[1].leaf = FALSE) \/ (mid[0].leaf = FALSE /\ mid[1].leaf = TRUE)
            /\ a >= 1 /\ b >= 1
            /\ mid[0].freq + mid[1].freq <= u[0] + v[0]
  <2>1. {k \in {0, 1} : mid[k].leaf} = {0} \/ {k \in {0, 1} : mid[k].leaf} = {1}
    BY <1>14
  <2>2. Cardinality({0}) = 1 /\ Cardinality({1}) = 1
    BY FS_Singleton
  <2>3. leaves = 1
    BY <2>1, <2>2 DEF leaves
  <2> QED BY <1>10, <1>12, <1>14, <2>3
<1>15. CASE /\ mid[0].leaf = FALSE /\ mid[1].leaf = FALSE /\ b >= 2
            /\ mid[0].freq + mid[1].freq <= v[0] + v[1]
  <2>1. {k \in {0, 1} : mid[k].leaf} = {}
    BY <1>15
  <2>2. leaves = 0
    BY <2>1, FS_EmptySet DEF leaves
  <2>3. v[0] \in Nat /\ v[1] \in Nat
    BY <1>5, <1>15, <1>2 DEF Hand
  <2>4. mid[0].freq + mid[1].freq <= v[1] + v[0]
    BY <1>15, <2>3
  <2>5. 0 \in 0 .. 2 /\ a >= 0
    BY <1>2
  <2> QED BY <1>10, <1>12, <1>15, <2>2, <2>4, <2>5
<1> QED BY <1>8, <1>13, <1>14, <1>15 DEF Taken

(* The forest is what the leaves taken, and their tops, say.                  *)
LEMMA GrownSame ==
  ASSUME NEW c \in Nat, NEW n \in Nat, NEW f, NEW r, NEW ll, NEW cl, NEW il, NEW ll2, NEW cl2, NEW il2,
         \A i \in 0 .. c - 1 : /\ ll2[i] = ll[i] /\ cl2[i] = cl[i]
                               /\ ll[i] < f => il2[ll[i]] = il[ll[i]],
         Placed(ll, cl, il, f, r, c), Ordered(ll, cl, il, f, c), Filled(ll, cl, il, f, r, c, n)
  PROVE  Placed(ll2, cl2, il2, f, r, c) /\ Ordered(ll2, cl2, il2, f, c) /\ Filled(ll2, cl2, il2, f, r, c, n)
<1>1. ASSUME NEW i \in 0 .. c - 1
      PROVE  /\ Top(ll2, il2, f, i) = Top(ll, il, f, i) /\ Depth(ll2, cl2, f, i) = Depth(ll, cl, f, i)
             /\ ll2[i] = ll[i] /\ cl2[i] = cl[i]
  BY DEF Top, Depth
<1>2. Placed(ll2, cl2, il2, f, r, c)
  BY <1>1 DEF Placed
<1>3. Ordered(ll2, cl2, il2, f, c)
  <2> SUFFICES ASSUME NEW j \in 0 .. c - 1, NEW i \in 0 .. j
               PROVE  \/ Depth(ll2, cl2, f, i) > Depth(ll2, cl2, f, j)
                      \/ Depth(ll2, cl2, f, i) = Depth(ll2, cl2, f, j) /\ Top(ll2, il2, f, i) <= Top(ll2, il2, f, j)
    BY DEF Ordered
  <2>1. i \in 0 .. c - 1
    OBVIOUS
  <2> QED BY <1>1, <2>1 DEF Ordered
<1>4. ASSUME NEW j PROVE Units(ll2, cl2, il2, f, c, n, j) = Units(ll, cl, il, f, c, n, j)
  <2>1. \A i \in 0 .. n - 1 : i < c => i \in 0 .. c - 1
    OBVIOUS
  <2> QED BY <1>1, <2>1, Zenon DEF Units
<1>5. Filled(ll2, cl2, il2, f, r, c, n)
  BY <1>4 DEF Filled
<1> QED BY <1>2, <1>3, <1>5

(* The two nodes that thread 0 combines, leaves first.                        *)
TwoWay(l) == [k \in 0 .. 2 |-> IF k <= l THEN k ELSE l]

(* Two nodes, the leaves first, are a shuffle.                                *)
LEMMA TwoWayFacts ==
  ASSUME NEW l \in 0 .. 2
  PROVE  /\ Shuffle(TwoWay(l), l, 2 - l)
         /\ TwoWay(l)[0] = 0
         /\ l = 0 => TwoWay(l)[1] = 0 /\ TwoWay(l)[2] = 0
         /\ l = 1 => TwoWay(l)[1] = 1 /\ TwoWay(l)[2] = 1
         /\ l = 2 => TwoWay(l)[1] = 1 /\ TwoWay(l)[2] = 2
<1> DEFINE X == TwoWay(l)
<1>1. /\ X[0] = 0
      /\ l = 0 => X[1] = 0 /\ X[2] = 0
      /\ l = 1 => X[1] = 1 /\ X[2] = 1
      /\ l = 2 => X[1] = 1 /\ X[2] = 2
  BY DEF TwoWay
<1> HIDE DEF X
<1>2. l + (2 - l) = 2 /\ \A k \in 0 .. 2 : k = 0 \/ k = 1 \/ k = 2
  OBVIOUS
<1>3. X[2] = l /\ X[1] \in {0, 1} /\ (X[1] = 0 => l = 0)
  BY <1>1
<1>4. \A k \in 0 .. 2 : X[k] \in 0 .. l /\ k - X[k] \in 0 .. 2 - l
  <2>1. l = 0 \/ l = 1 \/ l = 2
    OBVIOUS
  <2>2. X[0] \in 0 .. l /\ 0 - X[0] \in 0 .. 2 - l
    BY <1>1
  <2>3. X[1] \in 0 .. l /\ 1 - X[1] \in 0 .. 2 - l
    BY <1>1, <2>1
  <2>4. X[2] \in 0 .. l /\ 2 - X[2] \in 0 .. 2 - l
    BY <1>1, <2>1
  <2> QED BY <1>2, <2>2, <2>3, <2>4
<1>5. \A k \in 0 .. 1 : X[k + 1] = X[k] \/ X[k + 1] = X[k] + 1
  <2>1. l = 0 \/ l = 1 \/ l = 2
    OBVIOUS
  <2>2. X[0 + 1] = X[0] \/ X[0 + 1] = X[0] + 1
    BY <1>1, <2>1
  <2>3. X[1 + 1] = X[1] \/ X[1 + 1] = X[1] + 1
    BY <1>1, <2>1
  <2> QED BY <2>2, <2>3
<1>6. Shuffle(X, l, 2 - l)
  <2> DEFINE m == l + (2 - l)
  <2>1. m = 2 /\ m - 1 = 1
    BY <1>2
  <2>2. X[m] = l
    BY <1>3, <2>1
  <2> QED BY <1>1, <1>4, <1>5, <2>1, <2>2 DEF Shuffle
<1> QED BY <1>1, <1>6 DEF X

(* Joining them is a join of one pair.                                       *)
LEMMA PairedTwo ==
  ASSUME NEW l \in 0 .. 2, NEW ll, NEW cl, NEW il, NEW f \in Nat, NEW r \in Nat, NEW c \in Nat,
         \A i \in c .. c + l - 1 : ll[i] = r /\ cl[i] = 1,
         \A j \in f .. f + 1 - l : il[j] = r
  PROVE  Paired(ll, cl, il, f, r, c, l, 2 - l, TwoWay(l))
<1> DEFINE X == TwoWay(l)
<1>1. /\ X[0] = 0
      /\ l = 0 => X[1] = 0 /\ X[2] = 0
      /\ l = 1 => X[1] = 1 /\ X[2] = 1
      /\ l = 2 => X[1] = 1 /\ X[2] = 2
      /\ Shuffle(X, l, 2 - l)
  BY TwoWayFacts
<1> HIDE DEF X
<1>2. Half(0) = 0 /\ Half(1) = 0
  BY DEF Half
<1> SUFFICES ASSUME NEW k \in 0 .. l + (2 - l) - 1
             PROVE  /\ X[k + 1] = X[k] + 1 => ll[c + X[k]] = r + Half(k) /\ cl[c + X[k]] = 1
                    /\ X[k + 1] = X[k] => il[f + (k - X[k])] = r + Half(k)
  BY DEF Paired, X
<1>3. (k = 0 \/ k = 1) /\ r + Half(k) = r /\ (l = 0 \/ l = 1 \/ l = 2)
  BY <1>2
<1>4. ASSUME X[k + 1] = X[k] + 1 PROVE ll[c + X[k]] = r + Half(k) /\ cl[c + X[k]] = 1
  <2>1. X[k] \in 0 .. l - 1
    BY <1>1, <1>3, <1>4
  <2>2. c + X[k] \in c .. c + l - 1
    BY <2>1
  <2> QED BY <1>3, <2>2
<1>5. ASSUME X[k + 1] = X[k] PROVE il[f + (k - X[k])] = r + Half(k)
  <2>1. k - X[k] \in 0 .. 1 - l
    BY <1>1, <1>3, <1>5
  <2>2. f + (k - X[k]) \in f .. f + 1 - l
    BY <2>1
  <2> QED BY <1>3, <2>2
<1> QED BY <1>4, <1>5

(* The first combination of a round, by thread 0.                            *)
LEMMA PickedWeights ==
  ASSUME histogram \in Histograms, Shapes, Ring, RestRing, RestWeights, histogram' = histogram,
         NEW l \in 0 .. 2, Picked(l)
  PROVE  CombinedWeights'
<1> DEFINE n == size
           h == histogram
           f == iNodesFreq
           g == iNodesFreq'
           F == iNodesFront
           R == iNodesRear
           c == lNodesCur
           X == TwoWay(l)
           B == 2 - l
<1>1. n \in Nat /\ h \in [0 .. n - 1 -> Nat]
  BY Sizes
<1>2. f \in [0 .. n - 1 -> Nat] /\ R \in 0 .. n - 1 /\ F \in Nat /\ c \in Nat /\ c + l <= n /\ F + 2 - l <= R
  BY <1>1 DEF Shapes, Ring, Picked
<1>3. g = [f EXCEPT ![R] = g[R]] /\ g[R] \in Nat
  BY <1>2 DEF Picked
<1>4. g[R] <= (IF l = 0 THEN f[F + 1] ELSE h[c]) + (IF l = 2 THEN h[c + 1] ELSE f[F])
  <2>1. g[R] = minFreq'
    BY <1>2 DEF Picked
  <2> QED BY <2>1 DEF Picked
<1>5. lNodesCur' = c + l /\ iNodesFront' = F + B /\ iNodesRear' = R
  BY <1>2 DEF Picked
<1>6. Weigh(f, F, R) <= Sums(h)[c]
  BY DEF RestWeights
<1> HIDE DEF n, h, f, g, F, R, c
<1>7. g \in [0 .. n - 1 -> Nat] /\ \A j \in 0 .. R - 1 : g[j] = f[j]
  <2> DEFINE x == g[R]
  <2>1. x \in Nat /\ g = [f EXCEPT ![R] = x]
    BY <1>3
  <2> HIDE DEF x
  <2> QED BY <1>1, <1>2, <2>1
<1>8. Weigh(g, F, R) = Weigh(f, F, R)
  <2>1. R \in 0 .. n /\ F \in 0 .. R /\ R \in 0 .. R
    BY <1>1, <1>2
  <2>2. \A a \in 0 .. R : Sums(g)[a] = Sums(f)[a]
    BY <1>1, <1>2, <1>7, <2>1, SumsAgree
  <2> QED BY <2>1, <2>2 DEF Weigh
<1>9. /\ X[0] = 0
      /\ l = 0 => X[1] = 0 /\ X[2] = 0
      /\ l = 1 => X[1] = 1 /\ X[2] = 1
      /\ l = 2 => X[1] = 1 /\ X[2] = 2
      /\ Shuffle(X, l, B)
  BY TwoWayFacts
<1> HIDE DEF X
<1>10. Heavier(g, h, F, R, c, X, 1)
  <2>1. Value(g, h, F, c, X, 0) = (IF l = 0 THEN g[F] ELSE h[c])
    <3>1. X[0 + 1] = X[0] <=> l = 0
      BY <1>9
    <3>2. F + (0 - X[0]) = F /\ c + X[0] = c
      BY <1>2, <1>9
    <3> QED BY <3>1, <3>2 DEF Value
  <2>2. Value(g, h, F, c, X, 1) = (IF l = 0 THEN g[F + 1] ELSE IF l = 1 THEN g[F] ELSE h[c + 1])
    <3>0. l = 0 \/ l = 1 \/ l = 2
      OBVIOUS
    <3>1. X[1 + 1] = X[1] <=> l # 2
      BY <1>9, <3>0
    <3>2. /\ l = 0 => F + (1 - X[1]) = F + 1
          /\ l = 1 => F + (1 - X[1]) = F
          /\ l = 2 => c + X[1] = c + 1
      BY <1>2, <1>9
    <3> QED BY <3>0, <3>1, <3>2 DEF Value
  <2>3. /\ l # 2 => g[F] = f[F] /\ f[F] \in Nat
        /\ l = 0 => g[F + 1] = f[F + 1] /\ f[F + 1] \in Nat
        /\ l # 0 => h[c] \in Nat
        /\ l = 2 => h[c + 1] \in Nat
    BY <1>1, <1>2, <1>7, SMTT(30)
  <2>4. g[R] <= Value(g, h, F, c, X, 0) + Value(g, h, F, c, X, 1)
    <3>1. CASE l = 0
      BY <1>3, <1>4, <2>1, <2>2, <2>3, <3>1
    <3>2. CASE l = 1
      BY <1>4, <2>1, <2>2, <2>3, <3>2
    <3>3. CASE l = 2
      BY <1>4, <2>1, <2>2, <2>3, <3>3
    <3> QED BY <3>1, <3>2, <3>3
  <2>5. R + 0 = R /\ 0 + 0 = 0 /\ 0 + 0 + 1 = 1 /\ \A q \in 0 .. 1 - 1 : q = 0
    BY <1>2
  <2> QED BY <2>4, <2>5 DEF Heavier
<1>11. Weigh(g, F + B, R + 1) + Sums(h)[c] <= Weigh(g, F, R) + Sums(h)[c + l]
  <2>1. B \in Nat /\ l + B = 1 + 1 /\ R + 1 <= n /\ F + B <= R /\ R \in Nat /\ 1 \in Nat /\ l \in Nat
    BY <1>1, <1>2
  <2> HIDE DEF B
  <2> QED BY <1>1, <1>2, <1>7, <1>9, <1>10, <2>1, JoinWeights
<1>12. Weigh(g, F + B, R + 1) <= Sums(h)[c + l]
  <2>1. c \in 0 .. n /\ c + l \in 0 .. n /\ R \in 0 .. n /\ F \in 0 .. R /\ R + 1 \in 0 .. n /\ F + B \in 0 .. R + 1
    BY <1>1, <1>2
  <2>2. Sums(h)[c] \in Nat /\ Sums(h)[c + l] \in Nat
    <3>1. n \in 0 .. n
      BY <1>1
    <3>2. c \in 0 .. n /\ c + l \in 0 .. n
      BY <2>1
    <3>3. Sums(h)[c] \in Nat
      BY <1>1, <3>1, <3>2, SumsMono
    <3>4. Sums(h)[c + l] \in Nat
      BY <1>1, <3>1, <3>2, SumsMono
    <3> QED BY <3>3, <3>4
  <2>3. Weigh(f, F, R) \in Int
    <3>1. Sums(f)[F] \in Nat /\ Sums(f)[R] \in Nat
      BY <1>1, <1>2, <2>1, SumsMono
    <3> QED BY <3>1 DEF Weigh
  <2>4. Weigh(g, F + B, R + 1) \in Int
    <3>1. Sums(g)[F + B] \in Nat /\ Sums(g)[R + 1] \in Nat
      BY <1>1, <1>7, <2>1, SumsMono
    <3> QED BY <3>1 DEF Weigh
  <2> QED BY <1>6, <1>8, <1>11, <2>2, <2>3, <2>4
<1> QED BY <1>5, <1>12 DEF CombinedWeights, g, h

(* Combining two nodes keeps the shape of the forest.                         *)
LEMMA PickedForest ==
  ASSUME histogram \in Histograms, Shapes, Ring, RestRing, RestForest, histogram' = histogram,
         NEW l \in 0 .. 2, Picked(l)
  PROVE  CombinedForest'
<1> DEFINE n == size
           F == iNodesFront
           R == iNodesRear
           c == lNodesCur
           B == 2 - l
           ll == lNodesLeader'
           cl == CL'
           il == iNodesLeader'
<1>1. n \in Nat /\ n <= NBlocks * NThreads
  BY Sizes
<1>2. R \in 0 .. n - 1 /\ F \in Nat /\ c \in Nat /\ c + l <= n /\ F + 2 - l <= R
  BY <1>1 DEF Ring, Picked
<1>3. lNodesCur' = c + l /\ iNodesFront' = F + B /\ iNodesRear' = R /\ size' = n
  BY <1>2 DEF Picked, size
<1>4. /\ Placed(lNodesLeader, CL, iNodesLeader, F, R, c) /\ Ordered(lNodesLeader, CL, iNodesLeader, F, c)
      /\ Filled(lNodesLeader, CL, iNodesLeader, F, R, c, n)
      /\ Fresh(lNodesLeader, CL, c, n) /\ Rooted(iNodesLeader, F, R) /\ Climbed(lNodesLeader, c, F)
  BY DEF RestForest, Grown
<1>5. DOMAIN lNodesLeader = 0 .. n /\ DOMAIN CL = 0 .. n /\ DOMAIN iNodesLeader = 0 .. n - 1
  BY DEF Shapes
<1>6. /\ il = [j \in 0 .. n - 1 |-> IF j \in F .. F + 1 - l THEN R ELSE IF j = R THEN -1 ELSE iNodesLeader[j]]
      /\ ll = [i \in 0 .. n |-> IF i \in c .. c + l - 1 THEN R ELSE lNodesLeader[i]]
      /\ cl = [i \in 0 .. n |-> IF i \in c .. c + l - 1 THEN CL[i] + 1 ELSE CL[i]]
  BY <1>5 DEF Picked
<1> HIDE DEF n, F, R, c, ll, cl, il
<1>7. ASSUME NEW i \in 0 .. c - 1
      PROVE  /\ ll[i] = lNodesLeader[i] /\ cl[i] = CL[i] /\ ~(lNodesLeader[i] < F)
             /\ lNodesLeader[i] \in F .. R - 1
  <2>1. i \in 0 .. n /\ i \notin c .. c + l - 1
    BY <1>1, <1>2
  <2>2. lNodesLeader[i] >= F /\ lNodesLeader[i] \in 0 .. R - 1
    BY <1>4 DEF Climbed, Placed
  <2> QED BY <1>2, <1>6, <2>1, <2>2
<1>8. ASSUME NEW i \in c .. c + l - 1 PROVE ll[i] = R /\ cl[i] = 1
  <2>1. i \in 0 .. n /\ i \in c .. n - 1
    BY <1>1, <1>2
  <2>2. CL[i] = 0
    BY <1>4, <2>1 DEF Fresh
  <2> QED BY <1>6, <1>8, <2>1, <2>2
<1>9. ASSUME NEW j \in F .. F + 1 - l PROVE il[j] = R
  <2>1. j \in 0 .. n - 1
    BY <1>1, <1>2
  <2> QED BY <1>6, <1>9, <2>1
<1>10. Placed(ll, cl, il, F, R, c) /\ Ordered(ll, cl, il, F, c) /\ Filled(ll, cl, il, F, R, c, n)
  <2>1. \A i \in 0 .. c - 1 : /\ ll[i] = lNodesLeader[i] /\ cl[i] = CL[i]
                              /\ lNodesLeader[i] < F => il[lNodesLeader[i]] = iNodesLeader[lNodesLeader[i]]
    BY <1>7
  <2> QED BY <1>1, <1>2, <1>4, <2>1, GrownSame
<1>11. Raised(ll, il, F, c, F + B)
  BY <1>7 DEF Raised
<1>12. Paired(ll, cl, il, F, R, c, l, B, TwoWay(l))
  <2>1. R \in Nat
    BY <1>2
  <2> QED BY <1>2, <1>8, <1>9, <2>1, PairedTwo
<1>13. Shuffle(TwoWay(l), l, B)
  BY TwoWayFacts
<1>14. /\ Placed(ll, cl, il, F + B, R + 1, c + l) /\ Ordered(ll, cl, il, F + B, c + l)
       /\ Filled(ll, cl, il, F + B, R + 1, c + l, n)
  <2>1. B \in Nat /\ l + B = 1 + 1 /\ R + 1 <= n /\ R < n /\ F + B <= R /\ R \in Nat /\ 1 \in Nat /\ l \in Nat
    BY <1>1, <1>2
  <2> DEFINE X == TwoWay(l)
  <2>2. Shuffle(X, l, B) /\ Paired(ll, cl, il, F, R, c, l, B, X)
    BY <1>12, <1>13
  <2> HIDE DEF B, X
  <2> QED BY <1>1, <1>2, <1>10, <1>11, <2>1, <2>2, JoinForest
<1>15. Fresh(ll, cl, c + l, n)
  <2> SUFFICES ASSUME NEW i \in c + l .. n - 1 PROVE ll[i] = -1 /\ cl[i] = 0
    BY DEF Fresh
  <2>1. i \in 0 .. n /\ i \in c .. n - 1 /\ i \notin c .. c + l - 1
    BY <1>1, <1>2
  <2>2. lNodesLeader[i] = -1 /\ CL[i] = 0
    BY <1>4, <2>1 DEF Fresh
  <2> QED BY <1>6, <2>1, <2>2
<1>16. Rooted(il, F + B, R + 1)
  <2> SUFFICES ASSUME NEW j \in F + B .. R PROVE il[j] = -1
    BY <1>2 DEF Rooted
  <2>1. j \in 0 .. n - 1 /\ j \notin F .. F + 1 - l
    BY <1>1, <1>2
  <2>2. CASE j = R
    BY <1>6, <2>1, <2>2
  <2>3. CASE j # R
    <3>1. j \in F .. R - 1
      BY <1>2, <2>3
    <3>2. iNodesLeader[j] = -1
      BY <1>4, <3>1 DEF Rooted
    <3> QED BY <1>6, <2>1, <2>3, <3>2
  <2> QED BY <2>2, <2>3
<1>17. Raised(ll, il, F + B, c + l, R)
  <2> DEFINE e == F + B
             d == c + l
  <2>0. ASSUME NEW i \in 0 .. d - 1, ll[i] < e PROVE il[ll[i]] >= R
    <3>0. i \in 0 .. c - 1 \/ i \in c .. c + l - 1
      BY <1>2
    <3>1. CASE i \in 0 .. c - 1
      <4>1. ll[i] \in F .. R - 1
        BY <1>7, <3>1
      <4>2. ll[i] \in F .. F + 1 - l
        BY <1>2, <2>0, <4>1
      <4>3. il[ll[i]] = R
        BY <1>9, <4>2
      <4> QED BY <1>2, <4>3
    <3>2. CASE i \in c .. c + l - 1
      <4>1. ll[i] = R
        BY <1>8, <3>2
      <4> QED BY <1>2, <2>0, <4>1
    <3> QED BY <3>0, <3>1, <3>2
  <2> HIDE DEF e, d
  <2>1. Raised(ll, il, e, d, R)
    BY <2>0 DEF Raised
  <2> QED BY <2>1 DEF e, d
<1> QED BY <1>3, <1>14, <1>15, <1>16, <1>17 DEF CombinedForest, Grown, ll, cl, il

(* The combination by thread 0 keeps the invariant, and so do the other       *)
(* blocks' steps beside it.                                                   *)
LEMMA CombineStep ==
  ASSUME Places, Several, size > 1, NEW b \in Block, Combine(b)
  PROVE  Several'
<1> USE DEF Several
<1>1. /\ phase = "combine" /\ at[b] = "half" /\ phase' = "combine" /\ histogram' = histogram
      /\ at' = [at EXCEPT ![b] = "wait"] /\ curLeavesNum' = 0
      /\ mergeFront' = mergeFront /\ mergeRear' = mergeRear /\ copy' = copy /\ temp' = temp /\ path' = path
  BY DEF Combine, At, Go, merged
<1>2. /\ histogram \in Histograms /\ size \in Nat \ {0} /\ size' = size /\ at \in [Block -> {"run", "half", "wait", "exit"}]
      /\ 0 \in Block
  BY <1>1, Sizes, Blocks DEF Places, size
<1>3. Shares' /\ Melding' /\ ~Gathered' /\ ~Advanced'
  BY <1>1 DEF Shares, Melding, Gathered, Advanced
<1>4. Copying'
  BY <1>1, <1>3 DEF Copying
<1>5. CASE b # 0
  <2>1. /\ at'[0] = at[0] /\ UNCHANGED <<nodes, iters>>
    BY <1>1, <1>2, <1>5 DEF Combine
  <2>2. /\ lNodesLeader' = lNodesLeader /\ CL' = CL /\ iNodesFreq' = iNodesFreq /\ iNodesLeader' = iNodesLeader
        /\ lNodesCur' = lNodesCur /\ iNodesFront' = iNodesFront /\ iNodesRear' = iNodesRear
        /\ iNodesSize' = iNodesSize /\ minFreq' = minFreq
    BY <2>1 DEF nodes, iters
  <2>3. AtRest' = AtRest /\ Combined' = Combined
    BY <1>1, <2>1 DEF AtRest, Combined
  <2>4. Shapes'
    BY <1>1, <1>2, <2>2 DEF Shapes
  <2>5. Ring'
    <3>1. RestRing' = RestRing /\ Working' = Working
      BY <1>2, <2>2 DEF RestRing, Working
    <3>2. lNodesCur \in 0 .. size
      BY DEF Ring
    <3>3. CombinedRing => CombinedRing'
      <4>1. lNodesCur' + curLeavesNum' <= size'
        BY <1>1, <1>2, <2>2, <3>2
      <4> QED BY <1>2, <2>2, <4>1 DEF CombinedRing
    <3> QED BY <1>1, <1>2, <1>3, <2>1, <2>2, <2>3, <3>1, <3>3 DEF Ring
  <2>6. Weights'
    <3>1. RestWeights' = RestWeights /\ CombinedWeights' = CombinedWeights
      BY <1>1, <2>2 DEF RestWeights, CombinedWeights
    <3> QED BY <1>3, <2>3, <3>1 DEF Weights
  <2>7. Forest'
    <3>1. RestForest' = RestForest /\ CombinedForest' = CombinedForest
      BY <1>2, <2>2 DEF RestForest, CombinedForest, Grown
    <3> QED BY <1>1, <1>3, <2>3, <3>1 DEF Forest
  <2> QED BY <1>3, <1>4, <2>4, <2>5, <2>6, <2>7
<1>6. CASE b = 0
  <2>1. PICK flag \in BOOLEAN : CombineTwo(flag)
    BY <1>6 DEF Combine
  <2>2. AtRest /\ Working /\ RestRing /\ RestWeights /\ RestForest
    BY <1>1, <1>6 DEF AtRest, Ring, Weights, Forest
  <2>3. PICK l \in 0 .. 2 : Picked(l)
    BY <1>2, <2>1, <2>2, CombinePicks
  <2>4. ~AtRest' /\ Combined' /\ at'[0] = "wait"
    BY <1>1, <1>2, <1>6 DEF AtRest, Combined
  <2>5. CombinedWeights' /\ CombinedForest'
    BY <1>1, <1>2, <2>2, <2>3, PickedWeights, PickedForest
  <2>6. Shapes'
    <3>1. /\ lNodesLeader \in [0 .. size -> Int] /\ CL \in [0 .. size -> Nat]
          /\ iNodesFreq \in [0 .. size - 1 -> Nat] /\ iNodesLeader \in [0 .. size - 1 -> Int]
      BY DEF Shapes
    <3>0. iNodesRear \in Nat
      BY <1>2 DEF Ring
    <3>2. lNodesLeader' \in [0 .. size -> Int] /\ CL' \in [0 .. size -> Nat] /\ iNodesLeader' \in [0 .. size - 1 -> Int]
      <4>1. iNodesLeader' \in [0 .. size - 1 -> Int]
        BY <2>3, <3>0, <3>1 DEF Picked
      <4>2. lNodesLeader' \in [0 .. size -> Int]
        BY <2>3, <3>0, <3>1 DEF Picked
      <4>3. CL' \in [0 .. size -> Nat]
        BY <2>3, <3>0, <3>1 DEF Picked
      <4> QED BY <4>1, <4>2, <4>3
    <3>3. iNodesFreq' \in [0 .. size - 1 -> Nat] /\ minFreq' \in Nat
      BY <2>3, <3>1 DEF Picked
    <3> QED BY <1>1, <1>2, <3>2, <3>3 DEF Shapes
  <2>7. Ring'
    <3>1. /\ lNodesCur + l <= size /\ iNodesFront + 2 - l <= iNodesRear
          /\ lNodesCur' = lNodesCur + l /\ iNodesFront' = iNodesFront + 2 - l
          /\ iNodesSize' = iNodesRear - (iNodesFront + 2 - l) /\ iNodesRear' = iNodesRear
      BY <2>3 DEF Picked
    <3>2. lNodesCur \in 0 .. size /\ iNodesFront \in 0 .. size - 1 /\ iNodesRear \in 0 .. size - 1
      BY DEF Ring
    <3>3. CombinedRing'
      BY <1>1, <1>2, <2>2, <3>1, <3>2 DEF CombinedRing, RestRing
    <3>4. lNodesCur' \in 0 .. size /\ iNodesFront' \in 0 .. size - 1 /\ iNodesRear' \in 0 .. size - 1 /\ iNodesSize' \in 0 .. size - 1
      BY <1>2, <3>1, <3>2
    <3> QED BY <1>1, <1>2, <1>3, <2>4, <3>3, <3>4 DEF Ring
  <2>8. Weights'
    BY <1>3, <2>4, <2>5 DEF Weights
  <2>9. Forest'
    BY <1>1, <1>3, <2>4, <2>5 DEF Forest
  <2> QED BY <1>3, <1>4, <2>6, <2>7, <2>8, <2>9
<1> QED BY <1>5, <1>6

-----------------------------------------------------------------------------
(* Selecting and copying the leaves to merge.                                 *)

(* A nonempty set of numbers up to n has its maximum.                         *)
LEMMA MaxIn ==
  ASSUME NEW n \in Nat, NEW S \in SUBSET (0 .. n), S # {}
  PROVE  Max(S) \in S /\ \A y \in S : y <= Max(S)
<1> DEFINE D == {d \in 0 .. n : n - d \in S}
<1>1. PICK x \in S : x \in 0 .. n
  OBVIOUS
<1>2. n - x \in D /\ D \in SUBSET Nat
  BY <1>1
<1> HIDE DEF D
<1>3. PICK d \in D : \A e \in D : d <= e
  BY <1>2, Least
<1>4. d \in 0 .. n /\ n - d \in S
  BY <1>3 DEF D
<1>5. ASSUME NEW y \in S PROVE n - d >= y
  <2>1. y \in 0 .. n /\ n - y \in 0 .. n /\ n - (n - y) = y
    OBVIOUS
  <2>2. n - y \in D
    BY <2>1 DEF D
  <2> QED BY <1>3, <1>4, <2>1, <2>2
<1>6. \E z \in S : \A y \in S : z >= y
  BY <1>4, <1>5
<1>7. Max(S) \in S /\ \A y \in S : Max(S) >= y
  <2> DEFINE P(z) == \A y \in S : z >= y
  <2>1. \E z \in S : P(z)
    BY <1>6
  <2>2. Max(S) = CHOOSE z \in S : P(z)
    BY Zenon DEF Max
  <2> HIDE DEF P
  <2>3. Max(S) \in S /\ P(Max(S))
    BY <2>1, <2>2
  <2> QED BY <2>3 DEF P
<1> QED BY <1>7

(* The leaves up to the greatest one that is small enough are small enough.   *)
LEMMA SelectMaxStep ==
  ASSUME Places, Several, NEW b \in Block, SelectMax(b)
  PROVE  Several'
<1> USE DEF Several
<1> DEFINE small == {i \in Threads(b) \cap Leaf : i >= lNodesCur /\ histogram[i] <= minFreq}
           S == {curLeavesNum} \cup {i - lNodesCur + 1 : i \in small}
<1>1. /\ phase = "select" /\ at[b] = "run" /\ phase' = "select" /\ histogram' = histogram
      /\ at' = [at EXCEPT ![b] = "half"] /\ curLeavesNum' = Max(S)
      /\ UNCHANGED nodes /\ UNCHANGED iters /\ UNCHANGED merged
  BY DEF SelectMax, At, Go
<1>2. /\ lNodesLeader' = lNodesLeader /\ CL' = CL
      /\ iNodesFreq' = iNodesFreq /\ iNodesLeader' = iNodesLeader /\ lNodesCur' = lNodesCur
      /\ iNodesFront' = iNodesFront /\ iNodesRear' = iNodesRear /\ iNodesSize' = iNodesSize
      /\ minFreq' = minFreq
      /\ mergeFront' = mergeFront /\ mergeRear' = mergeRear /\ copy' = copy /\ temp' = temp
      /\ path' = path
  BY <1>1 DEF nodes, iters, merged
<1>3. /\ histogram \in Histograms /\ size \in Nat \ {0} /\ size' = size /\ Leaf = 0 .. size - 1
      /\ at \in [Block -> {"run", "half", "wait", "exit"}]
      /\ \A i, j \in 0 .. size - 1 : i <= j => histogram[i] <= histogram[j]
      /\ \A i \in 0 .. size - 1 : histogram[i] \in Nat
  BY <1>1, Sizes DEF Places, size
<1>4. /\ lNodesCur \in 0 .. size /\ curLeavesNum \in 0 .. size /\ minFreq \in Nat
      /\ Combined /\ CombinedRing /\ lNodesCur + curLeavesNum <= size
  BY <1>1, <1>3 DEF Ring, Combined, CombinedRing, Shapes
<1>5. /\ Combined' /\ ~AtRest' /\ ~Gathered' /\ ~Advanced'
  BY <1>1 DEF Combined, AtRest, Gathered, Advanced
<1>6. S \in SUBSET (0 .. size) /\ S # {}
  BY <1>3, <1>4
<1>7. curLeavesNum' \in S /\ \A y \in S : y <= curLeavesNum'
  <2> HIDE DEF S
  <2> QED BY <1>1, <1>3, <1>6, MaxIn
<1>8. curLeavesNum' \in 0 .. size /\ curLeavesNum <= curLeavesNum'
  BY <1>6, <1>7
<1>9. curLeavesNum' = curLeavesNum \/ \E i \in small : curLeavesNum' = i - lNodesCur + 1
  BY <1>7
<1>10. lNodesCur + curLeavesNum' <= size
  BY <1>3, <1>4, <1>9
<1>11. ASSUME NEW k \in 0 .. curLeavesNum' - 1 PROVE IsSmall(lNodesCur + k)
  <2>1. CASE curLeavesNum' = curLeavesNum
    BY <1>1, <2>1 DEF Copying
  <2>2. CASE \E i \in small : curLeavesNum' = i - lNodesCur + 1
    <3>1. PICK i \in small : curLeavesNum' = i - lNodesCur + 1
      BY <2>2
    <3>2. i \in 0 .. size - 1 /\ histogram[i] <= minFreq
      BY <1>3
    <3>3. lNodesCur + k \in 0 .. size - 1 /\ lNodesCur + k <= i /\ lNodesCur <= lNodesCur + k
      <4>1. \A p, n \in Nat : \A q \in 0 .. n - 1 : \A x \in 0 .. (q - p + 1) - 1 :
              p + x \in 0 .. n - 1 /\ p + x <= q /\ p <= p + x
        OBVIOUS
      <4>2. lNodesCur \in Nat /\ size \in Nat /\ k \in 0 .. (i - lNodesCur + 1) - 1
        BY <1>3, <1>4, <3>1
      <4> HIDE DEF small, S
      <4> QED BY <3>2, <4>1, <4>2
    <3>4. histogram[lNodesCur + k] <= histogram[i] /\ histogram[i] \in Nat /\ histogram[lNodesCur + k] \in Nat
      BY <1>3, <3>2, <3>3
    <3> DEFINE j == lNodesCur + k
    <3>5. histogram[j] <= minFreq
      <4> HIDE DEF j
      <4>1. histogram[j] <= histogram[i] /\ histogram[j] \in Nat
        BY <3>4 DEF j
      <4> QED BY <1>4, <3>2, <3>4, <4>1
    <3> QED BY <3>3, <3>5 DEF IsSmall
  <2> QED BY <1>9, <2>1, <2>2
<1>12. ASSUME NEW c \in Block PROVE Selected(c)'
  <2> SUFFICES ASSUME NEW i \in Threads(c), i < size, IsSmall(i)
               PROVE  /\ at'[c] # "run" => i < lNodesCur + curLeavesNum'
                      /\ at'[c] = "wait" => copy[i - lNodesCur] = LeafNode(histogram, i)
    BY <1>1, <1>2, <1>3 DEF Selected, IsSmall
  <2>1. i \in Nat /\ lNodesCur <= i /\ histogram[i] <= minFreq
    BY Blocks DEF IsSmall
  <2>2. Selected(c)
    BY <1>1 DEF Copying
  <2>3. CASE c = b
    <3>1. i \in small
      BY <1>3, <2>1, <2>3
    <3>2. i - lNodesCur + 1 \in S
      BY <3>1
    <3>3. i - lNodesCur + 1 <= curLeavesNum'
      BY <1>7, <3>2
    <3>4. at'[c] = "half"
      BY <1>1, <1>3, <2>3
    <3>5. i < lNodesCur + curLeavesNum'
      <4>1. \A x, p, q \in Nat : x - p + 1 <= q => x < p + q
        OBVIOUS
      <4>2. lNodesCur \in Nat /\ curLeavesNum' \in Nat
        BY <1>4, <1>8
      <4> QED BY <2>1, <3>3, <4>1, <4>2
    <3> QED BY <3>4, <3>5
  <2>4. CASE c # b
    <3>1. at'[c] = at[c]
      BY <1>1, <1>3, <2>4
    <3>2. /\ at[c] # "run" => i < lNodesCur + curLeavesNum
          /\ at[c] = "wait" => copy[i - lNodesCur] = LeafNode(histogram, i)
      BY <2>2 DEF Selected
    <3> QED BY <1>4, <1>8, <2>1, <3>1, <3>2
  <2> QED BY <2>3, <2>4
<1>13. Copying'
  <2>1. \A k \in 0 .. curLeavesNum' - 1 : IsSmall(lNodesCur + k)'
    BY <1>1, <1>2, <1>11 DEF IsSmall
  <2> QED BY <1>1, <1>2, <1>5, <1>12, <2>1 DEF Copying
<1>14. Ring'
  <2>1. CombinedRing'
    BY <1>2, <1>3, <1>4, <1>10 DEF CombinedRing
  <2> QED BY <1>1, <1>2, <1>3, <1>5, <1>8, <2>1 DEF Ring
<1>15. Shapes'
  BY <1>2, <1>3 DEF Shapes
<1>16. Weights'
  <2>1. CombinedWeights'
    BY <1>1, <1>2, <1>4 DEF Weights, CombinedWeights
  <2> QED BY <1>5, <2>1 DEF Weights
<1>17. Forest'
  <2>1. CombinedForest
    BY <1>4 DEF Forest
  <2>2. CombinedForest'
    BY <1>2, <1>3, <2>1 DEF CombinedForest, Grown
  <2> QED BY <1>1, <1>5, <2>2 DEF Forest
<1>18. Shares' /\ Melding'
  BY <1>1 DEF Shares, Melding
<1> QED BY <1>13, <1>14, <1>15, <1>16, <1>17, <1>18

(* Each thread copies the leaf that it has found small enough.                *)
LEMMA SelectCopyStep ==
  ASSUME Places, Several, NEW b \in Block, SelectCopy(b)
  PROVE  Several'
<1> USE DEF Several
<1>1. /\ phase = "select" /\ at[b] = "half" /\ phase' = "select" /\ histogram' = histogram
      /\ at' = [at EXCEPT ![b] = "wait"] /\ curLeavesNum' = curLeavesNum
      /\ copy' = [k \in DOMAIN copy |->
           IF k < curLeavesNum /\ Owns(b, k)
             THEN [freq |-> histogram[lNodesCur + k], index |-> lNodesCur + k, leaf |-> TRUE]
             ELSE copy[k]]
      /\ UNCHANGED nodes /\ UNCHANGED iters
      /\ mergeFront' = mergeFront /\ mergeRear' = mergeRear /\ temp' = temp /\ path' = path
  BY DEF SelectCopy, At, Go
<1>2. /\ lNodesLeader' = lNodesLeader /\ CL' = CL
      /\ iNodesFreq' = iNodesFreq /\ iNodesLeader' = iNodesLeader /\ lNodesCur' = lNodesCur
      /\ iNodesFront' = iNodesFront /\ iNodesRear' = iNodesRear /\ iNodesSize' = iNodesSize
      /\ minFreq' = minFreq
  BY <1>1 DEF nodes, iters
<1>3. /\ histogram \in Histograms /\ size \in Nat \ {0} /\ size' = size /\ Leaf = 0 .. size - 1
      /\ at \in [Block -> {"run", "half", "wait", "exit"}]
      /\ lNodesCur \in 0 .. size /\ DOMAIN copy = 0 .. size - 1
  BY <1>1, Sizes DEF Places, size, Ring, Shapes
<1>4. Combined /\ Combined' /\ ~AtRest' /\ ~Gathered' /\ ~Advanced'
  BY <1>1 DEF Combined, AtRest, Gathered, Advanced
<1>5. ASSUME NEW c \in Block PROVE Selected(c)'
  <2> SUFFICES ASSUME NEW i \in Threads(c), i < size, IsSmall(i)
               PROVE  /\ at'[c] # "run" => i < lNodesCur + curLeavesNum
                      /\ at'[c] = "wait" => copy'[i - lNodesCur] = LeafNode(histogram, i)
    BY <1>1, <1>2, <1>3 DEF Selected, IsSmall
  <2> DEFINE k == i - lNodesCur
  <2>1. /\ i \in Nat /\ lNodesCur <= i /\ k \in 0 .. size - 1 /\ lNodesCur + k = i /\ i \in Leaf
        /\ i < lNodesCur + curLeavesNum => k < curLeavesNum
    BY <1>3, Blocks DEF IsSmall, Ring
  <2>2. Selected(c)
    BY <1>1 DEF Copying
  <2>3. /\ at[c] # "run" => i < lNodesCur + curLeavesNum
        /\ at[c] = "wait" => copy[k] = LeafNode(histogram, i)
    BY <2>2 DEF Selected
  <2> HIDE DEF k
  <2>4. CASE c = b
    <3>1. k < curLeavesNum /\ i < lNodesCur + curLeavesNum
      BY <1>1, <2>1, <2>3, <2>4
    <3>2. Owns(b, k)
      BY <2>1, <2>4 DEF Owns
    <3>3. copy'[k] = LeafNode(histogram, i)
      BY <1>1, <1>3, <2>1, <3>1, <3>2 DEF LeafNode
    <3> QED BY <3>1, <3>3 DEF k
  <2>5. CASE c # b
    <3>1. at'[c] = at[c]
      BY <1>1, <1>3, <2>5
    <3>2. ~Owns(b, k)
      <4>1. i \notin Threads(b)
        BY <2>5, Blocks
      <4> QED BY <2>1, <4>1 DEF Owns
    <3>3. copy'[k] = copy[k]
      BY <1>1, <1>3, <2>1, <3>2
    <3> QED BY <2>3, <3>1, <3>3 DEF k
  <2> QED BY <2>4, <2>5
<1>6. Copying'
  <2>1. \A k \in 0 .. curLeavesNum - 1 : IsSmall(lNodesCur + k)'
    BY <1>1, <1>2 DEF IsSmall, Copying
  <2> QED BY <1>1, <1>2, <1>4, <1>5, <2>1 DEF Copying
<1>7. Ring'
  <2>1. CombinedRing'
    BY <1>1, <1>2, <1>3, <1>4 DEF CombinedRing, Ring
  <2> QED BY <1>1, <1>2, <1>3, <1>4, <2>1 DEF Ring
<1>8. Shapes'
  <2>1. copy' = [k \in 0 .. size - 1 |-> copy'[k]]
    BY <1>1, <1>3
  <2> QED BY <1>1, <1>2, <1>3, <2>1 DEF Shapes
<1>9. Weights'
  <2>1. CombinedWeights'
    BY <1>1, <1>2, <1>4 DEF Weights, CombinedWeights
  <2> QED BY <1>4, <2>1 DEF Weights
<1>10. Forest'
  <2>1. CombinedForest
    BY <1>4 DEF Forest
  <2>2. CombinedForest'
    BY <1>2, <1>3, <2>1 DEF CombinedForest, Grown
  <2> QED BY <1>1, <1>4, <2>2 DEF Forest
<1>11. Shares' /\ Melding'
  BY <1>1 DEF Shares, Melding
<1> QED BY <1>6, <1>7, <1>8, <1>9, <1>10, <1>11

-----------------------------------------------------------------------------
(* Taking the nodes to merge, and the parents' way into the ring.             *)

(* What thread 0 takes to be merged is an even number of nodes.              *)
Taking(A, m) ==
  /\ A \in 0 .. curLeavesNum /\ m \in iNodesFront .. iNodesRear
  /\ (A + (m - iNodesFront)) % 2 = 0
  /\ mergeFront' = iNodesFront /\ mergeRear' = m /\ curLeavesNum' = A
  /\ iNodesFront' = m /\ lNodesCur' = lNodesCur + A /\ iNodesRear' = iNodesRear + 1

(* Thread 0 takes A leaves and the internal nodes up to m to be merged.       *)
LEMMA IterateTakes ==
  ASSUME histogram \in Histograms, Ring, CombinedRing, Iterate(0)
  PROVE  \E A, m : Taking(A, m)
<1> DEFINE n == size
           F == iNodesFront
           R == iNodesRear
           A == curLeavesNum
           c == lNodesCur
<1>1. n \in Nat \ {0} /\ size \in Nat \ {0}
  BY Sizes
<1>2. F \in 0 .. n - 1 /\ R \in 0 .. n - 1 /\ A \in 0 .. n /\ c \in 0 .. n
  BY DEF Ring
<1>3. c + F = 2 * R + 2 /\ iNodesSize = R - F /\ F <= R /\ c + A <= n
  BY DEF CombinedRing
<1>4. R + 1 \in 0 .. n - 1
  BY <1>1, <1>2, <1>3
<1>5. MOD(R + 1) = R + 1 /\ (R # 0 => MOD(R - 1) = R - 1)
  <2>1. R # 0 => R - 1 \in 0 .. n - 1
    BY <1>1, <1>2
  <2> QED BY <1>1, <1>4, <2>1, ModSmall
<1>6. PICK v \in Beyond : /\ mergeRear' = IF ~Even /\ OutInner(v) THEN MOD(R - 1) ELSE R
                          /\ curLeavesNum' = Merging(v)
  BY DEF Iterate
<1>7. /\ mergeFront' = F /\ iNodesFront' = mergeRear' /\ lNodesCur' = c + curLeavesNum'
      /\ iNodesRear' = R + 1
  BY <1>5 DEF Iterate
<1>8. \A x \in Nat : x % 2 \in {0, 1} /\ (x % 2 = 1 => x # 0 /\ (x - 1) % 2 = 0)
  OBVIOUS
<1>9. A + (R - F) \in Nat /\ (Even <=> (A + (R - F)) % 2 = 0)
  BY <1>2, <1>3 DEF Even
<1>10. OutInner(v) => R - F # 0
  BY <1>3 DEF OutInner
<1>11. ~OutInner(v) /\ R - F # 0 => A # 0
  BY <1>3 DEF OutInner
<1>12. Merging(v) = IF Even \/ OutInner(v) THEN A ELSE A - 1
  BY DEF Merging
<1> DEFINE x == A + (R - F)
<1> HIDE DEF n, F, R, A, c
<1>13. CASE Even
  <2>1. mergeRear' = R /\ curLeavesNum' = A
    BY <1>6, <1>12, <1>13
  <2>2. Taking(A, R)
    BY <1>2, <1>3, <1>7, <1>9, <1>13, <2>1 DEF Taking, F, R, A, c
  <2> QED BY <2>2
<1>14. CASE ~Even /\ OutInner(v)
  <2>1. R - 1 \in F .. R /\ R # 0
    BY <1>2, <1>3, <1>10, <1>14
  <2>2. mergeRear' = R - 1 /\ curLeavesNum' = A
    BY <1>5, <1>6, <1>12, <1>14, <2>1
  <2>3. (A + ((R - 1) - F)) % 2 = 0
    <3>1. x % 2 = 1
      BY <1>8, <1>9, <1>14
    <3>2. (x - 1) % 2 = 0
      BY <1>8, <1>9, <3>1
    <3>3. x - 1 = A + ((R - 1) - F)
      BY <1>2
    <3> QED BY <3>2, <3>3
  <2>4. Taking(A, R - 1)
    BY <1>2, <1>3, <1>7, <2>1, <2>2, <2>3 DEF Taking, F, R, A, c
  <2> QED BY <2>4
<1>15. CASE ~Even /\ ~OutInner(v)
  <2>1. x % 2 = 1 /\ x # 0 /\ (x - 1) % 2 = 0
    BY <1>8, <1>9, <1>15
  <2>2. A # 0
    BY <1>2, <1>11, <1>15, <2>1
  <2>3. mergeRear' = R /\ curLeavesNum' = A - 1
    BY <1>6, <1>12, <1>15
  <2>4. x - 1 = (A - 1) + (R - F) /\ A - 1 \in 0 .. A
    BY <1>2, <2>2
  <2>5. Taking(A - 1, R)
    BY <1>2, <1>3, <1>7, <2>1, <2>3, <2>4 DEF Taking, F, R, A, c
  <2> QED BY <2>5
<1> QED BY <1>13, <1>14, <1>15

(* The second part of a round begins: the nodes to merge leave the ring.      *)
LEMMA IterateStep ==
  ASSUME Places, Several, size > 1, NEW b \in Block, Iterate(b)
  PROVE  Several'
<1> USE DEF Several
<1>1. /\ b = 0 /\ phase = "iterate" /\ at[0] = "run" /\ phase' = "iterate" /\ histogram' = histogram
      /\ at' = [at EXCEPT ![0] = "wait"]
      /\ UNCHANGED nodes /\ iNodesSize' = iNodesSize /\ minFreq' = minFreq
      /\ copy' = copy /\ temp' = temp /\ path' = path
  BY DEF Iterate, At, Go
<1>2. /\ lNodesLeader' = lNodesLeader /\ CL' = CL
      /\ iNodesFreq' = iNodesFreq /\ iNodesLeader' = iNodesLeader
  BY <1>1 DEF nodes
<1>3. /\ histogram \in Histograms /\ size \in Nat \ {0} /\ size' = size
      /\ at \in [Block -> {"run", "half", "wait", "exit"}] /\ 0 \in Block
      /\ histogram \in [0 .. size - 1 -> Nat \ {0}]
  BY <1>1, Sizes, Blocks DEF Places, size
<1>4. at'[0] = "wait" /\ Combined /\ ~AtRest' /\ ~Combined' /\ Gathered' /\ ~Advanced'
  <2>1. at'[0] = "wait"
    BY <1>1, <1>3
  <2> QED BY <1>1, <2>1 DEF Combined, AtRest, Gathered, Advanced
<1>5. Ring /\ CombinedRing /\ Iterate(0)
  BY <1>1, <1>4 DEF Ring
<1>6. PICK A, m : Taking(A, m)
  BY <1>3, <1>5, IterateTakes
<1>7. /\ A \in 0 .. curLeavesNum /\ m \in iNodesFront .. iNodesRear
      /\ (A + (m - iNodesFront)) % 2 = 0
      /\ mergeFront' = iNodesFront /\ mergeRear' = m /\ curLeavesNum' = A
      /\ iNodesFront' = m /\ lNodesCur' = lNodesCur + A /\ iNodesRear' = iNodesRear + 1
  BY <1>6 DEF Taking
<1>8. /\ iNodesFront \in 0 .. size - 1 /\ iNodesRear \in 0 .. size - 1
      /\ curLeavesNum \in 0 .. size /\ lNodesCur \in 0 .. size /\ iNodesSize \in 0 .. size - 1
      /\ lNodesCur + iNodesFront = 2 * iNodesRear + 2 /\ lNodesCur + curLeavesNum <= size
      /\ iNodesFront <= iNodesRear
  BY <1>5 DEF Ring, CombinedRing
<1>9. lNodesCur' - curLeavesNum' = lNodesCur
  BY <1>7, <1>8
<1>10. Shapes'
  BY <1>1, <1>2, <1>3 DEF Shapes
<1>11. Ring'
  <2>1. AllNum' = A + (m - iNodesFront)
    BY <1>7 DEF AllNum, InnerNum
  <2>2. /\ lNodesCur' \in 0 .. size /\ curLeavesNum' \in 0 .. size
        /\ iNodesFront' \in 0 .. size - 1 /\ iNodesRear' \in 0 .. size - 1 /\ iNodesSize' \in 0 .. size - 1
        /\ mergeFront' \in 0 .. size - 1 /\ mergeRear' \in 0 .. size - 1
    BY <1>1, <1>3, <1>7, <1>8
  <2>3. AllNum' % 2 = 0
    BY <1>7, <2>1
  <2>4. lNodesCur' + iNodesFront' = 2 * iNodesRear' + AllNum'
    BY <1>3, <1>7, <1>8, <2>1
  <2>5. /\ mergeFront' <= mergeRear' /\ mergeRear' = iNodesFront' /\ iNodesFront' < iNodesRear'
        /\ curLeavesNum' <= lNodesCur'
    BY <1>3, <1>7, <1>8
  <2>6. GatheredRing'
    BY <2>3, <2>4, <2>5 DEF GatheredRing
  <2> QED BY <1>1, <1>3, <1>4, <2>2, <2>6 DEF Ring
<1>12. Copying'
  <2>1. CopiedFrom(copy, histogram, curLeavesNum, lNodesCur)
    BY <1>1 DEF Copying
  <2>2. \A k \in 0 .. A - 1 : k \in 0 .. curLeavesNum - 1
    BY <1>7, <1>8
  <2>3. CopiedFrom(copy, histogram, A, lNodesCur)
    BY <2>1, <2>2 DEF CopiedFrom
  <2>4. CopiedFrom(copy', histogram', curLeavesNum', lNodesCur' - curLeavesNum')
    BY <1>1, <1>7, <1>9, <2>3
  <2> QED BY <1>1, <1>4, <2>4 DEF Copying
<1>13. Weights'
  <2>1. CombinedWeights
    BY <1>4 DEF Weights
  <2>2. GatheredWeights'
    BY <1>1, <1>2, <1>7, <1>9, <2>1 DEF CombinedWeights, GatheredWeights
  <2> QED BY <1>4, <2>2 DEF Weights
<1>14. Forest'
  <2>1. CombinedForest
    BY <1>4 DEF Forest
  <2> DEFINE n == size
             F == iNodesFront
             R == iNodesRear
             c == lNodesCur
             ll == lNodesLeader
             cl == CL
             il == iNodesLeader
  <2>2. /\ Placed(ll, cl, il, F, R + 1, c) /\ Ordered(ll, cl, il, F, c)
        /\ Filled(ll, cl, il, F, R + 1, c, n) /\ Fresh(ll, cl, c, n)
        /\ Rooted(il, F, R + 1) /\ Raised(ll, il, F, c, R)
    BY <2>1 DEF CombinedForest, Grown
  <2>3. il \in [0 .. n - 1 -> Int] /\ R + 1 \in 0 .. n - 1 /\ F \in Nat /\ m \in Nat /\ m <= R /\ F <= m /\ R \in Nat /\ c \in Nat /\ A \in Nat
    <3>1. il \in [0 .. n - 1 -> Int]
      BY DEF Shapes
    <3>2. F \in Nat /\ m \in Nat /\ m <= R /\ F <= m /\ R \in Nat /\ c \in Nat /\ A \in Nat
      BY <1>3, <1>7, <1>8
    <3>3. R + 1 \in 0 .. n - 1
      BY <1>3, <1>8
    <3> QED BY <3>1, <3>2, <3>3
  <2>4. /\ lNodesLeader' = ll /\ CL' = cl /\ iNodesLeader' = il /\ size' = n /\ lNodesCur' = c + A
        /\ lNodesCur' - curLeavesNum' = c /\ iNodesFront' = m /\ iNodesRear' = R + 1 /\ mergeFront' = F
    BY <1>2, <1>3, <1>7, <1>9
  <2> HIDE DEF n, F, R, c, ll, cl, il
  <2>5. Fresh(ll, cl, c + A, n)
    BY <2>2, <2>3 DEF Fresh
  <2>6. Rooted(il, m, R + 1) /\ Rooted(il, F, m)
    BY <2>2, <2>3 DEF Rooted
  <2>7. Raised(ll, il, F, c, m)
    <3> SUFFICES ASSUME NEW i \in 0 .. c - 1, ll[i] < F PROVE il[ll[i]] >= m
      BY DEF Raised
    <3>0. ll[i] \in 0 .. (R + 1) - 1
      BY <2>2 DEF Placed
    <3>1. ll[i] \in 0 .. n - 1
      <4>1. n \in Nat
        BY <1>3 DEF n
      <4>2. \A x \in 0 .. (R + 1) - 1 : x \in 0 .. n - 1
        BY <2>3, <4>1
      <4> QED BY <3>0, <4>2
    <3>2. il[ll[i]] \in Int
      BY <2>3, <3>1
    <3>3. il[ll[i]] >= R
      BY <2>2 DEF Raised
    <3> QED BY <2>3, <3>2, <3>3
  <2>8. GatheredForest'
    BY <2>2, <2>4, <2>5, <2>6, <2>7 DEF GatheredForest, Grown
  <2>9. UnmeldedForest'
    BY <2>2, <2>4, <2>6 DEF UnmeldedForest
  <2> QED BY <1>1, <1>4, <2>8, <2>9 DEF Forest
<1>15. Shares' /\ Melding'
  BY <1>1 DEF Shares, Melding
<1> QED BY <1>10, <1>11, <1>12, <1>13, <1>14, <1>15

(* Melding what was merged joins the nodes of the shuffle in pairs.           *)
AllJoined(tm, ll, cl, fr, il, r, t) == \A i \in 0 .. t - 1 : Joined(tm, ll, cl, fr, il, r + i, i)

(* When all pairs are joined, the shuffle is joined in pairs, and no new node *)
(* is too heavy.                                                              *)
LEMMA JoinedPaired ==
  ASSUME NEW A \in Nat, NEW B \in Nat, NEW X, Shuffle(X, A, B),
         NEW f \in Nat, NEW r \in Nat, NEW c \in Nat, NEW t \in Nat, A + B = t + t,
         NEW tm, NEW h, NEW fr, NEW ll, NEW cl, NEW il,
         MergedFrom(tm, h, fr, c, f, X, 0, A + B), AllJoined(tm, ll, cl, fr, il, r, t),
         \A q \in 0 .. t - 1 : fr[r + q] \in Nat
  PROVE  Paired(ll, cl, il, f, r, c, A, B, X) /\ Heavier(fr, h, f, r, c, X, t)
<1>1. ASSUME NEW i \in 0 .. t - 1
      PROVE  /\ fr[r + i] = tm[i + i].freq + tm[i + i + 1].freq
             /\ Melded(tm[i + i], ll, cl, il, r + i) /\ Melded(tm[i + i + 1], ll, cl, il, r + i)
  <2>1. 2 * i = i + i /\ 2 * i + 1 = i + i + 1
    OBVIOUS
  <2>2. Joined(tm, ll, cl, fr, il, r + i, i)
    BY DEF AllJoined
  <2> QED BY <2>1, <2>2 DEF Joined
<1>2. ASSUME NEW k \in 0 .. A + B - 1 PROVE tm[k] = Whole(h, fr, c, f, X, k)
  BY DEF MergedFrom
<1>3. ASSUME NEW k \in 0 .. A + B - 1 PROVE Melded(tm[k], ll, cl, il, r + Half(k))
  <2>1. k \in Nat /\ k \in 0 .. t + t - 1
    OBVIOUS
  <2> DEFINE q == Half(k)
  <2>2. q \in 0 .. t - 1 /\ (k = q + q \/ k = q + q + 1)
    BY <2>1, HalfFacts
  <2> HIDE DEF q
  <2>3. Melded(tm[k], ll, cl, il, r + q)
    BY <1>1, <2>2
  <2> QED BY <2>3 DEF q
<1>4. Paired(ll, cl, il, f, r, c, A, B, X)
  <2> SUFFICES ASSUME NEW k \in 0 .. A + B - 1
               PROVE  /\ X[k + 1] = X[k] + 1 => ll[c + X[k]] = r + Half(k) /\ cl[c + X[k]] = 1
                      /\ X[k + 1] = X[k] => il[f + (k - X[k])] = r + Half(k)
    BY DEF Paired
  <2> DEFINE nd == Whole(h, fr, c, f, X, k)
             j == r + Half(k)
  <2>1. Melded(nd, ll, cl, il, j)
    BY <1>2, <1>3
  <2>2. X[k] \in Nat
    <3>1. k \in 0 .. A + B
      OBVIOUS
    <3> QED BY <3>1 DEF Shuffle
  <2>3. ASSUME X[k + 1] = X[k] + 1 PROVE ll[c + X[k]] = j /\ cl[c + X[k]] = 1
    <3>1. X[k + 1] # X[k]
      BY <2>2, <2>3
    <3>2. nd = LeafNode(h, c + X[k])
      BY <3>1 DEF Whole
    <3> HIDE DEF nd, j
    <3> QED BY <2>1, <3>2 DEF Melded, LeaderOf, DepthOf, LeafNode
  <2>4. ASSUME X[k + 1] = X[k] PROVE il[f + (k - X[k])] = j
    <3>2. nd = InnerNode(fr, f + (k - X[k]))
      BY <2>4 DEF Whole
    <3> HIDE DEF nd, j
    <3> QED BY <2>1, <3>2 DEF Melded, LeaderOf, DepthOf, InnerNode
  <2> QED BY <2>3, <2>4
<1>5. ASSUME NEW k \in 0 .. A + B - 1 PROVE tm[k].freq = Value(fr, h, f, c, X, k)
  <2>1. tm[k] = Whole(h, fr, c, f, X, k)
    BY <1>2
  <2> QED BY <2>1 DEF Whole, Value, LeafNode, InnerNode
<1>6. Heavier(fr, h, f, r, c, X, t)
  <2> SUFFICES ASSUME NEW q \in 0 .. t - 1
               PROVE  fr[r + q] <= Value(fr, h, f, c, X, q + q) + Value(fr, h, f, c, X, q + q + 1)
    BY DEF Heavier
  <2> DEFINE a == q + q
             v == Value(fr, h, f, c, X, a)
             w == Value(fr, h, f, c, X, a + 1)
  <2>1. a \in 0 .. A + B - 1 /\ a + 1 \in 0 .. A + B - 1
    OBVIOUS
  <2>2. fr[r + q] = tm[a].freq + tm[a + 1].freq
    BY <1>1
  <2> HIDE DEF a
  <2>3. fr[r + q] = v + w
    BY <1>5, <2>1, <2>2
  <2>4. fr[r + q] \in Nat
    OBVIOUS
  <2> HIDE DEF v, w
  <2>5. fr[r + q] <= v + w
    BY <2>3, <2>4
  <2> QED BY <2>5 DEF a, v, w
<1> QED BY <1>4, <1>6

(* The ring has room for what is merged.                                     *)
First == lNodesCur - curLeavesNum

(* The parents of the nodes to merge fit in the ring, after all that is       *)
(* there.                                                                     *)
LEMMA Room ==
  ASSUME histogram \in Histograms, Ring, GatheredRing
  PROVE  /\ size \in Nat \ {0} /\ lNodesCur \in 0 .. size /\ iNodesRear \in 0 .. size - 1
         /\ curLeavesNum \in Nat /\ InnerNum \in Nat /\ AllNum \in Nat /\ AllNum = curLeavesNum + InnerNum
         /\ Half(AllNum) \in Nat /\ AllNum = Half(AllNum) + Half(AllNum) /\ AllNum \div 2 = Half(AllNum)
         /\ iNodesRear + Half(AllNum) \in 0 .. size - 1
         /\ mergeFront \in Nat /\ mergeFront + InnerNum = iNodesFront /\ iNodesFront < iNodesRear
         /\ iNodesFront \in Nat
         /\ First \in Nat /\ First + curLeavesNum = lNodesCur
         /\ BLength = InnerNum /\ tempLength = AllNum /\ ALength = curLeavesNum
         /\ \A k \in 0 .. InnerNum : Inner(k) = mergeFront + k
         /\ \A i \in 0 .. Half(AllNum) : MOD(iNodesRear + i) = iNodesRear + i
<1> DEFINE n == size
           F == iNodesFront
           R == iNodesRear
           A == curLeavesNum
           c == lNodesCur
           m == mergeFront
           B == InnerNum
           a == AllNum
           t == Half(a)
<1>1. n \in Nat \ {0}
  BY Sizes
<1>2. /\ F \in 0 .. n - 1 /\ R \in 0 .. n - 1 /\ A \in 0 .. n /\ c \in 0 .. n /\ m \in 0 .. n - 1
      /\ mergeRear \in 0 .. n - 1
  BY DEF Ring
<1>3. m <= mergeRear /\ mergeRear = F /\ F < R /\ A <= c /\ c + F = 2 * R + a /\ a % 2 = 0
  BY DEF GatheredRing
<1>4. B = mergeRear - m /\ a = A + B
  BY DEF InnerNum, AllNum
<1>5. BLength = MOD(mergeRear - m) /\ tempLength = A + BLength /\ ALength = A /\ First = c - A
  BY DEF BLength, tempLength, ALength, First
<1>6. \A k : Inner(k) = MOD(m + k)
  BY DEF Inner
<1>7. a \div 2 = t
  BY DEF Half
<1>8. \A x \in 0 .. n - 1 : MOD(x) = x
  BY <1>1, ModSmall
<1> HIDE DEF n, F, R, A, c, m, B, a, t
<1>9. B \in 0 .. n - 1 /\ a \in Nat /\ A \in Nat /\ m + B = F /\ m \in Nat /\ F \in Nat
  BY <1>1, <1>2, <1>3, <1>4
<1>10. t \in Nat /\ a = t + t
  <2>1. a = t + t \/ a = t + t + 1
    BY <1>9, HalfFacts DEF t
  <2>2. t \in Nat
    BY <1>9, HalfFacts DEF t
  <2>3. \A x \in Nat : (x + x + 1) % 2 # 0
    OBVIOUS
  <2> QED BY <1>3, <2>1, <2>2, <2>3
<1>11. R + t \in 0 .. n - 1
  BY <1>1, <1>2, <1>3, <1>10
<1>12. BLength = B
  BY <1>4, <1>5, <1>8, <1>9
<1>13. tempLength = a
  BY <1>4, <1>5, <1>12
<1>14. ASSUME NEW k \in 0 .. B PROVE Inner(k) = m + k
  <2>1. m + k \in 0 .. n - 1
    BY <1>1, <1>2, <1>9
  <2> QED BY <1>6, <1>8, <2>1
<1>15. ASSUME NEW i \in 0 .. t PROVE MOD(R + i) = R + i
  <2>1. R + i \in 0 .. n - 1
    BY <1>1, <1>2, <1>10, <1>11
  <2> QED BY <1>8, <2>1
<1>16. First \in Nat /\ First + A = c
  BY <1>2, <1>3, <1>5, <1>9
<1> QED BY <1>1, <1>2, <1>3, <1>4, <1>5, <1>7, <1>9, <1>10, <1>11, <1>12, <1>13, <1>14, <1>15, <1>16
        DEF n, F, R, A, c, m, B, a, t

(* The parents of what was merged enter the ring.                            *)
LEMMA AdvanceStep ==
  ASSUME Places, Several, size > 1, NEW b \in Block, Advance(b)
  PROVE  Several'
<1> USE DEF Several
<1>1. /\ b = 0 /\ phase = "rear" /\ at[0] = "run" /\ phase' = "rear" /\ histogram' = histogram
      /\ at' = [at EXCEPT ![0] = "wait"]
      /\ UNCHANGED nodes /\ lNodesCur' = lNodesCur /\ iNodesFront' = iNodesFront
      /\ iNodesSize' = iNodesSize /\ minFreq' = minFreq /\ curLeavesNum' = curLeavesNum
      /\ UNCHANGED merged /\ iNodesRear' = MOD(iNodesRear + tempLength \div 2)
  BY DEF Advance, At, Go
<1>2. /\ lNodesLeader' = lNodesLeader /\ CL' = CL
      /\ iNodesFreq' = iNodesFreq /\ iNodesLeader' = iNodesLeader
      /\ mergeFront' = mergeFront /\ mergeRear' = mergeRear /\ copy' = copy /\ temp' = temp /\ path' = path
  BY <1>1 DEF nodes, merged
<1>3. /\ histogram \in Histograms /\ size \in Nat \ {0} /\ size' = size /\ size <= NBlocks * NThreads
      /\ at \in [Block -> {"run", "half", "wait", "exit"}] /\ 0 \in Block
      /\ histogram \in [0 .. size - 1 -> Nat \ {0}]
  BY <1>1, Sizes, Blocks DEF Places, size
<1>4. at'[0] = "wait" /\ Gathered /\ ~AtRest' /\ ~Combined' /\ ~Gathered' /\ Advanced'
  <2>1. at'[0] = "wait"
    BY <1>1, <1>3
  <2> QED BY <1>1, <2>1 DEF Combined, AtRest, Gathered, Advanced
<1>5. Ring /\ GatheredRing
  BY <1>4 DEF Ring
<1> DEFINE n == size
           F == iNodesFront
           R == iNodesRear
           A == curLeavesNum
           m == mergeFront
           B == InnerNum
           a == AllNum
           t == Half(a)
           c == First
           h == histogram
           fr == iNodesFreq
           ll == lNodesLeader
           cl == CL
           il == iNodesLeader
           tm == temp
           L == Led(copy, iNodesFreq, curLeavesNum, InnerNum, mergeFront)
<1>6. /\ lNodesCur \in 0 .. n /\ R \in 0 .. n - 1 /\ A \in Nat /\ B \in Nat /\ a \in Nat /\ a = A + B
      /\ t \in Nat /\ a = t + t /\ a \div 2 = t /\ R + t \in 0 .. n - 1
      /\ m \in Nat /\ m + B = F /\ F < R /\ F \in Nat /\ c \in Nat /\ c + A = lNodesCur
  BY <1>3, <1>5, Room
<1>7. iNodesRear' = R + t
  <2>1. tempLength = a /\ a \div 2 = t /\ MOD(R + t) = R + t
    <3>1. t \in 0 .. t
      BY <1>6
    <3> QED BY <1>3, <1>5, <3>1, Room
  <2> QED BY <1>1, <2>1
<1>8. Shapes'
  BY <1>1, <1>2, <1>3 DEF Shapes
<1>9. Ring'
  <2>1. lNodesCur + F = 2 * R + a
    BY <1>5 DEF GatheredRing
  <2>2. lNodesCur' + iNodesFront' = 2 * iNodesRear'
    <3>1. \A x, f, r, d, s \in Nat : x + f = 2 * r + d /\ d = s + s => x + f = 2 * (r + s)
      OBVIOUS
    <3>2. lNodesCur \in Nat /\ F \in Nat /\ R \in Nat /\ a \in Nat /\ t \in Nat /\ a = t + t
      BY <1>3, <1>6
    <3> HIDE DEF F, R, a, t
    <3>3. lNodesCur + F = 2 * (R + t)
      BY <2>1, <3>1, <3>2
    <3> QED BY <1>1, <1>7, <3>3 DEF F
  <2>3. AdvancedRing'
    BY <1>1, <1>6, <1>7, <2>2 DEF AdvancedRing
  <2>4. iNodesRear' \in 0 .. size - 1
    BY <1>6, <1>7
  <2>5. /\ lNodesCur \in 0 .. size /\ curLeavesNum \in 0 .. size
        /\ iNodesFront \in 0 .. size - 1 /\ iNodesSize \in 0 .. size - 1
        /\ mergeFront \in 0 .. size - 1 /\ mergeRear \in 0 .. size - 1
    BY DEF Ring
  <2> QED BY <1>1, <1>2, <1>3, <1>4, <2>3, <2>4, <2>5 DEF Ring
<1>10. Copying' /\ Shares' /\ Melding'
  BY <1>1, <1>4 DEF Copying, Shares, Melding
<1>11. PICK X : Goes(X, A, B, L)
  <2> HIDE DEF A, B, L
  <2> QED BY <1>6, GoesExists
<1>12. Shuffle(X, A, B)
  <2> HIDE DEF A, B, L
  <2> QED BY <1>6, <1>11, GoesShuffle
<1>13. MergedFrom(tm, h, fr, c, m, X, 0, A + B)
  <2>1. IsWay(X)
    BY <1>11 DEF IsWay
  <2>2. IsMerged(X, 0, AllNum)
    BY <1>1, <2>1 DEF Shares
  <2> QED BY <1>6, <2>2 DEF IsMerged, First
<1>14. AllJoined(tm, ll, cl, fr, il, R, t)
  <2>1. \A i \in 0 .. AllNum \div 2 - 1 : IsJoined(i)
    BY <1>1 DEF Melding
  <2> QED BY <1>6, <2>1 DEF AllJoined, IsJoined
<1>15. /\ fr \in [0 .. n - 1 -> Nat] /\ h \in [0 .. n - 1 -> Nat]
       /\ il \in [0 .. n - 1 -> Int]
  <2>1. fr \in [0 .. n - 1 -> Nat] /\ il \in [0 .. n - 1 -> Int]
    BY DEF Shapes
  <2>2. h \in [0 .. n - 1 -> Nat]
    BY <1>3
  <2> QED BY <2>1, <2>2
<1>16. Weigh(fr, m, R) <= Sums(h)[c]
  BY <1>4 DEF Weights, GatheredWeights, First
<1>17. /\ Placed(ll, cl, il, m, R, c) /\ Ordered(ll, cl, il, m, c) /\ Filled(ll, cl, il, m, R, c, n)
       /\ Fresh(ll, cl, lNodesCur, n) /\ Rooted(il, F, R) /\ Raised(ll, il, m, c, F)
  <2>1. GatheredForest
    BY <1>4 DEF Forest
  <2> QED BY <2>1 DEF GatheredForest, Grown, First
<1>18. n \in Nat \ {0} /\ n <= NBlocks * NThreads
  BY <1>3
<1>19. lNodesCur' = lNodesCur /\ iNodesFront' = F /\ ~Combined' /\ ~Gathered' /\ ~AtRest' /\ Advanced' /\ size' = n
  BY <1>1, <1>3, <1>4
<1> HIDE DEF n, F, R, A, m, B, a, t, c, h, fr, ll, cl, il, tm, L
<1>20. \A q \in 0 .. t - 1 : fr[R + q] \in Nat
  <2>1. \A q \in 0 .. t - 1 : R + q \in 0 .. n - 1
    BY <1>6, <1>18
  <2> QED BY <1>15, <2>1
<1>21. Paired(ll, cl, il, m, R, c, A, B, X) /\ Heavier(fr, h, m, R, c, X, t)
  <2>1. A + B = t + t /\ R \in Nat
    BY <1>6, <1>18
  <2> QED BY <1>6, <1>12, <1>13, <1>14, <1>20, <2>1, JoinedPaired
<1>22. Weights'
  <2>1. c + A <= n /\ R + t <= n /\ m + B <= R /\ R \in Nat /\ n \in Nat /\ A + B = t + t
    BY <1>6, <1>18
  <2>2. Weigh(fr, m + B, R + t) + Sums(h)[c] <= Weigh(fr, m, R) + Sums(h)[c + A]
    BY <1>6, <1>12, <1>15, <1>21, <2>1, JoinWeights
  <2>3. /\ c \in 0 .. n /\ c + A \in 0 .. n /\ R \in 0 .. n /\ m \in 0 .. n /\ R + t \in 0 .. n /\ m + B \in 0 .. n
        /\ n \in 0 .. n
    BY <1>6, <1>18
  <2>4. \A x \in 0 .. n : Sums(h)[x] \in Nat /\ Sums(fr)[x] \in Nat
    BY <1>15, <2>1, <2>3, SumsMono
  <2>5. Weigh(fr, m, R) \in Int /\ Weigh(fr, m + B, R + t) \in Int /\ Sums(h)[c] \in Nat /\ Sums(h)[c + A] \in Nat
    <3>1. Sums(fr)[m] \in Nat /\ Sums(fr)[R] \in Nat /\ Sums(fr)[m + B] \in Nat /\ Sums(fr)[R + t] \in Nat
      BY <2>3, <2>4
    <3>2. Sums(h)[c] \in Nat /\ Sums(h)[c + A] \in Nat
      BY <2>3, <2>4
    <3> QED BY <3>1, <3>2 DEF Weigh
  <2>6. Weigh(fr, m + B, R + t) <= Sums(h)[c + A]
    BY <1>16, <2>2, <2>5
  <2>7. RestWeights'
    BY <1>1, <1>2, <1>6, <1>7, <1>19, <2>6 DEF RestWeights, fr, h
  <2> QED BY <1>19, <2>7 DEF Weights
<1>23. Forest'
  <2>1. c + A <= n /\ R + t <= n /\ m + B <= R /\ R \in Nat /\ n \in Nat /\ A + B = t + t /\ R < n
    BY <1>6, <1>18
  <2>2. Raised(ll, il, m, c, m + B)
    BY <1>6, <1>17
  <2>3. /\ Placed(ll, cl, il, m + B, R + t, c + A) /\ Ordered(ll, cl, il, m + B, c + A)
        /\ Filled(ll, cl, il, m + B, R + t, c + A, n)
    BY <1>6, <1>12, <1>17, <1>18, <1>21, <2>1, <2>2, JoinForest
  <2>4. Rooted(il, F, R + t)
    <3> SUFFICES ASSUME NEW j \in F .. (R + t) - 1 PROVE il[j] = -1
      BY DEF Rooted
    <3>1. CASE j < R
      <4>1. j \in F .. R - 1
        BY <1>6, <2>1, <3>1
      <4> QED BY <1>17, <4>1 DEF Rooted
    <3>2. CASE ~(j < R)
      <4> DEFINE q == j - R
      <4>1. q \in 0 .. t - 1 /\ R + q = j
        BY <1>6, <2>1, <3>2
      <4> HIDE DEF q
      <4>2. Joined(tm, ll, cl, fr, il, R + q, q)
        BY <1>14, <4>1 DEF AllJoined
      <4> QED BY <4>1, <4>2 DEF Joined
    <3> QED BY <3>1, <3>2
  <2>5. AdvancedForest'
    BY <1>1, <1>2, <1>6, <1>7, <1>17, <1>19, <2>3, <2>4 DEF AdvancedForest, Grown, ll, cl, il
  <2> QED BY <1>1, <1>19, <2>5 DEF Forest
<1> QED BY <1>8, <1>9, <1>10, <1>22, <1>23

-----------------------------------------------------------------------------
(* Looking up the leaders.                                                    *)

(* The forest is what the tops and the depths of the leaves say.              *)
LEMMA GrownTops ==
  ASSUME NEW c \in Nat, NEW n \in Nat, NEW f, NEW r, NEW ll, NEW cl, NEW il, NEW ll2, NEW cl2,
         \A i \in 0 .. c - 1 : /\ Top(ll2, il, f, i) = Top(ll, il, f, i)
                               /\ Depth(ll2, cl2, f, i) = Depth(ll, cl, f, i)
                               /\ ll2[i] \in 0 .. r - 1 /\ cl2[i] \in Nat \ {0},
         Placed(ll, cl, il, f, r, c), Ordered(ll, cl, il, f, c), Filled(ll, cl, il, f, r, c, n)
  PROVE  Placed(ll2, cl2, il, f, r, c) /\ Ordered(ll2, cl2, il, f, c) /\ Filled(ll2, cl2, il, f, r, c, n)
<1>2. Placed(ll2, cl2, il, f, r, c)
  BY DEF Placed
<1>3. Ordered(ll2, cl2, il, f, c)
  <2> SUFFICES ASSUME NEW j \in 0 .. c - 1, NEW i \in 0 .. j
               PROVE  \/ Depth(ll2, cl2, f, i) > Depth(ll2, cl2, f, j)
                      \/ Depth(ll2, cl2, f, i) = Depth(ll2, cl2, f, j) /\ Top(ll2, il, f, i) <= Top(ll2, il, f, j)
    BY DEF Ordered
  <2>1. i \in 0 .. c - 1
    OBVIOUS
  <2> QED BY <2>1 DEF Ordered
<1>4. ASSUME NEW j PROVE Units(ll2, cl2, il, f, c, n, j) = Units(ll, cl, il, f, c, n, j)
  <2>1. \A i \in 0 .. n - 1 : i < c => i \in 0 .. c - 1
    OBVIOUS
  <2> QED BY <2>1, Zenon DEF Units
<1>5. Filled(ll2, cl2, il, f, r, c, n)
  BY <1>4 DEF Filled
<1> QED BY <1>2, <1>3, <1>5

(* A leaf whose root has been melded finds its new root one step up.          *)
LEMMA UpdateLeadersStep ==
  ASSUME Places, Several, size > 1, NEW b \in Block, UpdateLeaders(b)
  PROVE  Several'
<1> USE DEF Several
<1> DEFINE up == {i \in Threads(b) \cap Leaf : lNodesLeader[i] # -1 /\ iNodesLeader[lNodesLeader[i]] # -1}
<1>1. /\ phase = "leaders" /\ at[b] = "run" /\ phase' = "leaders" /\ histogram' = histogram
      /\ at' = [at EXCEPT ![b] = "wait"]
      /\ lNodesLeader' = [i \in DOMAIN lNodesLeader |->
              IF i \in up THEN iNodesLeader[lNodesLeader[i]] ELSE lNodesLeader[i]]
      /\ CL' = [i \in DOMAIN CL |-> IF i \in up THEN CL[i] + 1 ELSE CL[i]]
      /\ iNodesFreq' = iNodesFreq /\ iNodesLeader' = iNodesLeader /\ curLeavesNum' = curLeavesNum
      /\ UNCHANGED iters /\ UNCHANGED merged
  BY DEF UpdateLeaders, At, Go
<1>2. /\ lNodesCur' = lNodesCur
      /\ iNodesFront' = iNodesFront /\ iNodesRear' = iNodesRear /\ iNodesSize' = iNodesSize
      /\ minFreq' = minFreq
      /\ mergeFront' = mergeFront /\ mergeRear' = mergeRear /\ copy' = copy /\ temp' = temp
      /\ path' = path
  BY <1>1 DEF iters, merged
<1>3. /\ histogram \in Histograms /\ size \in Nat \ {0} /\ size' = size /\ Leaf = 0 .. size - 1
      /\ at \in [Block -> {"run", "half", "wait", "exit"}]
  BY <1>1, Sizes DEF Places, size
<1>4. /\ ~Combined' /\ ~AtRest' /\ ~Gathered' /\ Advanced' /\ Advanced
  BY <1>1 DEF Combined, AtRest, Gathered, Advanced
<1> DEFINE n == size
           F == iNodesFront
           R == iNodesRear
           c == lNodesCur
           ll == lNodesLeader
           cl == CL
           il == iNodesLeader
           l2 == lNodesLeader'
           c2 == CL'
<1>5. /\ F \in 0 .. n - 1 /\ R \in 0 .. n - 1 /\ c \in 0 .. n /\ n \in Nat \ {0}
  BY <1>3 DEF Ring
<1>6. ll \in [0 .. n -> Int] /\ cl \in [0 .. n -> Nat] /\ il \in [0 .. n - 1 -> Int]
  BY DEF Shapes
<1>7. /\ Placed(ll, cl, il, F, R, c) /\ Ordered(ll, cl, il, F, c) /\ Filled(ll, cl, il, F, R, c, n)
      /\ Fresh(ll, cl, c, n) /\ Rooted(il, F, R)
  BY <1>4 DEF Forest, AdvancedForest, Grown
<1>8. /\ l2 = [i \in 0 .. n |-> IF i \in up THEN il[ll[i]] ELSE ll[i]]
      /\ c2 = [i \in 0 .. n |-> IF i \in up THEN cl[i] + 1 ELSE cl[i]]
  BY <1>1, <1>6
<1>9. \A i : i \in up <=> i \in Threads(b) /\ i \in 0 .. n - 1 /\ ll[i] # -1 /\ il[ll[i]] # -1
  BY <1>3
<1> HIDE DEF up, n, F, R, c, ll, cl, il, l2, c2
<1>10. ASSUME NEW i \in 0 .. c - 1
       PROVE  /\ ll[i] \in 0 .. R - 1 /\ cl[i] \in Nat \ {0} /\ Top(ll, il, F, i) \in F .. R - 1
              /\ ll[i] >= F => i \notin up
              /\ ll[i] < F => il[ll[i]] \in F .. R - 1 /\ (i \in Threads(b) => i \in up)
  <2>1. ll[i] \in 0 .. R - 1 /\ cl[i] \in Nat \ {0} /\ Top(ll, il, F, i) \in F .. R - 1
    BY <1>7 DEF Placed
  <2>2. ASSUME ll[i] >= F PROVE i \notin up
    <3>1. ll[i] \in F .. R - 1
      BY <1>5, <2>1, <2>2
    <3>2. il[ll[i]] = -1
      BY <1>7, <3>1 DEF Rooted
    <3> QED BY <1>9, <3>2
  <2>3. ASSUME ll[i] < F PROVE il[ll[i]] \in F .. R - 1 /\ (i \in Threads(b) => i \in up)
    <3>1. il[ll[i]] \in F .. R - 1
      BY <2>1, <2>3 DEF Top
    <3>2. il[ll[i]] # -1 /\ ll[i] # -1 /\ i \in 0 .. n - 1
      BY <1>5, <2>1, <3>1
    <3> QED BY <1>9, <3>1, <3>2
  <2> QED BY <2>1, <2>2, <2>3
<1>11. ASSUME NEW i \in 0 .. c - 1
       PROVE  /\ Top(l2, il, F, i) = Top(ll, il, F, i) /\ Depth(l2, c2, F, i) = Depth(ll, cl, F, i)
              /\ l2[i] \in 0 .. R - 1 /\ c2[i] \in Nat \ {0}
              /\ i \in Threads(b) => l2[i] >= F
              /\ i \notin Threads(b) => l2[i] = ll[i]
  <2>1. i \in 0 .. n
    BY <1>5
  <2>2. CASE i \in up
    <3>1. ll[i] < F /\ il[ll[i]] \in F .. R - 1
      BY <1>5, <1>10, <2>2
    <3>2. l2[i] = il[ll[i]] /\ c2[i] = cl[i] + 1
      BY <1>8, <2>1, <2>2
    <3>3. ~(l2[i] < F) /\ l2[i] >= F /\ l2[i] \in 0 .. R - 1
      BY <1>5, <3>1, <3>2
    <3>4. c2[i] \in Nat \ {0}
      BY <1>10, <3>2
    <3>5. i \in Threads(b)
      BY <1>9, <2>2
    <3> QED BY <3>1, <3>2, <3>3, <3>4, <3>5 DEF Top, Depth
  <2>3. CASE i \notin up
    <3>1. l2[i] = ll[i] /\ c2[i] = cl[i]
      BY <1>8, <2>1, <2>3
    <3>2. i \in Threads(b) => l2[i] >= F
      BY <1>5, <1>10, <2>3, <3>1
    <3> QED BY <1>10, <3>1, <3>2 DEF Top, Depth
  <2> QED BY <2>2, <2>3
<1>12. Placed(l2, c2, il, F, R, c) /\ Ordered(l2, c2, il, F, c) /\ Filled(l2, c2, il, F, R, c, n)
  <2>1. c \in Nat /\ n \in Nat
    BY <1>5
  <2> QED BY <1>7, <1>11, <2>1, GrownTops
<1>13. Fresh(l2, c2, c, n)
  <2> SUFFICES ASSUME NEW i \in c .. n - 1 PROVE l2[i] = -1 /\ c2[i] = 0
    BY DEF Fresh
  <2>1. ll[i] = -1 /\ cl[i] = 0 /\ i \in 0 .. n
    BY <1>5, <1>7 DEF Fresh
  <2>2. i \notin up
    BY <1>9, <2>1
  <2> QED BY <1>8, <2>1, <2>2
<1>14. Shapes'
  <2>1. l2 \in [0 .. n -> Int]
    <3> SUFFICES ASSUME NEW i \in 0 .. n PROVE (IF i \in up THEN il[ll[i]] ELSE ll[i]) \in Int
      BY <1>8
    <3>1. CASE i \in up
      <4>1. i \in 0 .. c - 1
        <5>1. i \in 0 .. n - 1 /\ ll[i] # -1
          BY <1>9, <3>1
        <5>2. i \notin c .. n - 1
          BY <1>7, <5>1 DEF Fresh
        <5> QED BY <1>5, <5>1, <5>2
      <4>2. il[ll[i]] \in F .. R - 1
        BY <1>5, <1>10, <3>1, <4>1
      <4> QED BY <1>5, <3>1, <4>2
    <3>2. CASE i \notin up
      BY <1>6, <3>2
    <3> QED BY <3>1, <3>2
  <2>2. c2 \in [0 .. n -> Nat]
    BY <1>6, <1>8
  <2> QED BY <1>1, <1>2, <1>3, <2>1, <2>2 DEF Shapes, l2, c2, n
<1>15. Ring'
  <2>1. AdvancedRing'
    BY <1>1, <1>2, <1>4 DEF Ring, AdvancedRing
  <2> QED BY <1>1, <1>2, <1>3, <1>4, <2>1 DEF Ring
<1>16. Weights'
  <2>1. RestWeights'
    BY <1>1, <1>2, <1>4 DEF Weights, RestWeights
  <2> QED BY <1>4, <2>1 DEF Weights
<1>17. Forest'
  <2>1. AdvancedForest'
    BY <1>1, <1>2, <1>3, <1>7, <1>12, <1>13 DEF AdvancedForest, Grown, l2, c2, il, F, R, c, n
  <2>2. ASSUME NEW d \in Block, at'[d] = "wait", NEW i \in Threads(d), i < lNodesCur
        PROVE  lNodesLeader'[i] >= iNodesFront
    <3>1. i \in 0 .. c - 1
      BY <1>5, <2>2, Blocks DEF c
    <3>2. CASE d = b
      BY <1>11, <2>2, <3>1, <3>2 DEF l2, F
    <3>3. CASE d # b
      <4>1. i \notin Threads(b)
        BY <2>2, <3>3, Blocks
      <4>2. at[d] = "wait"
        BY <1>1, <1>3, <2>2, <3>3
      <4>3. lNodesLeader[i] >= iNodesFront
        BY <1>1, <2>2, <4>2 DEF Forest
      <4> QED BY <1>11, <3>1, <4>1, <4>3 DEF l2, ll
    <3> QED BY <3>2, <3>3
  <2> QED BY <1>1, <1>2, <1>4, <2>1, <2>2 DEF Forest
<1>18. Copying' /\ Shares' /\ Melding'
  BY <1>1, <1>4 DEF Copying, Shares, Melding
<1> QED BY <1>14, <1>15, <1>16, <1>17, <1>18

(* The round is over.                                                        *)
LEMMA ResizeStep ==
  ASSUME Places, Several, size > 1, NEW b \in Block, Resize(b)
  PROVE  Several'
<1> USE DEF Several
<1>1. /\ b = 0 /\ phase = "size" /\ at[0] = "run" /\ phase' = "size" /\ histogram' = histogram
      /\ at' = [at EXCEPT ![0] = "wait"]
      /\ UNCHANGED nodes /\ lNodesCur' = lNodesCur /\ iNodesFront' = iNodesFront
      /\ iNodesRear' = iNodesRear /\ minFreq' = minFreq /\ curLeavesNum' = curLeavesNum
      /\ UNCHANGED merged /\ iNodesSize' = MOD(iNodesRear - iNodesFront)
  BY DEF Resize, At, Go
<1>2. /\ lNodesLeader' = lNodesLeader /\ CL' = CL
      /\ iNodesFreq' = iNodesFreq /\ iNodesLeader' = iNodesLeader
      /\ mergeFront' = mergeFront /\ mergeRear' = mergeRear /\ copy' = copy /\ temp' = temp /\ path' = path
  BY <1>1 DEF nodes, merged
<1>3. /\ histogram \in Histograms /\ size \in Nat \ {0} /\ size' = size
      /\ at \in [Block -> {"run", "half", "wait", "exit"}] /\ 0 \in Block
  BY <1>1, Sizes, Blocks DEF Places, size
<1>4. at'[0] = "wait" /\ Advanced /\ AtRest' /\ ~Combined' /\ ~Gathered' /\ ~Advanced'
  <2>1. at'[0] = "wait"
    BY <1>1, <1>3
  <2> QED BY <1>1, <2>1 DEF Combined, AtRest, Gathered, Advanced
<1>5. Ring /\ AdvancedRing
  BY <1>4 DEF Ring
<1>6. /\ lNodesCur \in 0 .. size /\ curLeavesNum \in 0 .. size
      /\ iNodesFront \in 0 .. size - 1 /\ iNodesRear \in 0 .. size - 1
      /\ mergeFront \in 0 .. size - 1 /\ mergeRear \in 0 .. size - 1
      /\ iNodesFront < iNodesRear /\ lNodesCur + iNodesFront = 2 * iNodesRear
  BY <1>5 DEF Ring, AdvancedRing
<1>7. iNodesSize' = iNodesRear - iNodesFront /\ iNodesSize' \in 0 .. size - 1
  <2>1. iNodesRear - iNodesFront \in 0 .. size - 1
    BY <1>3, <1>6
  <2>2. MOD(iNodesRear - iNodesFront) = iNodesRear - iNodesFront
    BY <1>3, <2>1, ModSmall
  <2> QED BY <1>1, <2>1, <2>2
<1>8. Shapes'
  BY <1>1, <1>2, <1>3 DEF Shapes
<1>9. Ring'
  <2>1. RestRing'
    BY <1>1, <1>6, <1>7 DEF RestRing
  <2> QED BY <1>1, <1>2, <1>3, <1>4, <1>6, <1>7, <2>1 DEF Ring
<1>10. Weights'
  <2>1. RestWeights'
    BY <1>1, <1>2, <1>4 DEF Weights, RestWeights
  <2> QED BY <1>4, <2>1 DEF Weights
<1>11. Forest'
  <2>1. AdvancedForest /\ Climbed(lNodesLeader, lNodesCur, iNodesFront)
    BY <1>1, <1>4 DEF Forest
  <2>2. RestForest'
    BY <1>1, <1>2, <1>3, <2>1 DEF AdvancedForest, RestForest, Grown
  <2> QED BY <1>1, <1>2, <1>4, <2>1, <2>2 DEF Forest
<1>12. Copying' /\ Shares' /\ Melding'
  BY <1>1, <1>4 DEF Copying, Shares, Melding
<1> QED BY <1>8, <1>9, <1>10, <1>11, <1>12

-----------------------------------------------------------------------------
(* The parallel merge: the diagonals, then the shares.                        *)

(* What is sorted step by step is sorted.                                    *)
Rising(f, n) == /\ \A k \in 0 .. n - 1 : f[k] \in Nat
                /\ \A k \in 1 .. n - 1 : f[k - 1] <= f[k]

(* A sequence that never falls is sorted.                                     *)
LEMMA Sorted ==
  ASSUME NEW n \in Nat, NEW f, Rising(f, n), NEW j \in 0 .. n - 1, NEW i \in 0 .. j
  PROVE  f[i] <= f[j]
<1> DEFINE S == {k \in 0 .. j : i <= k => f[i] <= f[k]}
<1>1. 0 \in S
  <2>1. f[0] \in Nat /\ 0 \in 0 .. j
    BY DEF Rising
  <2>2. ASSUME i <= 0 PROVE f[i] <= f[0]
    <3>1. i = 0
      BY <2>2
    <3> QED BY <2>1, <3>1
  <2> QED BY <2>1, <2>2
<1>2. ASSUME NEW k \in 1 .. j, k - 1 \in S PROVE k \in S
  <2>1. f[k] \in Nat /\ f[k - 1] \in Nat /\ f[i] \in Nat /\ f[k - 1] <= f[k]
    BY DEF Rising
  <2>2. ASSUME i <= k PROVE f[i] <= f[k]
    <3>1. CASE i = k
      BY <2>1, <3>1
    <3>2. CASE i # k
      <4>1. i <= k - 1
        BY <2>2, <3>2
      <4>2. f[i] <= f[k - 1]
        BY <1>2, <4>1
      <4> QED BY <2>1, <4>2
    <3> QED BY <3>1, <3>2
  <2>3. k \in 0 .. j
    OBVIOUS
  <2> QED BY <2>2, <2>3
<1> HIDE DEF S
<1>3. \A k \in 0 .. j : k \in S
  <2>1. j \in Nat
    OBVIOUS
  <2> QED BY <1>1, <1>2, <2>1, Induct
<1>4. j \in S
  BY <1>3
<1> QED BY <1>4 DEF S

(* A merge of sorted leaves with sorted internal nodes sorts.                *)
SortedCopy(cp, A) == \A x \in 0 .. A - 1 : cp[x].freq \in Nat /\ \A w \in 0 .. x : cp[w].freq <= cp[x].freq

(* The relation that the merge goes by is that of two sorted sequences.       *)
LEMMA LedSorts ==
  ASSUME NEW A \in Nat, NEW B \in Nat, NEW m \in Nat, NEW cp, NEW fr, SortedCopy(cp, A),
         Rising([y \in 0 .. B - 1 |-> fr[m + y]], B)
  PROVE  Sorts(Led(cp, fr, A, B, m), A, B)
<1> DEFINE L == Led(cp, fr, A, B, m)
           g == [y \in 0 .. B - 1 |-> fr[m + y]]
<1>1. \A x \in 0 .. A - 1, y \in 0 .. B - 1 : <<x, y>> \in L <=> cp[x].freq <= fr[m + y]
  BY DEF Led
<1>2. \A y \in 0 .. B - 1 : g[y] = fr[m + y]
  OBVIOUS
<1>3. Rising(g, B)
  OBVIOUS
<1> HIDE DEF L, g
<1> SUFFICES ASSUME NEW x \in 0 .. A - 1, NEW y \in 0 .. B - 1, <<x, y>> \in L,
                    NEW w \in 0 .. x, NEW z \in y .. B - 1
             PROVE  <<w, z>> \in L
  BY DEF Sorts, L
<1>4. w \in 0 .. A - 1 /\ z \in 0 .. B - 1 /\ y \in 0 .. z
  OBVIOUS
<1>5. cp[w].freq <= cp[x].freq /\ cp[w].freq \in Nat /\ cp[x].freq \in Nat
  BY <1>4 DEF SortedCopy
<1>6. g[y] <= g[z] /\ g[y] \in Nat /\ g[z] \in Nat
  <2>1. g[y] <= g[z]
    BY <1>3, <1>4, Sorted
  <2> QED BY <1>3, <1>4, <2>1 DEF Rising
<1>7. cp[x].freq <= g[y]
  BY <1>1, <1>2
<1>8. cp[w].freq <= g[z]
  <2> DEFINE p == cp[w].freq
             q == cp[x].freq
  <2>1. p \in Nat /\ q \in Nat /\ p <= q /\ q <= g[y]
    BY <1>5, <1>7
  <2> HIDE DEF p, q
  <2>2. p <= g[z]
    BY <1>6, <2>1
  <2> QED BY <2>2 DEF p
<1> QED BY <1>1, <1>2, <1>4, <1>8

(* Both kinds of nodes that are merged are sorted.                           *)
LEMMA CopySorted ==
  ASSUME NEW n \in Nat, NEW h, NEW cp, NEW A \in Nat, NEW c \in Nat, c + A <= n, CopiedFrom(cp, h, A, c),
         \A i, j \in 0 .. n - 1 : i <= j => h[i] <= h[j], \A i \in 0 .. n - 1 : h[i] \in Nat
  PROVE  SortedCopy(cp, A)
<1> SUFFICES ASSUME NEW x \in 0 .. A - 1, NEW w \in 0 .. x
             PROVE  cp[x].freq \in Nat /\ cp[w].freq <= cp[x].freq
  <2>1. \A x \in 0 .. A - 1 : x \in 0 .. x
    OBVIOUS
  <2> QED BY <2>1 DEF SortedCopy
<1>1. cp[x].freq = h[c + x] /\ cp[w].freq = h[c + w]
  <2>1. w \in 0 .. A - 1
    OBVIOUS
  <2>2. cp[x] = LeafNode(h, c + x) /\ cp[w] = LeafNode(h, c + w)
    BY <2>1 DEF CopiedFrom
  <2> QED BY <2>2 DEF LeafNode
<1>2. c + x \in 0 .. n - 1 /\ c + w \in 0 .. n - 1 /\ c + w <= c + x
  OBVIOUS
<1> QED BY <1>1, <1>2

(* The copied leaves are sorted, as the ring is, and so the merge of them is  *)
(* one of sorted sequences.                                                   *)
LEMMA MergeSorts ==
  ASSUME histogram \in Histograms, Shapes, Ring, GatheredRing, RingSorted, phase \in {"divide", "merge", "meld"},
         CopiedFrom(copy, histogram, curLeavesNum, First)
  PROVE  /\ SortedCopy(copy, curLeavesNum)
         /\ Rising([y \in 0 .. InnerNum - 1 |-> iNodesFreq[mergeFront + y]], InnerNum)
         /\ Sorts(Led(copy, iNodesFreq, curLeavesNum, InnerNum, mergeFront), curLeavesNum, InnerNum)
<1> DEFINE A == curLeavesNum
           B == InnerNum
           m == mergeFront
           g == [y \in 0 .. B - 1 |-> iNodesFreq[m + y]]
           n == size
           c == First
<1>1. /\ n \in Nat \ {0} /\ A \in Nat /\ B \in Nat /\ m \in Nat /\ c \in Nat /\ c + A <= n /\ m + B <= n
      /\ BLength = B /\ \A k \in 0 .. B : Inner(k) = m + k
  <2>1. /\ size \in Nat \ {0} /\ lNodesCur \in 0 .. size /\ iNodesRear \in 0 .. size - 1
        /\ curLeavesNum \in Nat /\ InnerNum \in Nat
        /\ mergeFront \in Nat /\ mergeFront + InnerNum = iNodesFront /\ iNodesFront < iNodesRear
        /\ iNodesFront \in Nat
        /\ First \in Nat /\ First + curLeavesNum = lNodesCur
        /\ BLength = InnerNum
        /\ \A k \in 0 .. InnerNum : Inner(k) = mergeFront + k
    BY Room
  <2>2. c + A <= n /\ m + B <= n
    BY <2>1
  <2> QED BY <2>1, <2>2
<1>2. SortedCopy(copy, A)
  <2>1. /\ \A i, j \in 0 .. n - 1 : i <= j => histogram[i] <= histogram[j]
        /\ \A i \in 0 .. n - 1 : histogram[i] \in Nat
    BY Sizes
  <2> HIDE DEF A, c, n
  <2>2. CopiedFrom(copy, histogram, A, c) /\ n \in Nat
    BY <1>1 DEF A, c
  <2> QED BY <1>1, <2>1, <2>2, CopySorted
<1>3. Rising(g, B)
  <2>0. iNodesFreq \in [0 .. n - 1 -> Nat]
    BY DEF Shapes
  <2>1. ASSUME NEW k \in 0 .. B - 1 PROVE g[k] \in Nat
    <3>1. m + k \in 0 .. n - 1
      BY <1>1
    <3> QED BY <2>0, <3>1
  <2>2. ASSUME NEW k \in 1 .. B - 1 PROVE g[k - 1] <= g[k]
    <3>1. k \in 1 .. BLength - 1 /\ k - 1 \in 0 .. B - 1 /\ k \in 0 .. B - 1 /\ k \in 0 .. B /\ k - 1 \in 0 .. B
      BY <1>1
    <3>2. iNodesFreq[Inner(k - 1)] <= iNodesFreq[Inner(k)]
      BY <3>1 DEF RingSorted
    <3>3. Inner(k - 1) = m + (k - 1) /\ Inner(k) = m + k
      BY <1>1, <3>1
    <3> QED BY <3>1, <3>2, <3>3
  <2> HIDE DEF g
  <2> QED BY <2>1, <2>2 DEF Rising
<1>4. Sorts(Led(copy, iNodesFreq, A, B, m), A, B)
  <2> HIDE DEF A, B, m, c, n
  <2> QED BY <1>1, <1>2, <1>3, LedSorts
<1> QED BY <1>2, <1>3, <1>4

(* The flag of the search says what the walk has passed.                     *)
LEMMA FlagPassed ==
  ASSUME histogram \in Histograms, Ring, GatheredRing, NEW k \in 0 .. AllNum, NEW x \in Nat
  PROVE  Flag(k, x) <=> Passed(k, x, curLeavesNum, InnerNum,
                               Led(copy, iNodesFreq, curLeavesNum, InnerNum, mergeFront))
<1> DEFINE A == curLeavesNum
           B == InnerNum
           m == mergeFront
           L == Led(copy, iNodesFreq, A, B, m)
<1>1. /\ A \in Nat /\ B \in Nat /\ AllNum = A + B /\ AllNum \in Nat
      /\ BLength = B /\ ALength = A
  BY Room
<1>2. \A y \in 0 .. B : Inner(y) = m + y
  BY Room
<1>3. Flag(k, x) <=> /\ x <= A /\ x <= k
                     /\ x = 0 \/ k - x >= B \/ copy[x - 1].freq <= iNodesFreq[Inner(k - x)]
  BY <1>1 DEF Flag
<1>4. \A w \in 0 .. A - 1, y \in 0 .. B - 1 : <<w, y>> \in L <=> copy[w].freq <= iNodesFreq[m + y]
  BY DEF Led
<1> HIDE DEF A, B, m, L
<1>5. ASSUME x <= A, x <= k, x # 0, ~(k - x >= B)
      PROVE  copy[x - 1].freq <= iNodesFreq[Inner(k - x)] <=> <<x - 1, k - x>> \in L
  <2>1. x - 1 \in 0 .. A - 1 /\ k - x \in 0 .. B - 1 /\ k - x \in 0 .. B
    BY <1>1, <1>5
  <2> QED BY <1>2, <1>4, <2>1
<1>6. Flag(k, x) <=> Passed(k, x, A, B, L)
  BY <1>3, <1>5 DEF Passed
<1> QED BY <1>6 DEF A, B, m, L

(* The search along the k-th diagonal ends where the walk crosses it, and     *)
(* nowhere else.                                                              *)
LEMMA CrossingIs ==
  ASSUME histogram \in Histograms, Shapes, Ring, GatheredRing, phase \in {"divide", "merge", "meld"}, RingSorted,
         CopiedFrom(copy, histogram, curLeavesNum, First),
         NEW X, IsWay(X), NEW k \in 0 .. AllNum, NEW x \in Crossing(k)
  PROVE  x = X[k]
<1> DEFINE A == curLeavesNum
           B == InnerNum
           L == Led(copy, iNodesFreq, A, B, mergeFront)
<1>1. /\ A \in Nat /\ B \in Nat /\ AllNum = A + B /\ ALength = A
  BY Room
<1>2. Sorts(L, A, B)
  BY MergeSorts
<1>3. Goes(X, A, B, L)
  BY DEF IsWay
<1>4. x \in Nat /\ ~(Flag(k, x) <=> Flag(k, x + 1))
  <2>1. x \in Nat /\ (Flag(k, x) # Flag(k, x + 1))
    BY <1>1 DEF Crossing
  <2>2. Flag(k, x) \in BOOLEAN /\ Flag(k, x + 1) \in BOOLEAN
    BY DEF Flag
  <2> QED BY <2>1, <2>2
<1>5. \A y \in Nat : Flag(k, y) <=> Passed(k, y, A, B, L)
  BY FlagPassed
<1> HIDE DEF A, B, L
<1>6. k \in 0 .. A + B
  BY <1>1
<1>7. Shuffle(X, A, B)
  BY <1>1, <1>3, GoesShuffle
<1>8. X[k] \in Nat
  BY <1>1, <1>6, <1>7 DEF Shuffle
<1>9. ASSUME x < X[k] PROVE FALSE
  <2>1. x \in 0 .. X[k] /\ x + 1 \in 0 .. X[k] /\ x + 1 \in Nat
    BY <1>4, <1>8, <1>9
  <2>2. Passed(k, x, A, B, L)
    BY <1>1, <1>2, <1>3, <1>6, <2>1, FlagBefore
  <2> DEFINE z == x + 1
  <2>3. Passed(k, z, A, B, L)
    <3>1. z \in 0 .. X[k]
      BY <2>1
    <3> HIDE DEF z
    <3> QED BY <1>1, <1>2, <1>3, <1>6, <3>1, FlagBefore
  <2> QED BY <1>4, <1>5, <2>1, <2>2, <2>3
<1>10. ASSUME X[k] < x PROVE FALSE
  <2>2. ~Passed(k, x, A, B, L)
    BY <1>1, <1>2, <1>3, <1>4, <1>6, <1>10, FlagAfter
  <2> DEFINE z == x + 1
  <2>1. z \in Nat /\ X[k] < z
    BY <1>4, <1>8, <1>10
  <2>3. ~Passed(k, z, A, B, L)
    <3> HIDE DEF z
    <3> QED BY <1>1, <1>2, <1>3, <1>6, <2>1, FlagAfter
  <2> QED BY <1>4, <1>5, <2>1, <2>2, <2>3
<1> QED BY <1>4, <1>8, <1>9, <1>10

(* Each block finds where the walk crosses its diagonal.                     *)
LEMMA DivideStep ==
  ASSUME Places, Several, size > 1, Joins, NEW b \in Block, Divide(b)
  PROVE  Several'
<1> USE DEF Several
<1>1. /\ phase = "divide" /\ at[b] = "run" /\ phase' = "divide" /\ histogram' = histogram
      /\ at' = [at EXCEPT ![b] = "wait"]
      /\ UNCHANGED nodes /\ UNCHANGED iters /\ curLeavesNum' = curLeavesNum
      /\ mergeFront' = mergeFront /\ mergeRear' = mergeRear /\ copy' = copy /\ temp' = temp
  BY DEF Divide, At, Go
<1>2. /\ lNodesLeader' = lNodesLeader /\ CL' = CL
      /\ iNodesFreq' = iNodesFreq /\ iNodesLeader' = iNodesLeader /\ lNodesCur' = lNodesCur
      /\ iNodesFront' = iNodesFront /\ iNodesRear' = iNodesRear /\ iNodesSize' = iNodesSize
      /\ minFreq' = minFreq
  BY <1>1 DEF nodes, iters
<1>3. /\ histogram \in Histograms /\ size \in Nat \ {0} /\ size' = size
      /\ at \in [Block -> {"run", "half", "wait", "exit"}] /\ 0 \in Block
  BY <1>1, Sizes, Blocks DEF Places, size
<1>4. /\ Gathered /\ Gathered' /\ ~Combined' /\ ~AtRest' /\ ~Advanced'
  BY <1>1 DEF Combined, AtRest, Gathered, Advanced
<1>5. Ring /\ GatheredRing
  BY <1>4 DEF Ring
<1>6. InnerNum' = InnerNum /\ AllNum' = AllNum /\ \A X : IsWay(X)' <=> IsWay(X)
  <2>1. InnerNum' = InnerNum /\ AllNum' = AllNum
    BY <1>1 DEF InnerNum, AllNum
  <2> QED BY <1>1, <1>2, <2>1 DEF IsWay
<1>7. Shapes'
  <2>1. path = [d \in Block |-> path[d]]
    BY DEF Shapes
  <2>2. path' = [d \in Block |-> path'[d]]
    BY <2>1 DEF Divide
  <2> QED BY <1>1, <1>2, <1>3, <2>2 DEF Shapes
<1>8. Ring'
  <2>1. GatheredRing'
    BY <1>1, <1>2, <1>5, <1>6 DEF GatheredRing
  <2> QED BY <1>1, <1>2, <1>3, <1>4, <2>1 DEF Ring
<1>9. Copying'
  <2>1. CopiedFrom(copy, histogram, curLeavesNum, lNodesCur - curLeavesNum)
    BY <1>4 DEF Copying
  <2> QED BY <1>1, <1>2, <1>4, <2>1 DEF Copying
<1>10. Weights'
  <2>1. GatheredWeights'
    BY <1>1, <1>2, <1>4 DEF Weights, GatheredWeights
  <2> QED BY <1>4, <2>1 DEF Weights
<1>11. Forest'
  <2>1. GatheredForest /\ UnmeldedForest
    BY <1>1, <1>4 DEF Forest
  <2>2. GatheredForest' /\ UnmeldedForest'
    BY <1>1, <1>2, <1>3, <2>1 DEF GatheredForest, UnmeldedForest, Grown
  <2> QED BY <1>1, <1>4, <2>2 DEF Forest
<1>12. Melding'
  BY <1>1 DEF Melding
<1>13. Shares'
  <2> SUFFICES ASSUME AllNum > 0, NEW X, IsWay(X), NEW d \in Block, at'[d] = "wait"
               PROVE  Divided(path', X, AllNum, d)
    BY <1>1, <1>6 DEF Shares
  <2>1. CASE d = b
    <3>1. /\ curLeavesNum \in Nat /\ InnerNum \in Nat /\ AllNum = curLeavesNum + InnerNum /\ AllNum \in Nat
          /\ tempLength = AllNum /\ ALength = curLeavesNum
      BY <1>3, <1>5, Room
    <3>2. Diagonal(b) = Cut(AllNum, b)
      BY <3>1 DEF Diagonal, Cut
    <3>3. PICK x \in Crossing(Diagonal(b)) : path' = [path EXCEPT ![b] = [x |-> x, y |-> Diagonal(b) - x]]
      BY <3>1 DEF Divide
    <3>4. path'[b] = [x |-> x, y |-> Diagonal(b) - x]
      BY <3>3 DEF Shapes
    <3>5. x = X[Cut(AllNum, b)]
      <4>1. CASE NBlocks = 1
        <5>1. b = 0
          BY <4>1 DEF Block
        <5>2. Cut(AllNum, b) = 0
          BY <3>1, <5>1, Cuts
        <5>3. x \in Nat /\ x <= 0
          BY <3>1, <3>2, <3>3, <5>2 DEF Crossing
        <5>4. X[0] = 0
          BY DEF IsWay, Goes
        <5> QED BY <5>2, <5>3, <5>4
      <4>2. CASE RingSorted
        <5>1. CopiedFrom(copy, histogram, curLeavesNum, First)
          BY <1>4 DEF Copying, First
        <5>2. Cut(AllNum, b) \in 0 .. AllNum
          <6>1. b \in 0 .. NBlocks - 1
            BY DEF Block
          <6> QED BY <3>1, <6>1, Cuts
        <5> QED BY <1>1, <1>3, <1>5, <3>2, <3>3, <4>2, <5>1, <5>2, CrossingIs
      <4> QED BY <4>1, <4>2 DEF Joins
    <3> QED BY <2>1, <3>2, <3>4, <3>5 DEF Divided
  <2>2. CASE d # b
    <3>1. at[d] = "wait"
      BY <1>1, <1>3, <2>2
    <3>2. Divided(path, X, AllNum, d)
      BY <1>1, <3>1 DEF Shares
    <3>3. path'[d] = path[d]
      BY <2>2 DEF Divide, Shapes
    <3> QED BY <3>2, <3>3 DEF Divided
  <2> QED BY <2>1, <2>2
<1> QED BY <1>7, <1>8, <1>9, <1>10, <1>11, <1>12, <1>13

(* What the serial merge's loop does.                                        *)
Walked(Z, x0, leaves, y0, inner) ==
  /\ Z[0] = x0
  /\ \A k \in 0 .. leaves + inner - 1 :
       /\ Z[k] \in x0 .. x0 + k
       /\ Z[k + 1] = IF Leads(Z[k], y0 + (k - (Z[k] - x0)), x0 + leaves, y0 + inner) THEN Z[k] + 1 ELSE Z[k]

(* The walk of the model takes the steps of the serial merge's loop.          *)
LEMMA WalkDoes ==
  ASSUME NEW x0 \in Nat, NEW leaves \in Nat, NEW y0 \in Nat, NEW inner \in Nat
  PROVE  Walked(Walk(x0, leaves, y0, inner), x0, leaves, y0, inner)
<1> DEFINE m == leaves + inner
           Lead(k, x) == Leads(x, y0 + k - 1 - (x - x0), x0 + leaves, y0 + inner)
           Eq(X) == X = [k \in 0 .. m |-> IF k = 0 THEN x0
                                          ELSE IF Lead(k, X[k - 1]) THEN X[k - 1] + 1 ELSE X[k - 1]]
           Z == CHOOSE X : Eq(X)
           M == {p \in (1 .. m) \X Nat : Lead(p[1], p[2])}
<1>1. m \in Nat
  OBVIOUS
<1>2. Walk(x0, leaves, y0, inner) = Z
  BY DEF Walk
<1>3. \A k \in 1 .. m, x \in Nat : <<k, x>> \in M <=> Lead(k, x)
  OBVIOUS
<1> HIDE DEF M
<1>4. PICK C : Counts(C, m, x0, M)
  BY <1>1, Counter
<1>5. Eq(C)
  <2> HIDE DEF m, Lead
  <2>1. C = [k \in 0 .. m |-> C[k]]
    BY <1>4 DEF Counts
  <2>2. ASSUME NEW k \in 0 .. m
        PROVE  C[k] = IF k = 0 THEN x0 ELSE IF Lead(k, C[k - 1]) THEN C[k - 1] + 1 ELSE C[k - 1]
    <3>1. CASE k = 0
      BY <1>4, <3>1 DEF Counts
    <3>2. CASE k # 0
      <4>1. k \in 1 .. m
        BY <1>1, <3>2
      <4>2. C[k - 1] \in Nat /\ C[k] = IF <<k, C[k - 1]>> \in M THEN C[k - 1] + 1 ELSE C[k - 1]
        BY <1>4, <4>1 DEF Counts
      <4> QED BY <1>3, <3>2, <4>1, <4>2
    <3> QED BY <3>1, <3>2
  <2>3. [k \in 0 .. m |-> C[k]] = [k \in 0 .. m |-> IF k = 0 THEN x0 ELSE IF Lead(k, C[k - 1]) THEN C[k - 1] + 1 ELSE C[k - 1]]
    BY <2>2
  <2> QED BY <2>1, <2>3
<1>6. Eq(Z)
  <2> HIDE DEF Eq
  <2> QED BY <1>5
<1> HIDE DEF Z
<1>7. Z[0] = x0
  BY <1>1, <1>6
<1>8. ASSUME NEW k \in 0 .. m - 1 PROVE Z[k + 1] = IF Lead(k + 1, Z[k]) THEN Z[k] + 1 ELSE Z[k]
  <2> HIDE DEF Lead
  <2>1. k + 1 \in 0 .. m /\ k + 1 # 0 /\ (k + 1) - 1 = k
    BY <1>1
  <2> HIDE DEF m
  <2> QED BY <1>6, <2>1
<1> HIDE DEF Eq
<1> DEFINE S == {k \in 0 .. m : Z[k] \in x0 .. x0 + k}
<1>9. 0 \in S
  BY <1>1, <1>7
<1>10. ASSUME NEW k \in 1 .. m, k - 1 \in S PROVE k \in S
  <2>1. k - 1 \in 0 .. m - 1 /\ (k - 1) + 1 = k /\ Z[k - 1] \in x0 .. x0 + (k - 1)
    BY <1>1, <1>10
  <2>2. Z[k] = Z[k - 1] + 1 \/ Z[k] = Z[k - 1]
    BY <1>8, <2>1
  <2>3. Z[k] \in x0 .. x0 + k
    BY <2>1, <2>2
  <2> QED BY <2>3
<1> HIDE DEF S
<1>11. \A k \in 0 .. m : k \in S
  BY <1>1, <1>9, <1>10, Induct
<1>12. ASSUME NEW k \in 0 .. m - 1
       PROVE  /\ Z[k] \in x0 .. x0 + k
              /\ Z[k + 1] = IF Leads(Z[k], y0 + (k - (Z[k] - x0)), x0 + leaves, y0 + inner) THEN Z[k] + 1 ELSE Z[k]
  <2>1. k \in 0 .. m
    BY <1>1
  <2>2. Z[k] \in x0 .. x0 + k
    BY <1>11, <2>1 DEF S
  <2>3. y0 + (k + 1) - 1 - (Z[k] - x0) = y0 + (k - (Z[k] - x0))
    BY <2>2
  <2> QED BY <1>8, <2>2, <2>3
<1> HIDE DEF Z
<1> QED BY <1>2, <1>7, <1>12 DEF Walked

(* A block's serial merge goes the way the merge as a whole does.             *)
ShareOf(part, h, fr, c, m, X, d, e) ==
  /\ DOMAIN part = 0 .. e - d - 1
  /\ \A k \in 0 .. e - d - 1 : part[k] = Whole(h, fr, c, m, X, d + k)

(* The serial merge from a crossing to the next makes that share of the merge *)
(* as a whole.                                                                *)
LEMMA SerialIs ==
  ASSUME histogram \in Histograms, Ring, GatheredRing, CopiedFrom(copy, histogram, curLeavesNum, First),
         NEW X, IsWay(X), NEW e \in 0 .. AllNum, NEW d \in 0 .. e
  PROVE  ShareOf(Serial(X[d], X[e] - X[d], d - X[d], (e - X[e]) - (d - X[d])),
                 histogram, iNodesFreq, First, mergeFront, X, d, e)
<1> DEFINE A == curLeavesNum
           B == InnerNum
           m == mergeFront
           c == First
           L == Led(copy, iNodesFreq, A, B, m)
           x0 == X[d]
           y0 == d - X[d]
           leaves == X[e] - X[d]
           inner == (e - X[e]) - (d - X[d])
           Z == Walk(x0, leaves, y0, inner)
<1>1. /\ A \in Nat /\ B \in Nat /\ AllNum = A + B /\ c \in Nat /\ m \in Nat
  BY Room
<1>2. \A y \in 0 .. B : Inner(y) = m + y
  BY Room
<1>3. Goes(X, A, B, L)
  BY DEF IsWay
<1>4. \A w \in 0 .. A - 1, y \in 0 .. B - 1 : <<w, y>> \in L <=> copy[w].freq <= iNodesFreq[m + y]
  BY DEF Led
<1>5. \A w \in 0 .. A - 1 : copy[w] = LeafNode(histogram, c + w)
  BY DEF CopiedFrom
<1> HIDE DEF A, B, m, c, L
<1>6. Shuffle(X, A, B)
  BY <1>1, <1>3, GoesShuffle
<1>7. e \in 0 .. A + B /\ d \in 0 .. A + B
  BY <1>1
<1>8. /\ X[d] \in 0 .. A /\ d - X[d] \in 0 .. B /\ X[e] \in 0 .. A /\ e - X[e] \in 0 .. B
  BY <1>6, <1>7 DEF Shuffle
<1>9. X[d] <= X[e] /\ d - X[d] <= e - X[e]
  BY <1>1, <1>6, <1>7, ShuffleOrder
<1>10. /\ x0 \in Nat /\ leaves \in Nat /\ y0 \in Nat /\ inner \in Nat /\ leaves + inner = e - d
       /\ x0 + leaves = X[e] /\ y0 + inner = e - X[e]
       /\ X[e] <= A /\ e - X[e] <= B
  BY <1>8, <1>9
<1>11. Walked(Z, x0, leaves, y0, inner)
  <2> HIDE DEF x0, leaves, y0, inner
  <2> QED BY <1>10, WalkDoes
<1> HIDE DEF Z
<1>12. GoesFrom(Z, X[d], d - X[d], X[e], e - X[e], L)
  <2> SUFFICES ASSUME NEW k \in 0 .. (X[e] - X[d]) + ((e - X[e]) - (d - X[d])) - 1
               PROVE  Z[k + 1] = IF Takes(Z[k], d - X[d] + k - (Z[k] - X[d]), X[e], e - X[e], L) THEN Z[k] + 1 ELSE Z[k]
    <3>1. Z[0] = X[d]
      BY <1>11 DEF Walked, x0
    <3> QED BY <3>1 DEF GoesFrom
  <2>1. k \in 0 .. leaves + inner - 1 /\ k \in Nat
    BY <1>10
  <2>2. /\ Z[k] \in x0 .. x0 + k
        /\ Z[k + 1] = IF Leads(Z[k], y0 + (k - (Z[k] - x0)), x0 + leaves, y0 + inner) THEN Z[k] + 1 ELSE Z[k]
    BY <1>11, <2>1 DEF Walked
  <2> DEFINE z == Z[k]
             y == y0 + (k - (z - x0))
             x1 == X[e]
             y1 == e - X[e]
  <2>3. d - X[d] + k - (Z[k] - X[d]) = y /\ z \in Nat /\ y \in Nat
    BY <1>8, <1>10, <2>1, <2>2
  <2>4. Z[k + 1] = IF Leads(z, y, x1, y1) THEN z + 1 ELSE z
    BY <1>10, <2>2
  <2>5. Leads(z, y, x1, y1) <=> Takes(z, y, x1, y1, L)
    <3>1. x1 \in Nat /\ x1 <= A /\ y1 \in Nat /\ y1 <= B
      BY <1>8
    <3>2. Leads(z, y, x1, y1) <=> z < x1 /\ (y >= y1 \/ copy[z].freq <= iNodesFreq[Inner(y)])
      BY DEF Leads
    <3>3. Takes(z, y, x1, y1, L) <=> z < x1 /\ (y >= y1 \/ <<z, y>> \in L)
      BY DEF Takes
    <3> HIDE DEF z, y, x1, y1
    <3>4. ASSUME z < x1, ~(y >= y1) PROVE copy[z].freq <= iNodesFreq[Inner(y)] <=> <<z, y>> \in L
      <4>1. z \in 0 .. A - 1 /\ y \in 0 .. B - 1 /\ y \in 0 .. B
        BY <1>1, <2>3, <3>1, <3>4
      <4> QED BY <1>2, <1>4, <4>1
    <3> QED BY <3>2, <3>3, <3>4
  <2> QED BY <2>3, <2>4, <2>5
<1>13. \A k \in 0 .. e - d : Z[k] = X[d + k]
  BY <1>1, <1>3, <1>7, <1>12, SameWay
<1> DEFINE part == Serial(x0, leaves, y0, inner)
           Y(k) == Inner(y0 + k - (Z[k] - x0))
<1>14. part = [k \in 0 .. leaves + inner - 1 |->
                 IF Z[k + 1] > Z[k] THEN copy[Z[k]]
                 ELSE [freq |-> iNodesFreq[Y(k)], index |-> Y(k), leaf |-> FALSE]]
  BY DEF Serial, Z
<1>15. DOMAIN part = 0 .. e - d - 1
  BY <1>10, <1>14
<1>16. ASSUME NEW k \in 0 .. e - d - 1
       PROVE  part[k] = Whole(histogram, iNodesFreq, c, m, X, d + k)
  <2> DEFINE j == d + k
             x == X[j]
  <2>1. k \in 0 .. leaves + inner - 1
    BY <1>10
  <2>2. k \in 0 .. e - d /\ k + 1 \in 0 .. e - d /\ d + (k + 1) = j + 1
    OBVIOUS
  <2>3. Z[k] = x /\ Z[k + 1] = X[j + 1]
    BY <1>13, <2>2
  <2>4. j \in 0 .. A + B - 1 /\ j \in 0 .. A + B /\ j + 1 \in 0 .. A + B
    BY <1>1
  <2>5. part[k] = IF Z[k + 1] > Z[k] THEN copy[Z[k]]
                  ELSE [freq |-> iNodesFreq[Y(k)], index |-> Y(k), leaf |-> FALSE]
    <3> HIDE DEF part, Y
    <3> QED BY <1>14, <2>1
  <2>6. y0 + k - (x - x0) = j - x
    BY <1>8, <2>4, <1>6 DEF Shuffle
  <2> HIDE DEF part, j
  <2>7. /\ x \in 0 .. A /\ j - x \in 0 .. B /\ X[j + 1] \in 0 .. A /\ (j + 1) - X[j + 1] \in 0 .. B
        /\ (X[j + 1] = x \/ X[j + 1] = x + 1)
    BY <1>6, <2>4 DEF Shuffle
  <2>8. CASE X[j + 1] = x
    <3>1. ~(Z[k + 1] > Z[k])
      BY <2>3, <2>7, <2>8
    <3>2. Y(k) = m + (j - x)
      <4>1. Y(k) = Inner(j - x)
        BY <2>3, <2>6
      <4> QED BY <1>2, <2>7, <4>1
    <3>3. part[k] = InnerNode(iNodesFreq, m + (j - x))
      <4> HIDE DEF Y, x
      <4> QED BY <2>5, <3>1, <3>2 DEF InnerNode
    <3> QED BY <2>8, <3>3 DEF Whole, j
  <2>9. CASE X[j + 1] = x + 1
    <3>0. x \in Nat /\ x + 1 \in 0 .. A
      BY <2>7, <2>9
    <3>1. Z[k + 1] > Z[k] /\ X[j + 1] # X[j] /\ x \in 0 .. A - 1
      <4>1. \A z \in Nat : z + 1 > z /\ z + 1 # z /\ (z + 1 \in 0 .. A => z \in 0 .. A - 1)
        BY <1>1
      <4>2. Z[k] = x /\ Z[k + 1] = x + 1 /\ X[j] = x
        BY <2>3, <2>9
      <4> HIDE DEF x
      <4> QED BY <2>9, <3>0, <4>1, <4>2
    <3>2. part[k] = LeafNode(histogram, c + x)
      <4>1. part[k] = copy[x]
        BY <2>3, <2>5, <3>1
      <4> QED BY <1>5, <3>1, <4>1
    <3> QED BY <3>1, <3>2 DEF Whole, j
  <2> QED BY <2>7, <2>8, <2>9
<1>17. ShareOf(part, histogram, iNodesFreq, c, m, X, d, e)
  <2> HIDE DEF part
  <2> QED BY <1>15, <1>16 DEF ShareOf
<1> QED BY <1>17 DEF c, m

(* The shares of different blocks do not overlap.                            *)
LEMMA CutsApart ==
  ASSUME NEW t \in Nat, NEW j \in 0 .. NBlocks, NEW i \in 0 .. j
  PROVE  Cut(t, i) <= Cut(t, j)
<1> DEFINE f == [b \in 0 .. NBlocks |-> Cut(t, b)]
           n == NBlocks + 1
<1>1. NBlocks \in Nat \ {0} /\ Cut(t, NBlocks) = t
  BY Blocks, Cuts
<1>2. n \in Nat /\ n - 1 = NBlocks
  BY <1>1
<1>3. \A b \in 0 .. NBlocks : f[b] = Cut(t, b)
  OBVIOUS
<1> HIDE DEF f, n
<1>4. \A k \in 0 .. n - 1 : f[k] \in Nat
  <2> SUFFICES ASSUME NEW k \in 0 .. NBlocks PROVE Cut(t, k) \in Nat
    BY <1>2, <1>3
  <2>1. CASE k = NBlocks
    BY <1>1, <2>1
  <2>2. CASE k # NBlocks
    <3>1. k \in 0 .. NBlocks - 1
      BY <1>1, <2>2
    <3> QED BY <3>1, Cuts
  <2> QED BY <2>1, <2>2
<1>5. \A k \in 1 .. n - 1 : f[k - 1] <= f[k]
  <2> SUFFICES ASSUME NEW k \in 1 .. NBlocks PROVE f[k - 1] <= f[k]
    BY <1>2
  <2> DEFINE p == k - 1
  <2>1. p \in 0 .. NBlocks - 1 /\ p + 1 = k /\ p \in 0 .. NBlocks /\ k \in 0 .. NBlocks
    BY <1>1
  <2> HIDE DEF p
  <2>2. Cut(t, p) <= Cut(t, p + 1)
    BY <2>1, Cuts
  <2>3. f[p] <= f[k]
    BY <1>3, <2>1, <2>2
  <2> QED BY <2>3 DEF p
<1>6. Rising(f, n)
  BY <1>4, <1>5 DEF Rising
<1>7. f[i] <= f[j]
  <2>1. j \in 0 .. n - 1
    BY <1>2
  <2> QED BY <1>2, <1>6, <2>1, Sorted
<1>8. i \in 0 .. NBlocks
  BY <1>1
<1> QED BY <1>3, <1>7, <1>8

(* Each block merges its share.                                              *)
LEMMA MergeShareStep ==
  ASSUME Places, Several, size > 1, NEW b \in Block, MergeShare(b)
  PROVE  Several'
<1> USE DEF Several
<1> DEFINE stop == IF b = NBlocks - 1 THEN [x |-> ALength, y |-> BLength] ELSE path[b + 1]
           from == path[b].x + path[b].y
           part == Serial(path[b].x, IF path[b].x < stop.x THEN stop.x - path[b].x ELSE 0,
                          path[b].y, MOD(stop.y - path[b].y))
<1>1. /\ phase = "merge" /\ at[b] = "run" /\ phase' = "merge" /\ histogram' = histogram
      /\ at' = [at EXCEPT ![b] = "wait"]
      /\ UNCHANGED nodes /\ UNCHANGED iters /\ curLeavesNum' = curLeavesNum
      /\ mergeFront' = mergeFront /\ mergeRear' = mergeRear /\ copy' = copy /\ path' = path
      /\ temp' = IF tempLength = 0 THEN temp
                 ELSE [k \in DOMAIN temp |->
                         IF k - from \in DOMAIN part THEN part[k - from] ELSE temp[k]]
  BY DEF MergeShare, At, Go
<1>2. /\ lNodesLeader' = lNodesLeader /\ CL' = CL
      /\ iNodesFreq' = iNodesFreq /\ iNodesLeader' = iNodesLeader /\ lNodesCur' = lNodesCur
      /\ iNodesFront' = iNodesFront /\ iNodesRear' = iNodesRear /\ iNodesSize' = iNodesSize
      /\ minFreq' = minFreq
  BY <1>1 DEF nodes, iters
<1>3. /\ histogram \in Histograms /\ size \in Nat \ {0} /\ size' = size
      /\ at \in [Block -> {"run", "half", "wait", "exit"}] /\ 0 \in Block
  BY <1>1, Sizes, Blocks DEF Places, size
<1>4. /\ Gathered /\ Gathered' /\ ~Combined' /\ ~AtRest' /\ ~Advanced'
  BY <1>1 DEF Combined, AtRest, Gathered, Advanced
<1>5. Ring /\ GatheredRing
  BY <1>4 DEF Ring
<1>6. InnerNum' = InnerNum /\ AllNum' = AllNum /\ \A X : IsWay(X)' <=> IsWay(X)
  <2>1. InnerNum' = InnerNum /\ AllNum' = AllNum
    BY <1>1 DEF InnerNum, AllNum
  <2> QED BY <1>1, <1>2, <2>1 DEF IsWay
<1>7. DOMAIN temp = 0 .. size - 1
  BY DEF Shapes
<1>8. temp' = [k \in 0 .. size - 1 |-> temp'[k]]
  <2>1. temp = [k \in 0 .. size - 1 |-> temp[k]]
    BY DEF Shapes
  <2>2. CASE tempLength = 0
    BY <1>1, <2>1, <2>2
  <2>3. CASE tempLength # 0
    <3> HIDE DEF part, from
    <3> QED BY <1>1, <1>7, <2>3, SMTT(30)
  <2> QED BY <2>2, <2>3
<1>9. Shapes'
  BY <1>1, <1>2, <1>3, <1>8 DEF Shapes
<1>10. Ring'
  <2>1. GatheredRing'
    BY <1>1, <1>2, <1>5, <1>6 DEF GatheredRing
  <2> QED BY <1>1, <1>2, <1>3, <1>4, <2>1 DEF Ring
<1>11. Copying'
  <2>1. CopiedFrom(copy, histogram, curLeavesNum, lNodesCur - curLeavesNum)
    BY <1>4 DEF Copying
  <2> QED BY <1>1, <1>2, <1>4, <2>1 DEF Copying
<1>12. Weights'
  <2>1. GatheredWeights'
    BY <1>1, <1>2, <1>4 DEF Weights, GatheredWeights
  <2> QED BY <1>4, <2>1 DEF Weights
<1>13. Forest'
  <2>1. GatheredForest /\ UnmeldedForest
    BY <1>1, <1>4 DEF Forest
  <2>2. GatheredForest' /\ UnmeldedForest'
    BY <1>1, <1>2, <1>3, <2>1 DEF GatheredForest, UnmeldedForest, Grown
  <2> QED BY <1>1, <1>4, <2>2 DEF Forest
<1>14. Melding'
  BY <1>1 DEF Melding
<1> HIDE DEF stop, from, part
<1>15. Shares'
  <2> SUFFICES ASSUME AllNum > 0, NEW X, IsWay(X), NEW g \in Block
               PROVE  /\ Divided(path, X, AllNum, g)
                      /\ at'[g] = "wait" => MergedFrom(temp', histogram, iNodesFreq, First, mergeFront, X,
                                                       Cut(AllNum, g), Cut(AllNum, g + 1))
    BY <1>1, <1>2, <1>6 DEF Shares, IsMerged, First
  <2> DEFINE a == AllNum
             A == curLeavesNum
             B == InnerNum
             d == Cut(a, b)
             e == Cut(a, b + 1)
             W(k) == Whole(histogram, iNodesFreq, First, mergeFront, X, k)
  <2>1. /\ Divided(path, X, a, g)
        /\ at[g] = "wait" => MergedFrom(temp, histogram, iNodesFreq, First, mergeFront, X, Cut(a, g), Cut(a, g + 1))
    BY <1>1 DEF Shares, IsMerged, First
  <2>2. \A i, j : (\A k \in i .. j - 1 : temp'[k] = W(k)) =>
                     MergedFrom(temp', histogram, iNodesFreq, First, mergeFront, X, i, j)
    BY DEF MergedFrom
  <2>3. /\ A \in Nat /\ B \in Nat /\ a \in Nat /\ a = A + B /\ tempLength = a /\ ALength = A /\ BLength = B
        /\ iNodesFront \in Nat /\ iNodesFront < iNodesRear /\ lNodesCur \in 0 .. size /\ iNodesRear \in Nat
        /\ mergeFront \in Nat /\ mergeFront + B = iNodesFront
    <3>1. iNodesRear \in 0 .. size - 1
      BY <1>3, <1>5, Room
    <3> QED BY <1>3, <1>5, <3>1, Room
  <2>4. a <= size /\ B <= size - 1
    <3>1. lNodesCur + iNodesFront = 2 * iNodesRear + a
      BY <1>5 DEF GatheredRing
    <3>2. iNodesRear <= size - 1
      BY <1>3 DEF Ring
    <3> HIDE DEF a, A, B
    <3>3. \A c, f, r, q, n \in Nat : c + f = 2 * r + q /\ f < r /\ c <= n => q <= n
      OBVIOUS
    <3>4. lNodesCur \in Nat /\ size \in Nat /\ lNodesCur <= size
      BY <1>3, <2>3
    <3> QED BY <1>3, <2>3, <3>1, <3>2, <3>3, <3>4
  <2>5. b \in 0 .. NBlocks - 1 /\ g \in 0 .. NBlocks - 1 /\ NBlocks \in Nat \ {0}
    BY Blocks DEF Block
  <2>6. d \in Nat /\ e \in Nat /\ d <= e /\ e <= a
    BY <2>3, <2>5, Cuts
  <2>7. path[b] = [x |-> X[d], y |-> d - X[d]]
    <3>1. Divided(path, X, AllNum, b)
      BY <1>1 DEF Shares
    <3> QED BY <3>1 DEF Divided
  <2>8. Goes(X, A, B, Led(copy, iNodesFreq, A, B, mergeFront))
    BY DEF IsWay
  <2>9. Shuffle(X, A, B)
    <3> DEFINE L == Led(copy, iNodesFreq, A, B, mergeFront)
    <3>1. Goes(X, A, B, L)
      BY <2>8
    <3> HIDE DEF A, B, L
    <3> QED BY <2>3, <3>1, GoesShuffle
  <2>10. stop.x = X[e] /\ stop.y = e - X[e]
    <3>1. CASE b = NBlocks - 1
      <4>1. b + 1 = NBlocks
        BY <2>5, <3>1
      <4>2. e = a
        BY <2>3, <4>1, Cuts
      <4>3. X[a] = A /\ a - A = B
        <5>1. X[A + B] = A
          BY <2>9 DEF Shuffle
        <5> HIDE DEF A, B, a
        <5> QED BY <2>3, <5>1
      <4>4. stop.x = A /\ stop.y = B
        BY <2>3, <3>1 DEF stop
      <4> QED BY <4>2, <4>3, <4>4
    <3>2. CASE b # NBlocks - 1
      <4>1. b + 1 \in Block
        BY <2>5, <3>2 DEF Block
      <4>2. Divided(path, X, AllNum, b + 1)
        BY <1>1, <4>1 DEF Shares
      <4>3. stop = path[b + 1]
        BY <3>2 DEF stop
      <4> QED BY <4>2, <4>3 DEF Divided
    <3> QED BY <3>1, <3>2
  <2> HIDE DEF a, A, B, d, e
  <2>11. /\ X[d] \in 0 .. A /\ d - X[d] \in 0 .. B /\ X[e] \in 0 .. A /\ e - X[e] \in 0 .. B
         /\ d \in 0 .. A + B /\ e \in 0 .. A + B
    <3>1. d \in 0 .. A + B /\ e \in 0 .. A + B
      BY <2>3, <2>6
    <3> QED BY <2>9, <3>1 DEF Shuffle
  <2>12. X[d] <= X[e] /\ d - X[d] <= e - X[e]
    <3>1. d \in 0 .. e
      BY <2>6
    <3> QED BY <2>3, <2>9, <2>11, <3>1, ShuffleOrder
  <2>13. from = d
    BY <2>6, <2>7, <2>11 DEF from
  <2>14. part = Serial(X[d], X[e] - X[d], d - X[d], (e - X[e]) - (d - X[d]))
    <3>1. path[b].x = X[d] /\ path[b].y = d - X[d]
      BY <2>7
    <3>2. (IF X[d] < X[e] THEN X[e] - X[d] ELSE 0) = X[e] - X[d]
      BY <2>11, <2>12
    <3>3. (e - X[e]) - (d - X[d]) \in 0 .. size - 1
      BY <1>3, <2>3, <2>4, <2>11, <2>12
    <3>4. MOD((e - X[e]) - (d - X[d])) = (e - X[e]) - (d - X[d])
      BY <1>3, <3>3, ModSmall
    <3> QED BY <2>10, <3>1, <3>2, <3>4 DEF part
  <2>15. ShareOf(part, histogram, iNodesFreq, First, mergeFront, X, d, e)
    <3>1. CopiedFrom(copy, histogram, curLeavesNum, First)
      BY <1>4 DEF Copying, First
    <3>2. e \in 0 .. AllNum /\ d \in 0 .. e
      BY <2>3, <2>6 DEF a
    <3> QED BY <1>3, <1>5, <2>14, <3>1, <3>2, SerialIs
  <2>16. temp' = [k \in 0 .. size - 1 |-> IF k - d \in 0 .. e - d - 1 THEN part[k - d] ELSE temp[k]]
    <3>1. tempLength # 0
      BY <2>3 DEF a
    <3>2. DOMAIN part = 0 .. e - d - 1
      BY <2>15 DEF ShareOf
    <3> QED BY <1>1, <1>7, <2>13, <3>1, <3>2
  <2>17. CASE g = b
    <3>1. ASSUME NEW k \in d .. e - 1 PROVE temp'[k] = W(k)
      <4> DEFINE j == k - d
      <4>1. k \in 0 .. size - 1 /\ j \in 0 .. e - d - 1 /\ d + j = k
        BY <1>3, <2>3, <2>4, <2>6
      <4> HIDE DEF j
      <4>2. temp'[k] = part[j]
        BY <2>16, <4>1 DEF j
      <4>3. part[j] = W(d + j)
        BY <2>15, <4>1 DEF ShareOf
      <4> QED BY <4>1, <4>2, <4>3
    <3> HIDE DEF W
    <3>2. MergedFrom(temp', histogram, iNodesFreq, First, mergeFront, X, d, e)
      BY <2>2, <3>1
    <3> QED BY <2>1, <2>17, <3>2 DEF d, e, a
  <2>18. CASE g # b
    <3> DEFINE i == Cut(a, g)
               j == Cut(a, g + 1)
    <3>0. i \in Nat /\ j \in Nat /\ i <= j /\ j <= a
      BY <2>3, <2>5, Cuts
    <3>1. j <= d \/ e <= i
      <4>1. CASE g < b
        <5>1. b \in 0 .. NBlocks /\ g + 1 \in 0 .. b
          BY <2>5, <4>1
        <5>2. Cut(a, g + 1) <= Cut(a, b)
          <6> DEFINE q == g + 1
          <6>1. q \in 0 .. b
            BY <5>1
          <6> HIDE DEF q
          <6>2. Cut(a, q) <= Cut(a, b)
            BY <2>3, <5>1, <6>1, CutsApart
          <6> QED BY <6>2 DEF q
        <5> QED BY <5>2 DEF d
      <4>2. CASE b < g
        <5>1. g \in 0 .. NBlocks /\ b + 1 \in 0 .. g
          BY <2>5, <4>2
        <5>2. Cut(a, b + 1) <= Cut(a, g)
          <6> DEFINE q == b + 1
          <6>1. q \in 0 .. g
            BY <5>1
          <6> HIDE DEF q
          <6>2. Cut(a, q) <= Cut(a, g)
            BY <2>3, <5>1, <6>1, CutsApart
          <6> QED BY <6>2 DEF q
        <5> QED BY <5>2 DEF e
      <4>3. g < b \/ b < g
        BY <2>5, <2>18
      <4> QED BY <4>1, <4>2, <4>3
    <3>2. ASSUME at'[g] = "wait" PROVE MergedFrom(temp', histogram, iNodesFreq, First, mergeFront, X, i, j)
      <4>1. at[g] = "wait"
        BY <1>1, <1>3, <2>18, <3>2
      <4> HIDE DEF i, j
      <4>2. ASSUME NEW k \in i .. j - 1 PROVE temp'[k] = W(k)
        <5>1. temp[k] = W(k)
          BY <2>1, <4>1 DEF MergedFrom, i, j
        <5>2. k \in 0 .. size - 1 /\ k - d \notin 0 .. e - d - 1
          BY <1>3, <2>3, <2>4, <2>6, <3>0, <3>1
        <5> QED BY <2>16, <5>1, <5>2
      <4> HIDE DEF W
      <4> QED BY <2>2, <4>2
    <3> QED BY <2>1, <3>2 DEF a
  <2> QED BY <2>17, <2>18
<1> QED BY <1>9, <1>10, <1>11, <1>12, <1>13, <1>14, <1>15

-----------------------------------------------------------------------------
(* Melding the merged nodes.                                                  *)

(* Where the nodes of a merge are in temp.                                   *)
Located(tm, pl, pi, c, m, A, B) ==
  /\ \A x \in 0 .. A - 1 : pl[x] \in 0 .. A + B - 1 /\ tm[pl[x]].leaf = TRUE /\ tm[pl[x]].index = c + x
  /\ \A y \in 0 .. B - 1 : pi[y] \in 0 .. A + B - 1 /\ tm[pi[y]].leaf = FALSE /\ tm[pi[y]].index = m + y
  /\ \A k \in 0 .. A + B - 1 : (\E x \in 0 .. A - 1 : k = pl[x]) \/ (\E y \in 0 .. B - 1 : k = pi[y])

(* Every node of the merge is at one place of temp.                           *)
LEMMA Locates ==
  ASSUME NEW A \in Nat, NEW B \in Nat, NEW X, Shuffle(X, A, B), NEW c \in Nat, NEW m \in Nat,
         NEW tm, NEW h, NEW fr, MergedFrom(tm, h, fr, c, m, X, 0, A + B)
  PROVE  \E pl, pi : Located(tm, pl, pi, c, m, A, B)
<1>1. PICK pl, pi : Slots(pl, pi, A, B, X)
  BY SlotsExist
<1>2. \A k \in 0 .. A + B - 1 : tm[k] = Whole(h, fr, c, m, X, k)
  BY DEF MergedFrom
<1>3. ASSUME NEW x \in 0 .. A - 1
      PROVE  pl[x] \in 0 .. A + B - 1 /\ tm[pl[x]].leaf = TRUE /\ tm[pl[x]].index = c + x
  <2> DEFINE k == pl[x]
  <2>1. k \in 0 .. A + B - 1 /\ X[k] = x /\ X[k + 1] = x + 1
    BY <1>1 DEF Slots
  <2> HIDE DEF k
  <2>2. X[k + 1] # X[k]
    BY <2>1
  <2>3. tm[k] = LeafNode(h, c + x)
    BY <1>2, <2>1, <2>2 DEF Whole
  <2>4. tm[k].leaf = TRUE /\ tm[k].index = c + x
    BY <2>3 DEF LeafNode
  <2> QED BY <2>1, <2>4 DEF k
<1>4. ASSUME NEW y \in 0 .. B - 1
      PROVE  pi[y] \in 0 .. A + B - 1 /\ tm[pi[y]].leaf = FALSE /\ tm[pi[y]].index = m + y
  <2> DEFINE k == pi[y]
  <2>1. k \in 0 .. A + B - 1 /\ k - X[k] = y /\ X[k + 1] = X[k]
    BY <1>1 DEF Slots
  <2> HIDE DEF k
  <2>3. tm[k] = InnerNode(fr, m + y)
    BY <1>2, <2>1 DEF Whole
  <2>4. tm[k].leaf = FALSE /\ tm[k].index = m + y
    BY <2>3 DEF InnerNode
  <2> QED BY <2>1, <2>4 DEF k
<1>5. ASSUME NEW k \in 0 .. A + B - 1
      PROVE  (\E x \in 0 .. A - 1 : k = pl[x]) \/ (\E y \in 0 .. B - 1 : k = pi[y])
  <2>1. \/ X[k] \in 0 .. A - 1 /\ pl[X[k]] = k
        \/ k - X[k] \in 0 .. B - 1 /\ pi[k - X[k]] = k
    BY <1>1 DEF Slots
  <2> QED BY <2>1
<1>6. Located(tm, pl, pi, c, m, A, B)
  BY <1>3, <1>4, <1>5 DEF Located
<1> QED BY <1>6

(* The threads of M that meld the j-th leaf, or the j-th internal node.       *)
Under(M, tm, leaf, j) == {i \in M : \E k \in {2 * i, 2 * i + 1} : tm[k].leaf = leaf /\ tm[k].index = j}
Names(nd, leaf, j) == nd.leaf = leaf /\ nd.index = j
UnderIs(M, tm, pl, pi, c, m, A, B) ==
  /\ \A x \in 0 .. A - 1 : Under(M, tm, TRUE, c + x) = {i \in M : i = Half(pl[x])}
  /\ \A y \in 0 .. B - 1 : Under(M, tm, FALSE, m + y) = {i \in M : i = Half(pi[y])}
  /\ \A j : j \notin c .. c + A - 1 => Under(M, tm, TRUE, j) = {}
  /\ \A j : j \notin m .. m + B - 1 => Under(M, tm, FALSE, j) = {}

(* The thread that melds a node is the one whose pair it is in, and the only  *)
(* one.                                                                       *)
LEMMA UnderOne ==
  ASSUME NEW A \in Nat, NEW B \in Nat, NEW t \in Nat, A + B = t + t, NEW c \in Nat, NEW m \in Nat,
         NEW tm, NEW pl, NEW pi, Located(tm, pl, pi, c, m, A, B), NEW M \in SUBSET (0 .. t - 1)
  PROVE  UnderIs(M, tm, pl, pi, c, m, A, B)
<1>1. ASSUME NEW i \in M PROVE 2 * i = i + i /\ i + i \in 0 .. A + B - 1 /\ i + i + 1 \in 0 .. A + B - 1
                               /\ Half(i + i) = i /\ Half(i + i + 1) = i
  <2>0. i \in 0 .. t - 1
    OBVIOUS
  <2>1. 2 * i = i + i /\ i + i \in 0 .. A + B - 1 /\ i + i + 1 \in 0 .. A + B - 1 /\ i \in Nat
    BY <2>0
  <2> DEFINE p == i + i
             q == i + i + 1
  <2>2. p \in Nat /\ q \in Nat
    BY <2>1
  <2>3. Half(p) \in Nat /\ (p = Half(p) + Half(p) \/ p = Half(p) + Half(p) + 1)
        /\ Half(q) \in Nat /\ (q = Half(q) + Half(q) \/ q = Half(q) + Half(q) + 1)
    <3> HIDE DEF p, q
    <3> QED BY <2>2, HalfFacts
  <2>4. \A u, v \in Nat : /\ (u + u = v + v \/ u + u = v + v + 1) => v = u
                          /\ (u + u + 1 = v + v \/ u + u + 1 = v + v + 1) => v = u
    OBVIOUS
  <2>5. Half(p) = i /\ Half(q) = i
    BY <2>1, <2>3, <2>4
  <2> QED BY <2>1, <2>5
<1>2. \A i \in M : \A leaf, j : i \in Under(M, tm, leaf, j) <=>
          Names(tm[i + i], leaf, j) \/ Names(tm[i + i + 1], leaf, j)
  BY <1>1 DEF Under, Names
<1>3. \A leaf, j : Under(M, tm, leaf, j) \subseteq M
  BY DEF Under
<1>4. ASSUME NEW k \in 0 .. A + B - 1, NEW j, Names(tm[k], TRUE, j)
      PROVE  \E x \in 0 .. A - 1 : k = pl[x] /\ j = c + x /\ j \in c .. c + A - 1
  <2>1. \E x \in 0 .. A - 1 : k = pl[x]
    <3>1. \A y \in 0 .. B - 1 : k # pi[y]
      BY <1>4 DEF Located, Names
    <3> QED BY <3>1 DEF Located
  <2>2. PICK x \in 0 .. A - 1 : k = pl[x]
    BY <2>1
  <2>3. j = c + x
    BY <1>4, <2>2 DEF Located, Names
  <2>4. j \in c .. c + A - 1
    BY <2>3
  <2> QED BY <2>2, <2>3, <2>4
<1>5. ASSUME NEW k \in 0 .. A + B - 1, NEW j, Names(tm[k], FALSE, j)
      PROVE  \E y \in 0 .. B - 1 : k = pi[y] /\ j = m + y /\ j \in m .. m + B - 1
  <2>1. \E y \in 0 .. B - 1 : k = pi[y]
    <3>1. \A x \in 0 .. A - 1 : k # pl[x]
      BY <1>5 DEF Located, Names
    <3> QED BY <3>1 DEF Located
  <2>2. PICK y \in 0 .. B - 1 : k = pi[y]
    BY <2>1
  <2>3. j = m + y
    BY <1>5, <2>2 DEF Located, Names
  <2>4. j \in m .. m + B - 1
    BY <2>3
  <2> QED BY <2>2, <2>3, <2>4
<1>6. ASSUME NEW k \in 0 .. A + B - 1, Half(k) \in M, NEW leaf, NEW j, Names(tm[k], leaf, j)
      PROVE  Half(k) \in Under(M, tm, leaf, j)
  <2> DEFINE i == Half(k)
  <2>1. k = i + i \/ k = i + i + 1
    <3>1. k \in Nat
      OBVIOUS
    <3> QED BY <3>1, HalfFacts
  <2> HIDE DEF i
  <2>2. i \in M
    BY <1>6 DEF i
  <2>3. i \in Under(M, tm, leaf, j)
    BY <1>2, <1>6, <2>1, <2>2
  <2> QED BY <2>3 DEF i
<1>7. ASSUME NEW leaf, NEW j, NEW i \in Under(M, tm, leaf, j)
      PROVE  i \in M /\ \E k \in 0 .. A + B - 1 : Half(k) = i /\ Names(tm[k], leaf, j)
  <2>1. i \in M
    BY <1>3
  <2>2. Names(tm[i + i], leaf, j) \/ Names(tm[i + i + 1], leaf, j)
    BY <1>2, <2>1
  <2> QED BY <1>1, <2>1, <2>2
<1>8. ASSUME NEW x \in 0 .. A - 1 PROVE Under(M, tm, TRUE, c + x) = {i \in M : i = Half(pl[x])}
  <2>1. ASSUME NEW i \in Under(M, tm, TRUE, c + x) PROVE i \in M /\ i = Half(pl[x])
    <3>1. i \in M
      BY <1>3
    <3>2. PICK k \in 0 .. A + B - 1 : Half(k) = i /\ Names(tm[k], TRUE, c + x)
      BY <1>7
    <3>3. PICK w \in 0 .. A - 1 : k = pl[w] /\ c + x = c + w
      BY <1>4, <3>2
    <3>4. w = x
      BY <3>3
    <3> QED BY <3>1, <3>2, <3>3, <3>4
  <2>2. ASSUME NEW i \in M, i = Half(pl[x]) PROVE i \in Under(M, tm, TRUE, c + x)
    <3> DEFINE k == pl[x]
    <3>1. k \in 0 .. A + B - 1 /\ Names(tm[k], TRUE, c + x)
      BY DEF Located, Names
    <3>2. Half(k) \in M
      BY <2>2
    <3> HIDE DEF k
    <3>3. Half(k) \in Under(M, tm, TRUE, c + x)
      BY <1>6, <3>1, <3>2
    <3> QED BY <2>2, <3>3 DEF k
  <2> QED BY <2>1, <2>2
<1>9. ASSUME NEW y \in 0 .. B - 1 PROVE Under(M, tm, FALSE, m + y) = {i \in M : i = Half(pi[y])}
  <2>1. ASSUME NEW i \in Under(M, tm, FALSE, m + y) PROVE i \in M /\ i = Half(pi[y])
    <3>1. i \in M
      BY <1>3
    <3>2. PICK k \in 0 .. A + B - 1 : Half(k) = i /\ Names(tm[k], FALSE, m + y)
      BY <1>7
    <3>3. PICK w \in 0 .. B - 1 : k = pi[w] /\ m + y = m + w
      BY <1>5, <3>2
    <3>4. w = y
      BY <3>3
    <3> QED BY <3>1, <3>2, <3>3, <3>4
  <2>2. ASSUME NEW i \in M, i = Half(pi[y]) PROVE i \in Under(M, tm, FALSE, m + y)
    <3> DEFINE k == pi[y]
    <3>1. k \in 0 .. A + B - 1 /\ Names(tm[k], FALSE, m + y)
      BY DEF Located, Names
    <3>2. Half(k) \in M
      BY <2>2
    <3> HIDE DEF k
    <3>3. Half(k) \in Under(M, tm, FALSE, m + y)
      BY <1>6, <3>1, <3>2
    <3> QED BY <2>2, <3>3 DEF k
  <2> QED BY <2>1, <2>2
<1>10. ASSUME NEW j, j \notin c .. c + A - 1 PROVE Under(M, tm, TRUE, j) = {}
  <2>1. ASSUME NEW i \in Under(M, tm, TRUE, j) PROVE FALSE
    <3>1. PICK k \in 0 .. A + B - 1 : Names(tm[k], TRUE, j)
      BY <1>7
    <3> QED BY <1>4, <1>10, <3>1
  <2> QED BY <2>1
<1>11. ASSUME NEW j, j \notin m .. m + B - 1 PROVE Under(M, tm, FALSE, j) = {}
  <2>1. ASSUME NEW i \in Under(M, tm, FALSE, j) PROVE FALSE
    <3>1. PICK k \in 0 .. A + B - 1 : Names(tm[k], FALSE, j)
      BY <1>7
    <3> QED BY <1>5, <1>11, <3>1
  <2> QED BY <2>1
<1> QED BY <1>8, <1>9, <1>10, <1>11 DEF UnderIs

(* What the threads of M make of the frequencies, the parents of the internal  *)
(* nodes, and the leaves.                                                    *)
MeltFreq(f2, fr, tm, M, r, n) ==
  /\ \A j \in 0 .. n - 1 : (\A i \in M : j # r + i) => f2[j] = fr[j]
  /\ \A i \in M : f2[r + i] = tm[2 * i].freq + tm[2 * i + 1].freq
MeltInner(i2, il, pi, M, r, m, B, n) ==
  /\ \A j \in 0 .. n - 1 : j \notin m .. m + B - 1 /\ (\A i \in M : j # r + i) => i2[j] = il[j]
  /\ \A i \in M : i2[r + i] = -1
  /\ \A y \in 0 .. B - 1 : i2[m + y] = IF Half(pi[y]) \in M THEN r + Half(pi[y]) ELSE il[m + y]
MeltLeaves(l2, c2, ll, cl, pl, M, r, c, A, n) ==
  /\ \A i \in 0 .. n : i \notin c .. c + A - 1 => l2[i] = ll[i] /\ c2[i] = cl[i]
  /\ \A x \in 0 .. A - 1 :
       /\ l2[c + x] = IF Half(pl[x]) \in M THEN r + Half(pl[x]) ELSE ll[c + x]
       /\ c2[c + x] = IF Half(pl[x]) \in M THEN cl[c + x] + 1 ELSE cl[c + x]
Melt(f2, i2, l2, c2, fr, il, ll, cl, tm, pl, pi, M, r, c, m, A, B, n) ==
  /\ MeltFreq(f2, fr, tm, M, r, n)
  /\ MeltInner(i2, il, pi, M, r, m, B, n)
  /\ MeltLeaves(l2, c2, ll, cl, pl, M, r, c, A, n)

Mine(b) == {i \in Threads(b) : i < Half(AllNum)}

(* Melding by the threads of a block is Melt for the threads that have a      *)
(* pair.                                                                      *)
LEMMA MeldMelts ==
  ASSUME histogram \in Histograms, Shapes, Ring, GatheredRing, NEW b \in Block, Meld(b),
         NEW pl, NEW pi, Located(temp, pl, pi, First, mergeFront, curLeavesNum, InnerNum)
  PROVE  /\ Melt(iNodesFreq', iNodesLeader', lNodesLeader', CL', iNodesFreq, iNodesLeader, lNodesLeader, CL,
                 temp, pl, pi, Mine(b), iNodesRear, First, mergeFront, curLeavesNum, InnerNum, size)
         /\ DOMAIN iNodesFreq' = 0 .. size - 1 /\ DOMAIN iNodesLeader' = 0 .. size - 1
         /\ DOMAIN lNodesLeader' = 0 .. size /\ DOMAIN CL' = 0 .. size
         /\ iNodesFreq' = [j \in 0 .. size - 1 |-> iNodesFreq'[j]]
         /\ iNodesLeader' = [j \in 0 .. size - 1 |-> iNodesLeader'[j]]
         /\ lNodesLeader' = [j \in 0 .. size |-> lNodesLeader'[j]]
         /\ CL' = [j \in 0 .. size |-> CL'[j]]
<1> DEFINE n == size
           A == curLeavesNum
           B == InnerNum
           m == mergeFront
           c == First
           R == iNodesRear
           t == Half(AllNum)
           fr == iNodesFreq
           il == iNodesLeader
           ll == lNodesLeader
           cl == CL
           f2 == iNodesFreq'
           i2 == iNodesLeader'
           l2 == lNodesLeader'
           c2 == CL'
           tm == temp
           M == Mine(b)
           ind(i) == MOD(R + i)
           U(leaf, j) == Under(M, tm, leaf, j)
           nodeof(j) == CHOOSE i \in M : ind(i) = j
           some(leaf, j) == CHOOSE i \in U(leaf, j) : TRUE
<1>1. /\ n \in Nat \ {0} /\ A \in Nat /\ B \in Nat /\ AllNum = A + B /\ AllNum = t + t /\ t \in Nat
      /\ R + t \in 0 .. n - 1 /\ R \in 0 .. n - 1 /\ m \in Nat /\ c \in Nat /\ tempLength \div 2 = t
      /\ m + B = iNodesFront /\ iNodesFront < R /\ c + A = lNodesCur /\ lNodesCur \in 0 .. n
      /\ iNodesFront \in Nat
  <2>1. tempLength = AllNum /\ AllNum \div 2 = t
    BY Room
  <2> QED BY <2>1, Room
<1>2. \A i \in 0 .. t : ind(i) = R + i
  BY Room
<1>3. DOMAIN fr = 0 .. n - 1 /\ DOMAIN il = 0 .. n - 1 /\ DOMAIN ll = 0 .. n /\ DOMAIN cl = 0 .. n
  BY DEF Shapes
<1>4. M \in SUBSET (0 .. t - 1)
  <2>1. Threads(b) \subseteq Nat
    BY Blocks
  <2>2. \A i \in Nat : i < t => i \in 0 .. t - 1
    BY <1>1
  <2> HIDE DEF t
  <2>3. \A i \in M : i \in Nat /\ i < t
    BY <2>1 DEF Mine, t
  <2> QED BY <2>2, <2>3
<1>5. /\ f2 = [j \in DOMAIN fr |->
              IF \E i \in M : ind(i) = j THEN tm[2 * nodeof(j)].freq + tm[2 * nodeof(j) + 1].freq ELSE fr[j]]
      /\ i2 = [j \in DOMAIN il |->
              IF U(FALSE, j) # {} THEN ind(some(FALSE, j))
              ELSE IF \E i \in M : ind(i) = j THEN -1 ELSE il[j]]
      /\ l2 = [j \in DOMAIN ll |-> IF U(TRUE, j) # {} THEN ind(some(TRUE, j)) ELSE ll[j]]
      /\ c2 = [j \in DOMAIN cl |-> cl[j] + Cardinality(U(TRUE, j))]
  <2> DEFINE mine == {i \in Threads(b) : i < tempLength \div 2}
             V(leaf, j) == {i \in mine : \E k \in {2 * i, 2 * i + 1} : temp[k].leaf = leaf /\ temp[k].index = j}
  <2>1. mine = M
    BY <1>1 DEF Mine
  <2>2. f2 = [j \in DOMAIN fr |->
                IF \E i \in mine : MOD(R + i) = j
                THEN LET i == CHOOSE i \in mine : MOD(R + i) = j IN tm[2 * i].freq + tm[2 * i + 1].freq ELSE fr[j]]
    BY DEF Meld
  <2>3. i2 = [j \in DOMAIN il |->
              IF V(FALSE, j) # {} THEN MOD(R + (CHOOSE i \in V(FALSE, j) : TRUE))
              ELSE IF \E i \in mine : MOD(R + i) = j THEN -1 ELSE il[j]]
    BY DEF Meld
  <2>4. l2 = [j \in DOMAIN ll |-> IF V(TRUE, j) # {} THEN MOD(R + (CHOOSE i \in V(TRUE, j) : TRUE)) ELSE ll[j]]
    BY DEF Meld
  <2>5. c2 = [j \in DOMAIN cl |-> cl[j] + Cardinality(V(TRUE, j))]
    BY DEF Meld
  <2>6. \A leaf, j : V(leaf, j) = U(leaf, j)
    BY <2>1 DEF Under
  <2> DEFINE V1(j) == V(TRUE, j)
             U1(j) == U(TRUE, j)
             V0(j) == V(FALSE, j)
             U0(j) == U(FALSE, j)
             some0(j) == CHOOSE i \in U0(j) : TRUE
  <2>11. \A j : V1(j) = U1(j)
    BY <2>6, Zenon
  <2>12. \A j : V0(j) = U0(j)
    BY <2>6, Zenon
  <2>17. i2 = [j \in DOMAIN il |->
              IF V0(j) # {} THEN MOD(R + (CHOOSE i \in V0(j) : TRUE))
              ELSE IF \E i \in mine : MOD(R + i) = j THEN -1 ELSE il[j]]
    BY <2>3, Zenon
  <2>13. l2 = [j \in DOMAIN ll |-> IF V1(j) # {} THEN MOD(R + (CHOOSE i \in V1(j) : TRUE)) ELSE ll[j]]
    BY <2>4, Zenon
  <2>14. c2 = [j \in DOMAIN cl |-> cl[j] + Cardinality(V1(j))]
    BY <2>5, Zenon
  <2> HIDE DEF mine, V, M, U, V1, U1, V0, U0, fr, il, ll, cl, f2, i2, l2, c2, tm, R
  <2>7. f2 = [j \in DOMAIN fr |->
              IF \E i \in M : ind(i) = j THEN tm[2 * nodeof(j)].freq + tm[2 * nodeof(j) + 1].freq ELSE fr[j]]
    BY <2>1, <2>2
  <2>18. i2 = [j \in DOMAIN il |->
              IF U0(j) # {} THEN ind(some0(j))
              ELSE IF \E i \in M : ind(i) = j THEN -1 ELSE il[j]]
    BY <2>1, <2>12, <2>17
  <2>8. i2 = [j \in DOMAIN il |->
              IF U(FALSE, j) # {} THEN ind(some(FALSE, j))
              ELSE IF \E i \in M : ind(i) = j THEN -1 ELSE il[j]]
    BY <2>18, Zenon DEF U0
  <2>15. l2 = [j \in DOMAIN ll |-> IF U1(j) # {} THEN MOD(R + (CHOOSE i \in U1(j) : TRUE)) ELSE ll[j]]
    BY <2>11, <2>13
  <2>16. c2 = [j \in DOMAIN cl |-> cl[j] + Cardinality(U1(j))]
    BY <2>11, <2>14
  <2>9. l2 = [j \in DOMAIN ll |-> IF U(TRUE, j) # {} THEN ind(some(TRUE, j)) ELSE ll[j]]
    BY <2>15, Zenon DEF U1
  <2>10. c2 = [j \in DOMAIN cl |-> cl[j] + Cardinality(U(TRUE, j))]
    BY <2>16, Zenon DEF U1
  <2> QED BY <2>7, <2>8, <2>9, <2>10
<1>6. /\ \A x \in 0 .. A - 1 : U(TRUE, c + x) = {i \in M : i = Half(pl[x])}
      /\ \A y \in 0 .. B - 1 : U(FALSE, m + y) = {i \in M : i = Half(pi[y])}
      /\ \A j : j \notin c .. c + A - 1 => U(TRUE, j) = {}
      /\ \A j : j \notin m .. m + B - 1 => U(FALSE, j) = {}
  <2>1. A + B = t + t
    BY <1>1
  <2>2. Located(tm, pl, pi, c, m, A, B)
    OBVIOUS
  <2> HIDE DEF A, B, t, c, m, tm, M
  <2>3. UnderIs(M, tm, pl, pi, c, m, A, B)
    BY <1>1, <1>4, <2>1, <2>2, UnderOne
  <2> QED BY <2>3 DEF UnderIs
<1> HIDE DEF n, A, B, m, c, R, t, fr, il, ll, cl, f2, i2, l2, c2, tm, M, U, ind, nodeof, some
<1>7. ASSUME NEW i \in M PROVE i \in 0 .. t /\ i \in 0 .. t - 1 /\ ind(i) = R + i /\ R + i \in 0 .. n - 1
  <2>1. i \in 0 .. t - 1
    BY <1>4
  <2>2. i \in 0 .. t
    BY <1>1, <2>1
  <2>3. R + i \in 0 .. n - 1
    BY <1>1, <2>1
  <2> QED BY <1>2, <2>1, <2>2, <2>3
<1>8. \A j : (\E i \in M : ind(i) = j) <=> ~(\A i \in M : j # R + i)
  BY <1>7
<1>9. ASSUME NEW i \in M PROVE nodeof(R + i) = i
  <2>1. ind(i) = R + i
    BY <1>7
  <2>2. nodeof(R + i) \in M /\ ind(nodeof(R + i)) = R + i
    BY <2>1 DEF nodeof
  <2> DEFINE k == nodeof(R + i)
  <2> HIDE DEF k
  <2>3. k \in M /\ ind(k) = R + i
    BY <2>2 DEF k
  <2>4. R + k = R + i /\ k \in Nat /\ i \in Nat
    BY <1>7, <2>3
  <2>5. k = i
    BY <1>1, <2>4
  <2> QED BY <2>5 DEF k
<1>10. MeltFreq(f2, fr, tm, M, R, n)
  <2>1. \A j \in 0 .. n - 1 : (\A i \in M : j # R + i) => f2[j] = fr[j]
    BY <1>3, <1>5, <1>8
  <2>2. ASSUME NEW i \in M PROVE f2[R + i] = tm[2 * i].freq + tm[2 * i + 1].freq
    <3> DEFINE j == R + i
    <3>1. j \in 0 .. n - 1 /\ nodeof(j) = i /\ \E k \in M : ind(k) = j
      BY <1>7, <1>9
    <3> HIDE DEF j
    <3>2. f2[j] = tm[2 * nodeof(j)].freq + tm[2 * nodeof(j) + 1].freq
      BY <1>3, <1>5, <3>1
    <3> QED BY <3>1, <3>2 DEF j
  <2> QED BY <2>1, <2>2 DEF MeltFreq
<1>11. ASSUME NEW h, NEW leaf, NEW j, U(leaf, j) = {i \in M : i = h}
       PROVE  /\ h \in M => U(leaf, j) # {} /\ ind(some(leaf, j)) = R + h /\ Cardinality(U(leaf, j)) = 1
              /\ h \notin M => U(leaf, j) = {} /\ Cardinality(U(leaf, j)) = 0
  <2>1. ASSUME h \in M PROVE U(leaf, j) # {} /\ ind(some(leaf, j)) = R + h /\ Cardinality(U(leaf, j)) = 1
    <3>1. U(leaf, j) = {h}
      BY <1>11, <2>1
    <3>2. Cardinality(U(leaf, j)) = 1
      BY <3>1, FS_Singleton
    <3>3. some(leaf, j) = h
      BY <3>1 DEF some
    <3> QED BY <1>7, <2>1, <3>1, <3>2, <3>3
  <2>2. ASSUME h \notin M PROVE U(leaf, j) = {} /\ Cardinality(U(leaf, j)) = 0
    <3>1. U(leaf, j) = {}
      BY <1>11, <2>2
    <3> QED BY <3>1, FS_EmptySet
  <2> QED BY <2>1, <2>2
<1>12. MeltInner(i2, il, pi, M, R, m, B, n)
  <2>1. ASSUME NEW j \in 0 .. n - 1, j \notin m .. m + B - 1, \A i \in M : j # R + i PROVE i2[j] = il[j]
    <3>1. U(FALSE, j) = {}
      BY <1>6, <2>1
    <3>2. ~(\E i \in M : ind(i) = j)
      BY <1>8, <2>1
    <3> QED BY <1>3, <1>5, <3>1, <3>2
  <2>2. ASSUME NEW i \in M PROVE i2[R + i] = -1
    <3> DEFINE j == R + i
    <3>1. j \in 0 .. n - 1 /\ j \notin m .. m + B - 1 /\ \E k \in M : ind(k) = j
      BY <1>1, <1>7
    <3> HIDE DEF j
    <3>2. U(FALSE, j) = {}
      BY <1>6, <3>1
    <3>3. i2[j] = -1
      BY <1>3, <1>5, <3>1, <3>2
    <3> QED BY <3>3 DEF j
  <2>3. ASSUME NEW y \in 0 .. B - 1 PROVE i2[m + y] = IF Half(pi[y]) \in M THEN R + Half(pi[y]) ELSE il[m + y]
    <3> DEFINE j == m + y
               h == Half(pi[y])
    <3>1. j \in 0 .. n - 1 /\ j < R
      BY <1>1
    <3>2. U(FALSE, j) = {i \in M : i = h}
      BY <1>6
    <3> HIDE DEF j, h
    <3>3. \A i \in M : j # R + i
      <4>1. ASSUME NEW i \in M PROVE j # R + i
        BY <1>1, <1>7, <3>1
      <4> QED BY <4>1
    <3>4. ~(\E i \in M : ind(i) = j)
      BY <1>8, <3>3
    <3>5. CASE h \in M
      <4>1. U(FALSE, j) # {} /\ ind(some(FALSE, j)) = R + h
        BY <1>11, <3>2, <3>5
      <4>2. i2[j] = R + h
        BY <1>3, <1>5, <3>1, <4>1
      <4> QED BY <3>5, <4>2 DEF j, h
    <3>6. CASE h \notin M
      <4>1. U(FALSE, j) = {}
        BY <1>11, <3>2, <3>6
      <4>2. i2[j] = il[j]
        BY <1>3, <1>5, <3>1, <3>4, <4>1
      <4> QED BY <3>6, <4>2 DEF j, h
    <3> QED BY <3>5, <3>6
  <2> QED BY <2>1, <2>2, <2>3 DEF MeltInner
<1>13. MeltLeaves(l2, c2, ll, cl, pl, M, R, c, A, n)
  <2>0. cl \in [0 .. n -> Nat]
    BY DEF Shapes, cl, n
  <2>1. ASSUME NEW i \in 0 .. n, i \notin c .. c + A - 1 PROVE l2[i] = ll[i] /\ c2[i] = cl[i]
    <3>1. U(TRUE, i) = {}
      BY <1>6, <2>1
    <3>2. Cardinality(U(TRUE, i)) = 0
      BY <3>1, FS_EmptySet
    <3>3. c2[i] = cl[i] + 0
      BY <1>3, <1>5, <3>2
    <3>4. l2[i] = ll[i]
      BY <1>3, <1>5, <3>1
    <3> QED BY <2>0, <3>3, <3>4
  <2>2. ASSUME NEW x \in 0 .. A - 1
        PROVE  /\ l2[c + x] = IF Half(pl[x]) \in M THEN R + Half(pl[x]) ELSE ll[c + x]
               /\ c2[c + x] = IF Half(pl[x]) \in M THEN cl[c + x] + 1 ELSE cl[c + x]
    <3> DEFINE j == c + x
               h == Half(pl[x])
    <3>1. j \in 0 .. n
      BY <1>1
    <3>2. U(TRUE, j) = {i \in M : i = h}
      BY <1>6
    <3> HIDE DEF j, h
    <3>3. l2[j] = (IF U(TRUE, j) # {} THEN ind(some(TRUE, j)) ELSE ll[j]) /\ c2[j] = cl[j] + Cardinality(U(TRUE, j))
      BY <1>3, <1>5, <3>1
    <3>5. CASE h \in M
      <4>1. U(TRUE, j) # {} /\ ind(some(TRUE, j)) = R + h /\ Cardinality(U(TRUE, j)) = 1
        BY <1>11, <3>2, <3>5
      <4>2. l2[j] = R + h /\ c2[j] = cl[j] + 1
        BY <3>3, <4>1
      <4> QED BY <3>5, <4>2 DEF j, h
    <3>6. CASE h \notin M
      <4>1. U(TRUE, j) = {} /\ Cardinality(U(TRUE, j)) = 0
        BY <1>11, <3>2, <3>6
      <4>2. l2[j] = ll[j] /\ c2[j] = cl[j] + 0
        BY <3>3, <4>1
      <4>3. c2[j] = cl[j]
        BY <2>0, <3>1, <4>2
      <4> QED BY <3>6, <4>2, <4>3 DEF j, h
    <3> QED BY <3>5, <3>6
  <2> QED BY <2>1, <2>2 DEF MeltLeaves
<1>14. Melt(f2, i2, l2, c2, fr, il, ll, cl, tm, pl, pi, M, R, c, m, A, B, n)
  BY <1>10, <1>12, <1>13 DEF Melt
<1>15. /\ DOMAIN f2 = 0 .. n - 1 /\ DOMAIN i2 = 0 .. n - 1 /\ DOMAIN l2 = 0 .. n /\ DOMAIN c2 = 0 .. n
       /\ f2 = [j \in 0 .. n - 1 |-> f2[j]] /\ i2 = [j \in 0 .. n - 1 |-> i2[j]]
       /\ l2 = [j \in 0 .. n |-> l2[j]] /\ c2 = [j \in 0 .. n |-> c2[j]]
  <2>1. DOMAIN f2 = 0 .. n - 1 /\ f2 = [j \in 0 .. n - 1 |-> f2[j]]
    BY <1>3, <1>5
  <2>2. DOMAIN i2 = 0 .. n - 1 /\ i2 = [j \in 0 .. n - 1 |-> i2[j]]
    BY <1>3, <1>5
  <2>3. DOMAIN l2 = 0 .. n /\ l2 = [j \in 0 .. n |-> l2[j]]
    BY <1>3, <1>5
  <2>4. DOMAIN c2 = 0 .. n /\ c2 = [j \in 0 .. n |-> c2[j]]
    BY <1>3, <1>5
  <2> QED BY <2>1, <2>2, <2>3, <2>4
<1> QED BY <1>14, <1>15 DEF n, A, B, m, c, R, fr, il, ll, cl, f2, i2, l2, c2, tm, M

(* Of the nodes merged, those of the threads of M get the parent that their   *)
(* thread gives them, the others stay as they are.                           *)
MeltsNode(nd, l2, c2, i2, ll, cl, il, j) ==
  LeaderOf(nd, l2, i2) = j /\ DepthOf(nd, c2) = (IF nd.leaf THEN DepthOf(nd, cl) + 1 ELSE DepthOf(nd, cl))
KeepsNode(nd, l2, c2, i2, ll, cl, il) ==
  LeaderOf(nd, l2, i2) = LeaderOf(nd, ll, il) /\ DepthOf(nd, c2) = DepthOf(nd, cl)

(* The same of the k-th node of the merge.                                    *)
LEMMA MeltNode ==
  ASSUME NEW A \in Nat, NEW B \in Nat, NEW n, NEW r, NEW c, NEW m,
         NEW f2, NEW i2, NEW l2, NEW c2, NEW fr, NEW il, NEW ll, NEW cl, NEW tm, NEW pl, NEW pi, NEW M,
         Located(tm, pl, pi, c, m, A, B),
         Melt(f2, i2, l2, c2, fr, il, ll, cl, tm, pl, pi, M, r, c, m, A, B, n),
         NEW k \in 0 .. A + B - 1
  PROVE  /\ Half(k) \in M => MeltsNode(tm[k], l2, c2, i2, ll, cl, il, r + Half(k))
         /\ Half(k) \notin M => KeepsNode(tm[k], l2, c2, i2, ll, cl, il)
<1> DEFINE nd == tm[k]
<1>1. (\E x \in 0 .. A - 1 : k = pl[x]) \/ (\E y \in 0 .. B - 1 : k = pi[y])
  BY DEF Located
<1>2. ASSUME NEW x \in 0 .. A - 1, k = pl[x]
      PROVE  /\ Half(k) \in M => MeltsNode(nd, l2, c2, i2, ll, cl, il, r + Half(k))
             /\ Half(k) \notin M => KeepsNode(nd, l2, c2, i2, ll, cl, il)
  <2>1. nd.leaf = TRUE /\ nd.index = c + x
    BY <1>2 DEF Located
  <2>2. /\ l2[c + x] = IF Half(pl[x]) \in M THEN r + Half(pl[x]) ELSE ll[c + x]
        /\ c2[c + x] = IF Half(pl[x]) \in M THEN cl[c + x] + 1 ELSE cl[c + x]
    BY DEF Melt, MeltLeaves
  <2> DEFINE i == c + x
             h == Half(k)
  <2> HIDE DEF nd
  <2>3. nd.leaf /\ nd.index = i /\ l2[i] = (IF h \in M THEN r + h ELSE ll[i]) /\ c2[i] = IF h \in M THEN cl[i] + 1 ELSE cl[i]
    BY <1>2, <2>1, <2>2
  <2> HIDE DEF i, h
  <2>4. /\ LeaderOf(nd, l2, i2) = l2[i] /\ LeaderOf(nd, ll, il) = ll[i]
        /\ DepthOf(nd, c2) = c2[i] /\ DepthOf(nd, cl) = cl[i]
    BY <2>3 DEF LeaderOf, DepthOf
  <2>5. h \in M => MeltsNode(nd, l2, c2, i2, ll, cl, il, r + h)
    BY <2>3, <2>4 DEF MeltsNode
  <2>6. h \notin M => KeepsNode(nd, l2, c2, i2, ll, cl, il)
    BY <2>3, <2>4 DEF KeepsNode
  <2> QED BY <2>5, <2>6 DEF h
<1>3. ASSUME NEW y \in 0 .. B - 1, k = pi[y]
      PROVE  /\ Half(k) \in M => MeltsNode(nd, l2, c2, i2, ll, cl, il, r + Half(k))
             /\ Half(k) \notin M => KeepsNode(nd, l2, c2, i2, ll, cl, il)
  <2>1. nd.leaf = FALSE /\ nd.index = m + y
    BY <1>3 DEF Located
  <2>2. i2[m + y] = IF Half(pi[y]) \in M THEN r + Half(pi[y]) ELSE il[m + y]
    BY DEF Melt, MeltInner
  <2> DEFINE i == m + y
             h == Half(k)
  <2> HIDE DEF nd
  <2>3. ~nd.leaf /\ nd.index = i /\ i2[i] = (IF h \in M THEN r + h ELSE il[i])
    BY <1>3, <2>1, <2>2
  <2> HIDE DEF i, h
  <2>4. /\ LeaderOf(nd, l2, i2) = i2[i] /\ LeaderOf(nd, ll, il) = il[i]
        /\ DepthOf(nd, c2) = 0 /\ DepthOf(nd, cl) = 0
    BY <2>3 DEF LeaderOf, DepthOf
  <2>5. h \in M => MeltsNode(nd, l2, c2, i2, ll, cl, il, r + h)
    BY <2>3, <2>4 DEF MeltsNode
  <2>6. h \notin M => KeepsNode(nd, l2, c2, i2, ll, cl, il)
    BY <2>3, <2>4 DEF KeepsNode
  <2> QED BY <2>5, <2>6 DEF h
<1> QED BY <1>1, <1>2, <1>3

(* A pair is joined by its thread, and by no other.                           *)
Parted(tm, ll, cl, il, i) == Apart(tm[2 * i], ll, cl, il) /\ Apart(tm[2 * i + 1], ll, cl, il)
MeltsPair(tm, f2, i2, l2, c2, fr, il, ll, cl, M, r, i) ==
  /\ i \in M /\ Parted(tm, ll, cl, il, i) => Joined(tm, l2, c2, f2, i2, r + i, i)
  /\ i \notin M /\ Parted(tm, ll, cl, il, i) => Parted(tm, l2, c2, i2, i)
  /\ i \notin M /\ Joined(tm, ll, cl, fr, il, r + i, i) => Joined(tm, l2, c2, f2, i2, r + i, i)
MeltsPairs(tm, f2, i2, l2, c2, fr, il, ll, cl, M, r, t) ==
  \A i \in 0 .. t - 1 : MeltsPair(tm, f2, i2, l2, c2, fr, il, ll, cl, M, r, i)

(* Threads of a block join their pairs, and leave those of other blocks.      *)
LEMMA MeltPair ==
  ASSUME NEW A \in Nat, NEW B \in Nat, NEW n \in Nat, NEW r \in Nat, NEW c \in Nat, NEW m \in Nat,
         NEW t \in Nat, A + B = t + t, r + t <= n, m + B <= r,
         NEW f2, NEW i2, NEW l2, NEW c2, NEW fr, NEW il, NEW ll, NEW cl, NEW tm, NEW pl, NEW pi,
         NEW M \in SUBSET (0 .. t - 1),
         Located(tm, pl, pi, c, m, A, B),
         Melt(f2, i2, l2, c2, fr, il, ll, cl, tm, pl, pi, M, r, c, m, A, B, n)
  PROVE  MeltsPairs(tm, f2, i2, l2, c2, fr, il, ll, cl, M, r, t)
<1> SUFFICES ASSUME NEW i \in 0 .. t - 1 PROVE MeltsPair(tm, f2, i2, l2, c2, fr, il, ll, cl, M, r, i)
  BY DEF MeltsPairs
<1> DEFINE p == 2 * i
           q == 2 * i + 1
<1>1. p \in 0 .. A + B - 1 /\ q \in 0 .. A + B - 1 /\ i \in Nat /\ p = i + i /\ q = i + i + 1
  OBVIOUS
<1>2. Half(p) = i /\ Half(q) = i
  <2>1. \A u, v \in Nat : /\ (u + u = v + v \/ u + u = v + v + 1) => v = u
                          /\ (u + u + 1 = v + v \/ u + u + 1 = v + v + 1) => v = u
    OBVIOUS
  <2>2. p \in Nat /\ q \in Nat
    BY <1>1
  <2> HIDE DEF p, q
  <2>3. Half(p) \in Nat /\ (p = Half(p) + Half(p) \/ p = Half(p) + Half(p) + 1)
        /\ Half(q) \in Nat /\ (q = Half(q) + Half(q) \/ q = Half(q) + Half(q) + 1)
    BY <2>2, HalfFacts
  <2> QED BY <1>1, <2>1, <2>3
<1> HIDE DEF p, q
<1>3. /\ i \in M => MeltsNode(tm[p], l2, c2, i2, ll, cl, il, r + i) /\ MeltsNode(tm[q], l2, c2, i2, ll, cl, il, r + i)
      /\ i \notin M => KeepsNode(tm[p], l2, c2, i2, ll, cl, il) /\ KeepsNode(tm[q], l2, c2, i2, ll, cl, il)
  <2>1. /\ Half(p) \in M => MeltsNode(tm[p], l2, c2, i2, ll, cl, il, r + Half(p))
        /\ Half(p) \notin M => KeepsNode(tm[p], l2, c2, i2, ll, cl, il)
    BY <1>1, MeltNode
  <2>2. /\ Half(q) \in M => MeltsNode(tm[q], l2, c2, i2, ll, cl, il, r + Half(q))
        /\ Half(q) \notin M => KeepsNode(tm[q], l2, c2, i2, ll, cl, il)
    BY <1>1, MeltNode
  <2> QED BY <1>2, <2>1, <2>2
<1>4. ASSUME i \in M, Parted(tm, ll, cl, il, i) PROVE Joined(tm, l2, c2, f2, i2, r + i, i)
  <2>1. f2[r + i] = tm[p].freq + tm[q].freq
    BY <1>4 DEF Melt, MeltFreq, p, q
  <2>2. i2[r + i] = -1
    BY <1>4 DEF Melt, MeltInner
  <2>3. Apart(tm[p], ll, cl, il) /\ Apart(tm[q], ll, cl, il)
    BY <1>4 DEF Parted, p, q
  <2>4. ASSUME NEW nd, MeltsNode(nd, l2, c2, i2, ll, cl, il, r + i), Apart(nd, ll, cl, il)
        PROVE  Melded(nd, l2, c2, i2, r + i)
    <3>1. LeaderOf(nd, l2, i2) = r + i
      BY <2>4 DEF MeltsNode
    <3>2. nd.leaf => DepthOf(nd, c2) = DepthOf(nd, cl) + 1
      BY <2>4 DEF MeltsNode
    <3>3. DepthOf(nd, cl) = 0
      BY <2>4 DEF Apart
    <3>4. nd.leaf => DepthOf(nd, c2) = 1
      BY <3>2, <3>3
    <3> QED BY <3>1, <3>4 DEF Melded
  <2>5. Melded(tm[p], l2, c2, i2, r + i) /\ Melded(tm[q], l2, c2, i2, r + i)
    BY <1>3, <1>4, <2>3, <2>4
  <2> QED BY <2>1, <2>2, <2>5 DEF Joined, p, q
<1>5. ASSUME i \notin M, Parted(tm, ll, cl, il, i) PROVE Parted(tm, l2, c2, i2, i)
  <2>1. Apart(tm[p], ll, cl, il) /\ Apart(tm[q], ll, cl, il)
    BY <1>5 DEF Parted, p, q
  <2>2. Apart(tm[p], l2, c2, i2) /\ Apart(tm[q], l2, c2, i2)
    BY <1>3, <1>5, <2>1 DEF Apart, KeepsNode
  <2> QED BY <2>2 DEF Parted, p, q
<1>6. ASSUME i \notin M, Joined(tm, ll, cl, fr, il, r + i, i) PROVE Joined(tm, l2, c2, f2, i2, r + i, i)
  <2> DEFINE j == r + i
  <2>1. j \in 0 .. n - 1 /\ j \notin m .. m + B - 1
    BY <1>1
  <2>2. \A d \in M : j # r + d
    <3> SUFFICES ASSUME NEW d \in M, j = r + d PROVE FALSE
      OBVIOUS
    <3>1. d \in 0 .. t - 1
      OBVIOUS
    <3>2. d = i
      BY <1>1, <3>1
    <3> QED BY <1>6, <3>2
  <2> HIDE DEF j
  <2>3. f2[j] = fr[j] /\ i2[j] = il[j]
    BY <2>1, <2>2 DEF Melt, MeltFreq, MeltInner
  <2>4. /\ fr[j] = tm[p].freq + tm[q].freq /\ il[j] = -1
        /\ Melded(tm[p], ll, cl, il, j) /\ Melded(tm[q], ll, cl, il, j)
    BY <1>6 DEF Joined, p, q, j
  <2>5. Melded(tm[p], l2, c2, i2, j) /\ Melded(tm[q], l2, c2, i2, j)
    BY <1>3, <1>6, <2>4 DEF Melded, KeepsNode
  <2> QED BY <2>3, <2>4, <2>5 DEF Joined, p, q, j
<1> QED BY <1>4, <1>5, <1>6 DEF MeltsPair

(* What was merged does not depend on the frequencies of new nodes.           *)
LEMMA MergedSame ==
  ASSUME NEW A \in Nat, NEW B \in Nat, NEW X, Shuffle(X, A, B), NEW m \in Nat, NEW r \in Nat, m + B <= r,
         NEW fr, NEW f2, \A j \in 0 .. r - 1 : f2[j] = fr[j],
         NEW tm, NEW h, NEW c, MergedFrom(tm, h, fr, c, m, X, 0, A + B)
  PROVE  MergedFrom(tm, h, f2, c, m, X, 0, A + B)
<1> SUFFICES ASSUME NEW k \in 0 .. A + B - 1 PROVE tm[k] = Whole(h, f2, c, m, X, k)
  BY DEF MergedFrom
<1>1. tm[k] = Whole(h, fr, c, m, X, k)
  BY DEF MergedFrom
<1>2. CASE X[k + 1] = X[k]
  <2> DEFINE j == m + (k - X[k])
             e == k + 1
  <2>1. e \in 0 .. A + B /\ k \in 0 .. A + B
    OBVIOUS
  <2>2. X[e] \in 0 .. A /\ e - X[e] \in 0 .. B /\ X[k] \in 0 .. A /\ k - X[k] \in 0 .. B
    BY <2>1 DEF Shuffle
  <2>3. j \in 0 .. r - 1
    BY <1>2, <2>2
  <2> HIDE DEF j
  <2>4. f2[j] = fr[j]
    BY <2>3
  <2>5. InnerNode(f2, j) = InnerNode(fr, j)
    BY <2>4 DEF InnerNode
  <2> QED BY <1>1, <1>2, <2>5 DEF Whole, j
<1>3. CASE X[k + 1] # X[k]
  BY <1>1, <1>3 DEF Whole
<1> QED BY <1>2, <1>3

(* The frequencies merged are numbers.                                       *)
LEMMA MergedNumbers ==
  ASSUME NEW A \in Nat, NEW B \in Nat, NEW X, Shuffle(X, A, B), NEW m \in Nat, NEW c \in Nat,
         NEW n \in Nat, m + B <= n, c + A <= n,
         NEW h \in [0 .. n - 1 -> Nat], NEW fr \in [0 .. n - 1 -> Nat],
         NEW tm, MergedFrom(tm, h, fr, c, m, X, 0, A + B), NEW k \in 0 .. A + B - 1
  PROVE  tm[k].freq \in Nat
<1>1. tm[k] = Whole(h, fr, c, m, X, k)
  BY DEF MergedFrom
<1> DEFINE e == k + 1
<1>2. e \in 0 .. A + B /\ k \in 0 .. A + B
  OBVIOUS
<1>3. X[e] \in 0 .. A /\ e - X[e] \in 0 .. B /\ X[k] \in 0 .. A /\ k - X[k] \in 0 .. B /\ (X[e] = X[k] \/ X[e] = X[k] + 1)
  BY <1>2 DEF Shuffle
<1>4. CASE X[e] = X[k]
  <2> DEFINE j == m + (k - X[k])
  <2>0. \A x \in Nat : k - x \in 0 .. B /\ (k + 1) - x \in 0 .. B => m + (k - x) \in 0 .. n - 1
    OBVIOUS
  <2>4. X[k] \in Nat /\ k - X[k] \in 0 .. B /\ (k + 1) - X[k] \in 0 .. B
    BY <1>3, <1>4
  <2>1. j \in 0 .. n - 1
    BY <2>0, <2>4, Zenon
  <2> HIDE DEF j
  <2>2. fr[j] \in Nat
    BY <2>1
  <2>3. tm[k] = InnerNode(fr, j)
    BY <1>1, <1>4 DEF Whole, j
  <2> QED BY <2>2, <2>3 DEF InnerNode
<1>5. CASE X[e] # X[k]
  <2> DEFINE j == c + X[k]
  <2>0. \A x \in Nat : x + 1 <= A => c + x \in 0 .. n - 1
    OBVIOUS
  <2>4. X[k] \in Nat /\ X[k] + 1 <= A
    BY <1>3, <1>5, SMTT(30)
  <2>1. j \in 0 .. n - 1
    BY <2>0, <2>4
  <2> HIDE DEF j
  <2>2. h[j] \in Nat
    BY <2>1
  <2>3. tm[k] = LeafNode(h, j)
    BY <1>1, <1>5 DEF Whole, j
  <2> QED BY <2>2, <2>3 DEF LeafNode
<1> QED BY <1>4, <1>5

(* What is in a run of A from c on is some place of the run from c.           *)
LEMMA Offset ==
  ASSUME NEW A \in Nat, NEW c \in Nat, NEW i \in c .. c + A - 1
  PROVE  i - c \in 0 .. A - 1 /\ c + (i - c) = i
OBVIOUS

(* Melding keeps the types of the nodes.                                     *)
NodeTypes(f2, i2, l2, c2, n) ==
  /\ \A j \in 0 .. n - 1 : f2[j] \in Nat /\ i2[j] \in Int
  /\ \A i \in 0 .. n : l2[i] \in Int /\ c2[i] \in Nat

(* Melding keeps frequencies, leaders and lengths numbers.                    *)
LEMMA MeltTypes ==
  ASSUME NEW A \in Nat, NEW B \in Nat, NEW n \in Nat, NEW r \in Nat, NEW c \in Nat, NEW m \in Nat,
         NEW t \in Nat, A + B = t + t, r + t <= n, m + B <= r, c + A <= n,
         NEW f2, NEW i2, NEW l2, NEW c2, NEW tm, NEW pl, NEW pi, NEW M \in SUBSET (0 .. t - 1),
         NEW fr \in [0 .. n - 1 -> Nat], NEW il \in [0 .. n - 1 -> Int],
         NEW ll \in [0 .. n -> Int], NEW cl \in [0 .. n -> Nat],
         Melt(f2, i2, l2, c2, fr, il, ll, cl, tm, pl, pi, M, r, c, m, A, B, n),
         \A k \in 0 .. A + B - 1 : tm[k].freq \in Nat
  PROVE  NodeTypes(f2, i2, l2, c2, n)
<1>0. \A i \in M : i \in 0 .. t - 1
  OBVIOUS
<1>1. ASSUME NEW j \in 0 .. n - 1 PROVE f2[j] \in Nat
  <2>1. CASE \A i \in M : j # r + i
    BY <2>1 DEF Melt, MeltFreq
  <2>2. ASSUME NEW i \in M, j = r + i PROVE f2[j] \in Nat
    <3>1. 2 * i \in 0 .. A + B - 1 /\ 2 * i + 1 \in 0 .. A + B - 1
      BY <1>0
    <3> DEFINE p == 2 * i
               q == 2 * i + 1
    <3>2. f2[r + i] = tm[p].freq + tm[q].freq
      BY DEF Melt, MeltFreq
    <3>3. p \in 0 .. A + B - 1 /\ q \in 0 .. A + B - 1
      BY <3>1
    <3> HIDE DEF p, q
    <3>4. tm[p].freq \in Nat /\ tm[q].freq \in Nat
      BY <3>3
    <3>5. \A u, v \in Nat : u + v \in Nat
      OBVIOUS
    <3>6. f2[r + i] \in Nat
      BY <3>2, <3>4, <3>5, Zenon
    <3> QED BY <2>2, <3>6
  <2> QED BY <2>1, <2>2
<1>2. ASSUME NEW j \in 0 .. n - 1 PROVE i2[j] \in Int
  <2>1. CASE j \notin m .. m + B - 1 /\ \A i \in M : j # r + i
    BY <2>1 DEF Melt, MeltInner
  <2>2. ASSUME NEW i \in M, j = r + i PROVE i2[j] \in Int
    BY <2>2, SMTT(30) DEF Melt, MeltInner
  <2>3. CASE j \in m .. m + B - 1
    <3> DEFINE y == j - m
               g == Half(pi[y])
    <3>1. y \in 0 .. B - 1 /\ m + y = j
      BY <2>3
    <3> HIDE DEF y
    <3>2. i2[j] = IF g \in M THEN r + g ELSE il[j]
      BY <3>1 DEF Melt, MeltInner
    <3> HIDE DEF g
    <3>3. g \in M => r + g \in Int
      BY <1>0
    <3> QED BY <3>2, <3>3
  <2> QED BY <2>1, <2>2, <2>3
<1>3. ASSUME NEW i \in 0 .. n PROVE l2[i] \in Int /\ c2[i] \in Nat
  <2>1. CASE i \notin c .. c + A - 1
    BY <2>1 DEF Melt, MeltLeaves
  <2>2. CASE i \in c .. c + A - 1
    <3> DEFINE x == i - c
               g == Half(pl[x])
    <3>1. x \in 0 .. A - 1 /\ c + x = i
      BY <2>2, Offset
    <3> HIDE DEF x
    <3>2. l2[i] = (IF g \in M THEN r + g ELSE ll[i]) /\ c2[i] = (IF g \in M THEN cl[i] + 1 ELSE cl[i])
      BY <3>1 DEF Melt, MeltLeaves
    <3> HIDE DEF g
    <3>3. g \in M => r + g \in Int
      BY <1>0
    <3>4. ll[i] \in Int /\ cl[i] \in Nat
      OBVIOUS
    <3> QED BY <3>2, <3>3, <3>4, SMTT(30)
  <2> QED BY <2>1, <2>2
<1> QED BY <1>1, <1>2, <1>3 DEF NodeTypes

(* Melding keeps the forest of the leaves before those merged.               *)
Kept(ll, cl, il, m, r, c, n, d, f) ==
  /\ Placed(ll, cl, il, m, r, c) /\ Ordered(ll, cl, il, m, c) /\ Filled(ll, cl, il, m, r, c, n)
  /\ Fresh(ll, cl, d, n) /\ Rooted(il, f, r) /\ Raised(ll, il, m, c, f)

(* Melding some of the pairs keeps what the forest of the other leaves is.    *)
LEMMA MeltForest ==
  ASSUME NEW A \in Nat, NEW B \in Nat, NEW n \in Nat, NEW r \in Nat, NEW c \in Nat, NEW m \in Nat,
         NEW t \in Nat, r + t <= n, m + B < r, c + A <= n, NEW M \in SUBSET (0 .. t - 1),
         NEW f2, NEW i2, NEW l2, NEW c2, NEW fr, NEW il, NEW ll, NEW cl, NEW tm, NEW pl, NEW pi,
         Melt(f2, i2, l2, c2, fr, il, ll, cl, tm, pl, pi, M, r, c, m, A, B, n),
         Kept(ll, cl, il, m, r, c, n, c + A, m + B)
  PROVE  Kept(l2, c2, i2, m, r, c, n, c + A, m + B)
<1>0. /\ Placed(ll, cl, il, m, r, c) /\ Ordered(ll, cl, il, m, c) /\ Filled(ll, cl, il, m, r, c, n)
      /\ Fresh(ll, cl, c + A, n) /\ Rooted(il, m + B, r) /\ Raised(ll, il, m, c, m + B)
  BY DEF Kept
<1>1. ASSUME NEW j \in 0 .. r - 1, j \notin m .. m + B - 1 PROVE i2[j] = il[j]
  <2>1. j \in 0 .. n - 1 /\ \A i \in M : j # r + i
    OBVIOUS
  <2> QED BY <1>1, <2>1 DEF Melt, MeltInner
<1>2. \A i \in 0 .. n : i \notin c .. c + A - 1 => l2[i] = ll[i] /\ c2[i] = cl[i]
  BY DEF Melt, MeltLeaves
<1>3. ASSUME NEW i \in 0 .. c - 1
      PROVE  l2[i] = ll[i] /\ c2[i] = cl[i] /\ (ll[i] < m => i2[ll[i]] = il[ll[i]])
  <2>1. i \in 0 .. n /\ i \notin c .. c + A - 1
    OBVIOUS
  <2>2. ll[i] \in 0 .. r - 1
    BY <1>0 DEF Placed
  <2>3. ll[i] < m => ll[i] \notin m .. m + B - 1
    BY <2>2
  <2> QED BY <1>1, <1>2, <2>1, <2>2, <2>3
<1>4. Placed(l2, c2, i2, m, r, c) /\ Ordered(l2, c2, i2, m, c) /\ Filled(l2, c2, i2, m, r, c, n)
  BY <1>0, <1>3, GrownSame
<1>5. Fresh(l2, c2, c + A, n)
  <2> SUFFICES ASSUME NEW i \in c + A .. n - 1 PROVE l2[i] = -1 /\ c2[i] = 0
    BY DEF Fresh
  <2>1. i \in 0 .. n /\ i \notin c .. c + A - 1
    OBVIOUS
  <2> QED BY <1>0, <1>2, <2>1 DEF Fresh
<1>6. Rooted(i2, m + B, r)
  <2> SUFFICES ASSUME NEW j \in m + B .. r - 1 PROVE i2[j] = -1
    BY DEF Rooted
  <2>1. j \in 0 .. r - 1 /\ j \notin m .. m + B - 1
    OBVIOUS
  <2> QED BY <1>0, <1>1, <2>1 DEF Rooted
<1>7. Raised(l2, i2, m, c, m + B)
  BY <1>0, <1>3 DEF Raised
<1> QED BY <1>4, <1>5, <1>6, <1>7 DEF Kept

(* The threads of a block meld their pairs.                                  *)
LEMMA MeldStep ==
  ASSUME Places, Several, size > 1, NEW b \in Block, Meld(b)
  PROVE  Several'
<1> USE DEF Several
<1>1. /\ phase = "meld" /\ at[b] = "run" /\ phase' = "meld" /\ histogram' = histogram
      /\ at' = [at EXCEPT ![b] = "wait"]
      /\ UNCHANGED iters /\ curLeavesNum' = curLeavesNum /\ UNCHANGED merged
  BY DEF Meld, At, Go
<1>2. /\ lNodesCur' = lNodesCur
      /\ iNodesFront' = iNodesFront /\ iNodesRear' = iNodesRear /\ iNodesSize' = iNodesSize
      /\ minFreq' = minFreq
      /\ mergeFront' = mergeFront /\ mergeRear' = mergeRear /\ copy' = copy /\ temp' = temp /\ path' = path
  BY <1>1 DEF merged, iters
<1>3. /\ histogram \in Histograms /\ size \in Nat \ {0} /\ size' = size
      /\ at \in [Block -> {"run", "half", "wait", "exit"}] /\ 0 \in Block
      /\ histogram \in [0 .. size - 1 -> Nat \ {0}]
  BY <1>1, Sizes, Blocks DEF Places, size
<1>4. /\ Gathered /\ Gathered' /\ ~Combined' /\ ~AtRest' /\ ~Advanced'
  BY <1>1 DEF Combined, AtRest, Gathered, Advanced
<1>5. Ring /\ GatheredRing
  BY <1>4 DEF Ring
<1>6. InnerNum' = InnerNum /\ AllNum' = AllNum
  BY <1>1, <1>2 DEF InnerNum, AllNum
<1> DEFINE n == size
           F == iNodesFront
           R == iNodesRear
           A == curLeavesNum
           m == mergeFront
           B == InnerNum
           a == AllNum
           t == Half(a)
           c == First
           h == histogram
           fr == iNodesFreq
           ll == lNodesLeader
           cl == CL
           il == iNodesLeader
           f2 == iNodesFreq'
           l2 == lNodesLeader'
           c2 == CL'
           i2 == iNodesLeader'
           tm == temp
           L == Led(copy, iNodesFreq, curLeavesNum, InnerNum, mergeFront)
           M == Mine(b)
<1>7. /\ lNodesCur \in 0 .. n /\ R \in 0 .. n - 1 /\ A \in Nat /\ B \in Nat /\ a \in Nat /\ a = A + B
      /\ t \in Nat /\ a = t + t /\ a \div 2 = t /\ R + t \in 0 .. n - 1
      /\ m \in Nat /\ m + B = F /\ F < R /\ F \in Nat /\ c \in Nat /\ c + A = lNodesCur
  BY <1>3, <1>5, Room
<1>8. PICK X : Goes(X, A, B, L)
  <2> HIDE DEF A, B, L
  <2> QED BY <1>7, GoesExists
<1>9. Shuffle(X, A, B)
  <2> HIDE DEF A, B, L
  <2> QED BY <1>7, <1>8, GoesShuffle
<1>10. MergedFrom(tm, h, fr, c, m, X, 0, A + B)
  <2>1. IsWay(X)
    BY <1>8 DEF IsWay
  <2>2. IsMerged(X, 0, AllNum)
    BY <1>1, <2>1 DEF Shares
  <2> QED BY <1>7, <2>2 DEF IsMerged, First
<1>11. PICK pl, pi : Located(tm, pl, pi, c, m, A, B)
  <2> HIDE DEF A, B, c, m, tm, h, fr
  <2> QED BY <1>7, <1>9, <1>10, Locates
<1>12. /\ Melt(f2, i2, l2, c2, fr, il, ll, cl, tm, pl, pi, M, R, c, m, A, B, n)
       /\ f2 = [j \in 0 .. n - 1 |-> f2[j]] /\ i2 = [j \in 0 .. n - 1 |-> i2[j]]
       /\ l2 = [j \in 0 .. n |-> l2[j]] /\ c2 = [j \in 0 .. n |-> c2[j]]
  BY <1>3, <1>5, <1>11, MeldMelts
<1>13. /\ fr \in [0 .. n - 1 -> Nat] /\ h \in [0 .. n - 1 -> Nat] /\ il \in [0 .. n - 1 -> Int]
       /\ ll \in [0 .. n -> Int] /\ cl \in [0 .. n -> Nat]
  <2>1. /\ fr \in [0 .. n - 1 -> Nat] /\ il \in [0 .. n - 1 -> Int]
        /\ ll \in [0 .. n -> Int] /\ cl \in [0 .. n -> Nat]
    BY DEF Shapes
  <2>2. h \in [0 .. n - 1 -> Nat]
    BY <1>3
  <2> QED BY <2>1, <2>2
<1>14. /\ Placed(ll, cl, il, m, R, c) /\ Ordered(ll, cl, il, m, c) /\ Filled(ll, cl, il, m, R, c, n)
       /\ Fresh(ll, cl, lNodesCur, n) /\ Rooted(il, F, R) /\ Raised(ll, il, m, c, F)
  <2>1. GatheredForest
    BY <1>4 DEF Forest
  <2> QED BY <2>1 DEF GatheredForest, Grown, First
<1>31. Melt(f2, i2, l2, c2, fr, il, ll, cl, tm, pl, pi, M, R, c, m, A, B, n)
  BY <1>12
<1>15. M \in SUBSET (0 .. t - 1) /\ \A g \in Block : \A i \in Threads(g) : i < a \div 2 => i \in 0 .. t - 1 /\ (i \in M <=> g = b)
  <2>1. /\ \A g \in Block : Threads(g) \subseteq Nat
        /\ \A g, d \in Block : \A i \in Threads(g) : i \in Threads(d) => g = d
    BY Blocks
  <2>2. \A i \in Nat : i < t => i \in 0 .. t - 1
    BY <1>7
  <2> HIDE DEF t, a
  <2>3. \A i \in M : i \in 0 .. t - 1
    BY <2>1, <2>2 DEF Mine, t, a
  <2>4. ASSUME NEW g \in Block, NEW i \in Threads(g), i < a \div 2 PROVE i \in 0 .. t - 1 /\ (i \in M <=> g = b)
    <3>1. i \in Nat /\ i < t
      BY <1>7, <2>1, <2>4
    <3>2. i \in M <=> i \in Threads(b)
      BY <3>1 DEF Mine, t, a
    <3> QED BY <2>1, <2>2, <3>1, <3>2
  <2> QED BY <2>3, <2>4
<1>16. Weigh(fr, m, R) <= Sums(h)[c]
  BY <1>4 DEF Weights, GatheredWeights, First
<1>17. n' = n /\ h' = h /\ m' = m /\ A' = A /\ B' = B /\ a' = a /\ R' = R /\ tm' = tm /\ c' = c /\ F' = F
  BY <1>1, <1>2, <1>3, <1>6 DEF First
<1>18. n \in Nat
  BY <1>3
<1>19. ASSUME NEW i PROVE (IsApart(i) <=> Parted(tm, ll, cl, il, i)) /\ (IsJoined(i) <=> Joined(tm, ll, cl, fr, il, R + i, i))
  BY DEF IsApart, IsJoined, Parted
<1>20. ASSUME NEW i PROVE IsJoined(i)' <=> Joined(tm, l2, c2, f2, i2, R + i, i)
  BY <1>17 DEF IsJoined
<1>21. ASSUME NEW i PROVE IsApart(i)' <=> Parted(tm, l2, c2, i2, i)
  BY <1>17 DEF IsApart, Parted
<1>22. f2 \in [0 .. n - 1 -> Nat] /\ i2 \in [0 .. n - 1 -> Int] /\ l2 \in [0 .. n -> Int] /\ c2 \in [0 .. n -> Nat]
  <2> HIDE DEF n, F, R, A, m, B, a, t, c, h, fr, ll, cl, il, tm, L, M, f2, i2, l2, c2
  <2>1. A + B = t + t /\ R + t <= n /\ m + B <= R /\ c + A <= n /\ m + B <= n /\ R \in Nat
    BY <1>7, <1>18
  <2>2. \A k \in 0 .. A + B - 1 : tm[k].freq \in Nat
    BY <1>7, <1>9, <1>10, <1>13, <1>18, <2>1, MergedNumbers
  <2>3. /\ A \in Nat /\ B \in Nat /\ t \in Nat /\ c \in Nat /\ m \in Nat
    BY <1>7
  <2>4. M \in SUBSET (0 .. t - 1)
    BY <1>15
  <2>5. NodeTypes(f2, i2, l2, c2, n)
    BY <1>13, <1>18, <1>31, <2>1, <2>2, <2>3, <2>4, MeltTypes
  <2>6. /\ f2 = [j \in 0 .. n - 1 |-> f2[j]] /\ i2 = [j \in 0 .. n - 1 |-> i2[j]]
        /\ l2 = [j \in 0 .. n |-> l2[j]] /\ c2 = [j \in 0 .. n |-> c2[j]]
    BY <1>12
  <2> QED BY <2>5, <2>6 DEF NodeTypes
<1>23. Shapes'
  <2>1. /\ copy' = [k \in 0 .. size' - 1 |-> copy'[k]] /\ temp' = [k \in 0 .. size' - 1 |-> temp'[k]]
        /\ path' = [d \in Block |-> path'[d]] /\ minFreq' \in Nat
    BY <1>2, <1>3 DEF Shapes
  <2> QED BY <1>3, <1>22, <2>1 DEF Shapes
<1>24. Ring'
  <2>1. GatheredRing'
    BY <1>1, <1>2, <1>5, <1>6 DEF GatheredRing
  <2> QED BY <1>1, <1>2, <1>3, <1>4, <2>1 DEF Ring
<1>25. Copying'
  <2>1. CopiedFrom(copy, histogram, curLeavesNum, lNodesCur - curLeavesNum)
    BY <1>4 DEF Copying
  <2> QED BY <1>1, <1>2, <1>4, <2>1 DEF Copying
<1>26. \A j \in 0 .. R - 1 : f2[j] = fr[j]
  <2> HIDE DEF n, F, R, A, m, B, a, t, c, h, fr, ll, cl, il, tm, L, M, f2, i2, l2, c2
  <2> SUFFICES ASSUME NEW j \in 0 .. R - 1 PROVE f2[j] = fr[j]
    OBVIOUS
  <2>0. \A i \in M : i \in 0 .. t - 1
    BY <1>15
  <2>1. j \in 0 .. n - 1 /\ \A i \in M : j # R + i
    BY <1>7, <1>18, <2>0
  <2> QED BY <1>12, <2>1 DEF Melt, MeltFreq
<1>27. Weights'
  <2> HIDE DEF n, F, R, A, m, B, a, t, c, h, fr, ll, cl, il, tm, L, M, f2, i2, l2, c2
  <2>1. R \in 0 .. n /\ R \in 0 .. R /\ m \in 0 .. R
    BY <1>7, <1>18
  <2>2. \A x \in 0 .. R : Sums(f2)[x] = Sums(fr)[x]
    BY <1>13, <1>18, <1>22, <1>26, <2>1, SumsAgree
  <2>3. Weigh(f2, m, R) = Weigh(fr, m, R)
    BY <2>1, <2>2 DEF Weigh
  <2>4. Weigh(f2, m, R) <= Sums(h)[c]
    BY <1>16, <2>3
  <2>5. GatheredWeights'
    BY <1>17, <2>4 DEF GatheredWeights, First, c, h, f2, m, R
  <2> QED BY <1>4, <2>5 DEF Weights
<1>28. Forest'
  <2> HIDE DEF n, F, R, A, m, B, a, t, c, h, fr, ll, cl, il, tm, L, M, f2, i2, l2, c2
  <2>1. R + t <= n /\ m + B < R /\ c + A <= n /\ R \in Nat
    BY <1>7, <1>18
  <2>2. Kept(ll, cl, il, m, R, c, n, c + A, m + B)
    BY <1>7, <1>14 DEF Kept
  <2>6. /\ A \in Nat /\ B \in Nat /\ t \in Nat /\ c \in Nat /\ m \in Nat
    BY <1>7
  <2>7. M \in SUBSET (0 .. t - 1)
    BY <1>15
  <2>8. Kept(l2, c2, i2, m, R, c, n, c + A, m + B)
    BY <1>18, <1>31, <2>1, <2>2, <2>6, <2>7, MeltForest
  <2>3. Placed(l2, c2, i2, m, R, c) /\ Ordered(l2, c2, i2, m, c) /\ Filled(l2, c2, i2, m, R, c, n)
    BY <2>8 DEF Kept
  <2>4. Fresh(l2, c2, lNodesCur, n) /\ Rooted(i2, F, R) /\ Raised(l2, i2, m, c, F)
    BY <1>7, <2>8 DEF Kept
  <2>5. GatheredForest'
    BY <1>2, <1>17, <2>3, <2>4 DEF GatheredForest, Grown, First, c, m, R, F, n, l2, c2, i2
  <2> QED BY <1>1, <1>4, <2>5 DEF Forest
<1>29. Shares'
  <2> SUFFICES ASSUME NEW Y, IsWay(Y)' PROVE MergedFrom(temp', histogram', f2, First', mergeFront', Y, 0, AllNum')
    BY <1>1 DEF Shares, IsMerged, First
  <2>1. Goes(Y, A, B, Led(copy, f2, A, B, m))
    BY <1>2, <1>17 DEF IsWay
  <2> HIDE DEF n, F, R, A, m, B, a, t, c, h, fr, ll, cl, il, tm, M, f2, i2, l2, c2
  <2>2. Led(copy, f2, A, B, m) = Led(copy, fr, A, B, m)
    <3>1. \A p \in (0 .. A - 1) \X (0 .. B - 1) : m + p[2] \in 0 .. R - 1
      BY <1>7, <1>18
    <3>2. \A p \in (0 .. A - 1) \X (0 .. B - 1) : f2[m + p[2]] = fr[m + p[2]]
      BY <1>26, <3>1
    <3> QED BY <3>2 DEF Led
  <2>3. IsWay(Y)
    BY <2>1, <2>2 DEF IsWay, A, B, m, fr
  <2>4. MergedFrom(tm, h, fr, c, m, Y, 0, A + B)
    <3>1. IsMerged(Y, 0, AllNum)
      BY <1>1, <2>3 DEF Shares
    <3>2. MergedFrom(tm, h, fr, c, m, Y, 0, a)
      BY <3>1 DEF IsMerged, First, tm, h, fr, c, m, a
    <3> QED BY <1>7, <3>2
  <2>5. Shuffle(Y, A, B)
    BY <1>7, <2>1, GoesShuffle
  <2>6. MergedFrom(tm, h, f2, c, m, Y, 0, A + B)
    <3>1. m + B <= R /\ R \in Nat
      BY <1>7, <1>18
    <3> QED BY <1>7, <1>26, <2>4, <2>5, <3>1, MergedSame
  <2>7. MergedFrom(tm, h, f2, c, m, Y, 0, a)
    BY <1>7, <2>6
  <2> QED BY <1>17, <2>7 DEF tm, h, c, m, a
<1>30. Melding'
  <2> SUFFICES ASSUME NEW g \in Block, NEW i \in Threads(g), i < AllNum \div 2
               PROVE  IF at'[g] = "wait" THEN Joined(tm, l2, c2, f2, i2, R + i, i) ELSE Parted(tm, l2, c2, i2, i)
    BY <1>1, <1>6, <1>20, <1>21 DEF Melding
  <2>1. IF at[g] = "wait" THEN Joined(tm, ll, cl, fr, il, R + i, i) ELSE Parted(tm, ll, cl, il, i)
    BY <1>1, <1>19 DEF Melding
  <2>2. i \in 0 .. t - 1 /\ (i \in M <=> g = b)
    BY <1>15
  <2> HIDE DEF n, F, R, A, m, B, a, t, c, h, fr, ll, cl, il, tm, L, M, f2, i2, l2, c2
  <2>3. MeltsPair(tm, f2, i2, l2, c2, fr, il, ll, cl, M, R, i)
    <3>1. A + B = t + t /\ R + t <= n /\ m + B <= R /\ R \in Nat
      BY <1>7, <1>18
    <3>2. /\ A \in Nat /\ B \in Nat /\ t \in Nat /\ c \in Nat /\ m \in Nat
      BY <1>7
    <3>3. M \in SUBSET (0 .. t - 1)
      BY <1>15
    <3>4. i \in 0 .. t - 1
      BY <2>2
    <3>5. MeltsPairs(tm, f2, i2, l2, c2, fr, il, ll, cl, M, R, t)
      BY <1>11, <1>18, <1>31, <3>1, <3>2, <3>3, MeltPair, ZenonT(60)
    <3> QED BY <3>4, <3>5 DEF MeltsPairs
  <2>4. CASE g = b
    BY <1>1, <1>3, <2>1, <2>2, <2>3, <2>4 DEF MeltsPair
  <2>5. CASE g # b
    <3>1. at'[g] = at[g]
      BY <1>1, <1>3, <2>5
    <3> QED BY <2>1, <2>2, <2>3, <2>5, <3>1 DEF MeltsPair
  <2> QED BY <2>4, <2>5
<1> QED BY <1>23, <1>24, <1>25, <1>27, <1>28, <1>29, <1>30

-----------------------------------------------------------------------------
(* A single leaf.                                                             *)

(* Doing nothing changes nothing.                                            *)
LEMMA StutterStep ==
  ASSUME Several, UNCHANGED vars
  PROVE  Several'
<1>1. UNCHANGED Data /\ phase' = phase /\ at' = at /\ histogram' = histogram
  BY DEF vars, Data
<1>4. AtRest' = AtRest /\ Combined' = Combined /\ Gathered' = Gathered /\ Advanced' = Advanced
  BY <1>1 DEF AtRest, Combined, Gathered, Advanced
<1> USE DEF Several
<1>5. Shapes'
  BY <1>1, SameData
<1>6. Ring'
  <2>1. /\ size' = size /\ RestRing' = RestRing /\ CombinedRing' = CombinedRing /\ Working' = Working
        /\ GatheredRing' = GatheredRing /\ AdvancedRing' = AdvancedRing
    BY <1>1, SameData
  <2> QED BY <1>1, <1>4, <2>1 DEF Ring, Data, iters, merged
<1>7. Copying'
  <2>1. size' = size
    BY <1>1, SameData
  <2>2. \A b \in Block : Selected(b)' <=> Selected(b)
    BY <1>1, <2>1 DEF Selected, IsSmall, Data, iters, merged
  <2> QED BY <1>1, <1>4, <2>2 DEF Copying, IsSmall, Data, iters, merged
<1>8. Weights'
  BY <1>1, <1>4, SameData DEF Weights
<1>9. Shares'
  <2>1. AllNum' = AllNum /\ InnerNum' = InnerNum
    BY <1>1, SameData
  <2>2. \A X : IsWay(X)' <=> IsWay(X)
    BY <1>1, <2>1 DEF IsWay, Data, nodes, iters, merged
  <2>3. \A X, i, j : IsMerged(X, i, j)' <=> IsMerged(X, i, j)
    BY <1>1, <2>1 DEF IsMerged, Data, nodes, iters, merged
  <2>4. path' = path
    BY <1>1 DEF Data, merged
  <2> QED BY <1>1, <2>1, <2>2, <2>3, <2>4 DEF Shares
<1>10. Melding'
  <2>1. AllNum' = AllNum
    BY <1>1, SameData
  <2>2. \A i : (IsJoined(i)' <=> IsJoined(i)) /\ (IsApart(i)' <=> IsApart(i))
    BY <1>1 DEF IsJoined, IsApart, Data, nodes, iters, merged
  <2> QED BY <1>1, <2>1, <2>2 DEF Melding
<1>11. Forest'
  BY <1>1, <1>4, SameData DEF Forest, Data, nodes, iters
<1> QED BY <1>5, <1>6, <1>7, <1>8, <1>9, <1>10, <1>11

(* With a single leaf, thread 0 takes it, alone or with a node that is not    *)
(* there, and nothing else ever happens.                                     *)
LEMMA SingleCombine ==
  ASSUME histogram \in Histograms, size = 1, Single, lNodesCur = 0, NEW flag \in BOOLEAN, CombineTwo(flag)
  PROVE  lNodesCur' \in 1 .. 2 /\ iNodesFront' = 0 /\ iNodesRear' = 0 /\ iNodesSize' = 0
<1> DEFINE m == Candidates(flag)
           mid == Network(m)
           leaves == Cardinality({k \in {0, 1} : mid[k].leaf})
           front == MOD(iNodesFront + 2 - leaves)
<1>1. /\ lNodesCur' = lNodesCur + leaves /\ iNodesFront' = front
      /\ iNodesSize' = MOD(iNodesRear - front) /\ iNodesRear' = iNodesRear
  BY DEF CombineTwo
<1>2. histogram \in [0 .. 0 -> Nat \ {0}] /\ Sums(histogram)[1] < UINT_MAX
  BY Sizes
<1>3. histogram[0] < UINT_MAX /\ histogram[0] \in Nat
  <2>1. \A g \in [0 .. 1 - 1 -> Nat] : \A T : Adding(T, g, 1) => T[1] = g[0]
    <3> SUFFICES ASSUME NEW g \in [0 .. 0 -> Nat], NEW T, Adding(T, g, 1) PROVE T[1] = g[0]
      OBVIOUS
    <3>1. 1 \in 1 .. 1 /\ 1 - 1 = 0 /\ 0 \in 0 .. 0
      OBVIOUS
    <3>2. T[1] = T[0] + g[0] /\ T[0] = 0 /\ g[0] \in Nat
      BY <3>1 DEF Adding
    <3> QED BY <3>2
  <2>2. histogram \in [0 .. 1 - 1 -> Nat] /\ 1 \in Nat
    BY <1>2
  <2>3. Adding(Sums(histogram), histogram, 1)
    BY <2>2, SumsAdd
  <2>4. Sums(histogram)[1] = histogram[0]
    BY <2>1, <2>2, <2>3
  <2> QED BY <1>2, <2>4
<1>4. m = [k \in 0 .. 3 |-> IF k = 0 THEN [freq |-> histogram[0], leaf |-> TRUE]
                                     ELSE [freq |-> UINT_MAX, leaf |-> flag]]
  BY DEF Candidates, Single
<1> HIDE DEF m
<1>5. /\ m[0].freq = histogram[0] /\ m[0].leaf = TRUE
      /\ \A k \in 1 .. 3 : m[k].freq = UINT_MAX /\ m[k].leaf = flag
  BY <1>4
<1>6. \A a, b \in 0 .. 3 : a <= b => Exchange(m, a, b) = m
  <2> SUFFICES ASSUME NEW a \in 0 .. 3, NEW b \in 0 .. 3, a <= b PROVE ~(m[a].freq > m[b].freq)
    BY DEF Exchange
  <2>1. UINT_MAX \in Nat
    BY DEF UINT_MAX
  <2> QED BY <1>3, <1>5, <2>1
<1>7. mid = m
  <2>1. /\ Exchange(m, 1, 3) = m /\ Exchange(m, 0, 2) = m /\ Exchange(m, 0, 1) = m
        /\ Exchange(m, 2, 3) = m /\ Exchange(m, 1, 2) = m
    BY <1>6
  <2> QED BY <2>1 DEF Network
<1>8. leaves \in 1 .. 2
  <2> DEFINE S == {k \in {0, 1} : mid[k].leaf}
  <2>1. S = {0} \/ S = {0, 1}
    <3>1. mid[0].leaf = TRUE
      BY <1>5, <1>7
    <3> HIDE DEF mid
    <3> QED BY <3>1
  <2>2. Cardinality({0}) = 1
    BY FS_Singleton
  <2>3. Cardinality({0, 1}) = 2
    <3>1. IsFiniteSet({0})
      BY FS_Singleton
    <3>2. Cardinality({0} \cup {1}) = IF 1 \in {0} THEN Cardinality({0}) ELSE Cardinality({0}) + 1
      BY <3>1, FS_AddElement, Zenon
    <3>3. {0, 1} = {0} \cup {1} /\ 1 \notin {0}
      OBVIOUS
    <3> QED BY <2>2, <3>2, <3>3
  <2> HIDE DEF S
  <2>4. Cardinality(S) \in 1 .. 2
    BY <2>1, <2>2, <2>3
  <2> QED BY <2>4 DEF S
<1>9. \A x \in Int : MOD(x) = 0
  BY DEF MOD
<1> HIDE DEF leaves
<1>10. front = 0
  <2>1. iNodesFront = 0
    BY DEF Single
  <2>2. iNodesFront + 2 - leaves \in Int
    BY <1>8, <2>1
  <2> QED BY <1>9, <2>2
<1>11. iNodesRear = 0 /\ iNodesRear - 0 \in Int
  BY DEF Single
<1> QED BY <1>1, <1>8, <1>9, <1>10, <1>11

(* With a single leaf, what a block does keeps the invariant.                 *)
LEMMA SingleBlock ==
  ASSUME Places, size = 1, Single, NEW b \in Block, BlockStep(b)
  PROVE  Single'
<1> USE DEF Single
<1>1. \A x \in Int : MOD(x) = 0
  BY DEF MOD
<1>2. tempLength = 0
  <2>1. mergeRear - mergeFront \in Int
    OBVIOUS
  <2>2. BLength = 0 /\ ALength = 0
    BY <1>1, <2>1 DEF BLength, ALength
  <2> QED BY <2>2 DEF tempLength
<1>3. at \in [Block -> {"run", "half", "wait", "exit"}] /\ 0 \in Block /\ histogram \in Histograms
  BY Blocks DEF Places
<1>4. CASE TestLoop(b)
  <2>1. Working => lNodesCur = 0
    BY DEF Working
  <2> QED BY <1>3, <1>4, <2>1 DEF TestLoop, Go, At, iters, merged
<1>5. CASE Combine(b)
  <2>1. /\ phase = "combine" /\ at[b] = "half" /\ phase' = "combine" /\ at' = [at EXCEPT ![b] = "wait"]
        /\ curLeavesNum' = 0 /\ mergeFront' = 0 /\ mergeRear' = 0
    BY <1>5 DEF Combine, Go, At, merged
  <2>2. CASE b = 0
    <3>1. PICK flag \in BOOLEAN : CombineTwo(flag)
      BY <1>5, <2>2 DEF Combine
    <3>2. lNodesCur = 0
      BY <2>1, <2>2
    <3>3. lNodesCur' \in 1 .. 2 /\ iNodesFront' = 0 /\ iNodesRear' = 0 /\ iNodesSize' = 0
      BY <1>3, <3>1, <3>2, SingleCombine
    <3>4. at'[0] = "wait"
      BY <1>3, <2>1, <2>2
    <3> QED BY <2>1, <3>3, <3>4
  <2>3. CASE b # 0
    <3>1. UNCHANGED iters /\ at'[0] = at[0]
      BY <1>3, <1>5, <2>1, <2>3 DEF Combine
    <3> QED BY <2>1, <3>1 DEF iters
  <2> QED BY <2>2, <2>3
<1>6. CASE SelectMax(b)
  <2> DEFINE small == {i \in Threads(b) \cap Leaf : i >= lNodesCur /\ histogram[i] <= minFreq}
  <2>1. phase = "select" /\ phase' = "select" /\ curLeavesNum' = Max({curLeavesNum} \cup {i - lNodesCur + 1 : i \in small})
        /\ UNCHANGED iters /\ UNCHANGED merged
    BY <1>6 DEF SelectMax, Go, At
  <2>2. small = {}
    <3>1. lNodesCur >= 1
      BY <2>1
    <3>2. Leaf = 0 .. 0
      BY <1>3, Sizes
    <3> QED BY <3>1, <3>2
  <2> HIDE DEF small
  <2>3. {curLeavesNum} \cup {i - lNodesCur + 1 : i \in small} = {0}
    BY <2>2
  <2>4. Max({0}) = 0
    BY DEF Max
  <2> QED BY <2>1, <2>3, <2>4 DEF iters, merged
<1>7. CASE SelectCopy(b)
  BY <1>7 DEF SelectCopy, Go, At, iters
<1>8. CASE Iterate(b)
  <2>1. PICK v \in Beyond :
          /\ mergeRear' = IF ~Even /\ OutInner(v) THEN MOD(iNodesRear - 1) ELSE iNodesRear
          /\ curLeavesNum' = Merging(v)
    BY <1>8 DEF Iterate
  <2>2. /\ phase = "iterate" /\ phase' = "iterate" /\ mergeFront' = iNodesFront /\ iNodesFront' = mergeRear'
        /\ lNodesCur' = lNodesCur + curLeavesNum' /\ iNodesRear' = MOD(iNodesRear + 1) /\ iNodesSize' = iNodesSize
    BY <1>8 DEF Iterate, Go, At
  <2>3. Even
    BY DEF Even
  <2>4. mergeRear' = 0 /\ curLeavesNum' = 0
    BY <2>1, <2>3 DEF Merging
  <2>5. iNodesRear' = 0
    <3>1. iNodesRear + 1 \in Int
      OBVIOUS
    <3> QED BY <1>1, <2>2, <3>1
  <2> QED BY <2>2, <2>4, <2>5
<1>9. CASE Divide(b)
  BY <1>9 DEF Divide, Go, At, iters
<1>10. CASE MergeShare(b)
  BY <1>10 DEF MergeShare, Go, At, iters
<1>11. CASE Meld(b)
  BY <1>11 DEF Meld, Go, At, iters, merged
<1>12. CASE Advance(b)
  <2>1. 0 \div 2 = 0 /\ 0 + 0 \in Int
    OBVIOUS
  <2>2. iNodesRear' = 0
    BY <1>1, <1>2, <1>12, <2>1 DEF Advance
  <2> QED BY <1>12, <2>2 DEF Advance, Go, At, merged
<1>13. CASE UpdateLeaders(b)
  BY <1>13 DEF UpdateLeaders, Go, At, iters, merged
<1>14. CASE Resize(b)
  <2>1. iNodesRear - iNodesFront \in Int
    OBVIOUS
  <2>2. iNodesSize' = 0
    BY <1>1, <1>14, <2>1 DEF Resize
  <2> QED BY <1>14, <2>2 DEF Resize, Go, At, merged
<1>15. CASE \E ph \in {"iterate", "rear", "size"} : Idle(b, ph)
  BY <1>15 DEF Idle, Go, At, iters, merged
<1> QED BY <1>4, <1>5, <1>6, <1>7, <1>8, <1>9, <1>10, <1>11, <1>12, <1>13, <1>14, <1>15, Zenon DEF BlockStep

(* With a single leaf, every step keeps the invariant.                        *)
LEMMA SingleStep ==
  ASSUME Places, size = 1, Single, [Next]_vars
  PROVE  Single'
<1>1. CASE GridSync
  BY <1>1, Blocks DEF GridSync, Single, iters, merged
<1>2. CASE UNCHANGED vars
  BY <1>2 DEF vars, Single, iters, merged
<1>3. ASSUME NEW b \in Block, BlockStep(b) PROVE Single'
  BY <1>3, SingleBlock
<1> QED BY <1>1, <1>2, <1>3 DEF Next

-----------------------------------------------------------------------------
(* The invariant.                                                             *)

(* Once block 0 has left, nothing changes the loop condition.                *)
LEMMA EndedStep ==
  ASSUME Places, Ended, [Next]_vars
  PROVE  Ended'
<1>1. CASE GridSync
  BY <1>1, Blocks DEF GridSync, Ended
<1>2. CASE UNCHANGED vars
  BY <1>2 DEF vars, Ended, Working, iters, size
<1>3. ASSUME NEW b \in Block, BlockStep(b), at'[0] = "exit" PROVE ~Working'
  <2> USE Blocks DEF Places
  <2>1. CASE TestLoop(b)
    <3>1. Working' <=> Working
      BY <2>1 DEF TestLoop, Go, Working, iters, size
    <3>2. at'[0] = IF b = 0 THEN (IF Working THEN "half" ELSE "exit") ELSE at[0]
      BY <2>1 DEF TestLoop, Go
    <3>3. ~Working
      BY <1>3, <3>2 DEF Ended
    <3> QED BY <3>1, <3>3
  <2>2. CASE phase = "combine" /\ Combine(b)
    <3>1. b # 0 /\ at[0] = "exit"
      BY <1>3, <2>2 DEF Combine, At, Go
    <3>2. Working' <=> Working
      BY <2>2, <3>1 DEF Combine, Go, Working, iters, size
    <3> QED BY <3>1, <3>2 DEF Ended
  <2>3. ASSUME phase # "combine", at' = [at EXCEPT ![b] = "wait"] \/ at' = [at EXCEPT ![b] = "half"] PROVE FALSE
    <3>1. at[0] = "exit"
      BY <1>3, <2>3
    <3> QED BY <2>3, <3>1
  <2>4. \/ TestLoop(b)
        \/ phase = "combine" /\ Combine(b)
        \/ phase # "combine" /\ (at' = [at EXCEPT ![b] = "wait"] \/ at' = [at EXCEPT ![b] = "half"])
    <3>1. CASE TestLoop(b)
      BY <3>1
    <3>2. CASE Combine(b)
      BY <3>2 DEF Combine, At
    <3>3. CASE SelectMax(b)
      BY <3>3 DEF SelectMax, At, Go
    <3>4. CASE SelectCopy(b)
      BY <3>4 DEF SelectCopy, At, Go
    <3>5. CASE Iterate(b)
      BY <3>5 DEF Iterate, At, Go
    <3>6. CASE Divide(b)
      BY <3>6 DEF Divide, At, Go
    <3>7. CASE MergeShare(b)
      BY <3>7 DEF MergeShare, At, Go
    <3>8. CASE Meld(b)
      BY <3>8 DEF Meld, At, Go
    <3>9. CASE Advance(b)
      BY <3>9 DEF Advance, At, Go
    <3>10. CASE UpdateLeaders(b)
      BY <3>10 DEF UpdateLeaders, At, Go
    <3>11. CASE Resize(b)
      BY <3>11 DEF Resize, At, Go
    <3>12. CASE \E ph \in {"iterate", "rear", "size"} : Idle(b, ph)
      BY <3>12 DEF Idle, At, Go
    <3> QED BY <1>3, <3>1, <3>2, <3>3, <3>4, <3>5, <3>6, <3>7, <3>8, <3>9, <3>10, <3>11, <3>12, Zenon DEF BlockStep
  <2> QED BY <2>1, <2>2, <2>3, <2>4
<1> QED BY <1>1, <1>2, <1>3 DEF Next, Ended

(* What a block does between two barriers.                                   *)
LEMMA SeveralBlock ==
  ASSUME Places, Several, size > 1, Joins, NEW b \in Block, BlockStep(b)
  PROVE  Several'
<1>1. CASE TestLoop(b)
  BY <1>1, TestLoopStep
<1>2. CASE Combine(b)
  BY <1>2, CombineStep
<1>3. CASE SelectMax(b)
  BY <1>3, SelectMaxStep
<1>4. CASE SelectCopy(b)
  BY <1>4, SelectCopyStep
<1>5. CASE Iterate(b)
  BY <1>5, IterateStep
<1>6. CASE Divide(b)
  BY <1>6, DivideStep
<1>7. CASE MergeShare(b)
  BY <1>7, MergeShareStep
<1>8. CASE Meld(b)
  BY <1>8, MeldStep
<1>9. CASE Advance(b)
  BY <1>9, AdvanceStep
<1>10. CASE UpdateLeaders(b)
  BY <1>10, UpdateLeadersStep
<1>11. CASE Resize(b)
  BY <1>11, ResizeStep
<1>12. CASE \E ph \in {"iterate", "rear", "size"} : Idle(b, ph)
  BY <1>12, IdleStep
<1> QED BY <1>1, <1>2, <1>3, <1>4, <1>5, <1>6, <1>7, <1>8, <1>9, <1>10, <1>11, <1>12, Zenon DEF BlockStep

(* The number of leaves is that of the histogram, which no step changes.      *)
LEMMA SizeSame == [Next]_vars => size' = size
<1> SUFFICES ASSUME [Next]_vars PROVE histogram' = histogram
  BY DEF size
<1>1. CASE GridSync
  BY <1>1 DEF GridSync
<1>2. CASE UNCHANGED vars
  BY <1>2, SMTT(30) DEF vars
<1>3. ASSUME NEW b \in Block, BlockStep(b) PROVE histogram' = histogram
  BY <1>3 DEF BlockStep, TestLoop, Combine, SelectMax, SelectCopy, Iterate, Divide, MergeShare, Meld,
              Advance, UpdateLeaders, Resize, Idle, Go
<1> QED BY <1>1, <1>2, <1>3 DEF Next

(* The invariant is inductive, given that what several blocks merge is sorted. *)
LEMMA InvStep == Inv /\ Joins /\ [Next]_vars => Inv'
<1> SUFFICES ASSUME Inv, Joins, [Next]_vars PROVE Inv'
  OBVIOUS
<1>1. Places /\ Places' /\ Ended /\ Ended'
  BY PlacesStep, EndedStep DEF Inv
<1>2. size' = size
  BY SizeSame
<1>3. ASSUME size = 1 PROVE Single'
  BY <1>1, <1>3, SingleStep DEF Inv
<1>4. ASSUME size > 1 PROVE Several'
  <2>1. Several
    BY <1>4 DEF Inv
  <2>2. CASE GridSync
    BY <1>1, <2>1, <2>2, GridSyncStep
  <2>3. CASE UNCHANGED vars
    BY <2>1, <2>3, StutterStep
  <2>4. ASSUME NEW b \in Block, BlockStep(b) PROVE Several'
    BY <1>1, <1>4, <2>1, <2>4, SeveralBlock
  <2> QED BY <2>2, <2>3, <2>4 DEF Next
<1> QED BY <1>1, <1>2, <1>3, <1>4 DEF Inv

(* The inductive invariant: whatever the histogram and the grid, the rounds   *)
(* keep the forest, the ring and the merge as they should be, provided that   *)
(* what several blocks merge is sorted.                                       *)
THEOREM InvHolds == Spec /\ []Joins => []Inv
<1>1. Init => Inv
  BY InvInit
<1>2. Inv /\ Joins /\ [Next]_vars => Inv'
  BY InvStep
<1> QED BY <1>1, <1>2, PTL DEF Spec

-----------------------------------------------------------------------------
(* What the invariant says of the program.                                    *)

(* Merging sorted nodes sorts them.                                          *)
LEMMA MergedRises ==
  ASSUME NEW A \in Nat, NEW B \in Nat, NEW X, NEW cp, NEW fr, NEW h, NEW c \in Nat, NEW m \in Nat, NEW n \in Nat,
         c + A <= n, Goes(X, A, B, Led(cp, fr, A, B, m)), CopiedFrom(cp, h, A, c),
         \A i \in 0 .. n - 1 : h[i] \in Nat, \A i, j \in 0 .. n - 1 : i <= j => h[i] <= h[j],
         Rising([y \in 0 .. B - 1 |-> fr[m + y]], B),
         NEW tm, MergedFrom(tm, h, fr, c, m, X, 0, A + B), NEW k \in 1 .. A + B - 1
  PROVE  tm[k - 1].freq <= tm[k].freq
<1> DEFINE L == Led(cp, fr, A, B, m)
           j == k - 1
           e == k + 1
           x == X[j]
           y == j - x
           g(z) == fr[m + z]
<1>1. j \in 0 .. A + B - 1 /\ k \in 0 .. A + B - 1 /\ j \in 0 .. A + B /\ k \in 0 .. A + B /\ e \in 0 .. A + B /\ j + 1 = k
      /\ j \in Nat /\ k \in Nat
  OBVIOUS
<1>2. Shuffle(X, A, B)
  <2>1. Goes(X, A, B, L)
    OBVIOUS
  <2> HIDE DEF L
  <2> QED BY <2>1, GoesShuffle
<1>3. X[k] = IF Takes(x, y, A, B, L) THEN x + 1 ELSE x
  <2> HIDE DEF L, j
  <2>1. X[j + 1] = IF Takes(X[j], j - X[j], A, B, L) THEN X[j] + 1 ELSE X[j]
    BY <1>1 DEF Goes, L
  <2> QED BY <1>1, <2>1
<1>4. tm[j] = Whole(h, fr, c, m, X, j) /\ tm[k] = Whole(h, fr, c, m, X, k)
  BY <1>1 DEF MergedFrom
<1>5. /\ x \in 0 .. A /\ j - x \in 0 .. B
      /\ X[k] \in 0 .. A /\ k - X[k] \in 0 .. B
      /\ X[e] \in 0 .. A /\ e - X[e] \in 0 .. B /\ (X[e] = X[k] \/ X[e] = X[k] + 1) /\ (X[k] = x \/ X[k] = x + 1)
  <2>1. X[k + 1] = X[k] \/ X[k + 1] = X[k] + 1
    BY <1>1, <1>2 DEF Shuffle
  <2>2. X[j + 1] = X[j] \/ X[j + 1] = X[j] + 1
    BY <1>1, <1>2, Zenon DEF Shuffle
  <2> QED BY <1>1, <1>2, <2>1, <2>2 DEF Shuffle
<1>6. /\ X[k] = x => tm[j] = InnerNode(fr, m + y)
      /\ X[k] # x => tm[j] = LeafNode(h, c + x)
      /\ X[e] = X[k] => tm[k] = InnerNode(fr, m + (k - X[k]))
      /\ X[e] # X[k] => tm[k] = LeafNode(h, c + X[k])
  BY <1>1, <1>4 DEF Whole
<1>7. \A z \in 0 .. B - 1 : g(z) \in Nat
  BY DEF Rising
<1>8. \A z \in 1 .. B - 1 : g(z - 1) <= g(z)
  <2> SUFFICES ASSUME NEW z \in 1 .. B - 1 PROVE g(z - 1) <= g(z)
    OBVIOUS
  <2>1. z \in 0 .. B - 1 /\ z - 1 \in 0 .. B - 1
    OBVIOUS
  <2> QED BY <2>1 DEF Rising
<1>9. \A w \in 0 .. A - 1 : h[c + w] \in Nat /\ cp[w].freq = h[c + w]
  <2> SUFFICES ASSUME NEW w \in 0 .. A - 1 PROVE h[c + w] \in Nat /\ cp[w].freq = h[c + w]
    OBVIOUS
  <2>1. c + w \in 0 .. n - 1
    OBVIOUS
  <2>2. cp[w] = LeafNode(h, c + w)
    BY DEF CopiedFrom
  <2> QED BY <2>1, <2>2 DEF LeafNode
<1>10. \A w \in 0 .. A - 1, z \in 0 .. B - 1 : <<w, z>> \in L <=> h[c + w] <= g(z)
  BY <1>9 DEF Led
<1>11. \A w \in 0 .. A - 1 : w + 1 \in 0 .. A - 1 => h[c + w] <= h[c + (w + 1)]
  <2> SUFFICES ASSUME NEW w \in 0 .. A - 1, w + 1 \in 0 .. A - 1 PROVE h[c + w] <= h[c + (w + 1)]
    OBVIOUS
  <2> DEFINE p == c + w
             q == c + (w + 1)
  <2>1. p \in 0 .. n - 1 /\ q \in 0 .. n - 1 /\ p <= q
    OBVIOUS
  <2> HIDE DEF p, q
  <2>2. h[p] <= h[q]
    BY <2>1
  <2> QED BY <2>2 DEF p, q
<1> HIDE DEF L, g
<1>12. /\ X[k] = x => tm[j].freq = g(y)
       /\ X[k] # x => tm[j].freq = h[c + x]
       /\ X[e] = X[k] => tm[k].freq = g(k - X[k])
       /\ X[e] # X[k] => tm[k].freq = h[c + X[k]]
  BY <1>6 DEF InnerNode, LeafNode, g
<1> HIDE DEF x, y, j, e
<1>13. y = j - x /\ x \in Nat
  BY <1>5 DEF y
<1>14. CASE X[k] = x /\ X[e] = X[k]
  <2> DEFINE z == k - X[k]
  <2>1. z \in 1 .. B - 1 /\ z - 1 = y
    <3>1. e - x \in 0 .. B /\ e = k + 1
      BY <1>5, <1>14 DEF e
    <3>2. j - x \in 0 .. B
      BY <1>5
    <3> QED BY <1>1, <1>13, <1>14, <3>1, <3>2
  <2> HIDE DEF z
  <2>2. g(z - 1) <= g(z)
    BY <1>8, <2>1
  <2>3. g(y) <= g(z)
    BY <2>1, <2>2
  <2>4. tm[j].freq = g(y) /\ tm[k].freq = g(z)
    BY <1>12, <1>14 DEF z
  <2> QED BY <2>3, <2>4 DEF j
<1>15. CASE X[k] # x /\ X[e] # X[k]
  <2>1. X[k] = x + 1 /\ x \in 0 .. A - 1 /\ x + 1 \in 0 .. A - 1
    <3>1. X[k] = x + 1
      BY <1>5, <1>15
    <3>2. X[k] \in 0 .. A - 1
      BY <1>5, <1>15, SMTT(30)
    <3> QED BY <1>13, <3>1, <3>2
  <2>2. h[c + x] <= h[c + (x + 1)]
    BY <1>11, <2>1
  <2>3. tm[j].freq = h[c + x] /\ tm[k].freq = h[c + (x + 1)]
    BY <1>12, <1>15, <2>1
  <2> QED BY <2>2, <2>3 DEF j
<1>16. CASE X[k] # x /\ X[e] = X[k]
  <2>1. X[k] = x + 1 /\ x \in 0 .. A - 1
    BY <1>5, <1>13, <1>16
  <2>2. k - X[k] = y /\ y \in 0 .. B - 1
    <3>1. e - X[e] \in 0 .. B /\ e = k + 1 /\ X[e] = x + 1
      BY <1>5, <1>16, <2>1 DEF e
    <3>2. j - x \in 0 .. B
      BY <1>5
    <3> QED BY <1>1, <1>13, <2>1, <3>1, <3>2
  <2>3. Takes(x, y, A, B, L)
    BY <1>3, <1>16
  <2>4. <<x, y>> \in L
    BY <2>2, <2>3 DEF Takes
  <2>5. h[c + x] <= g(y)
    BY <1>10, <2>1, <2>2, <2>4
  <2>6. tm[j].freq = h[c + x] /\ tm[k].freq = g(y)
    BY <1>12, <1>16, <2>2
  <2> QED BY <2>5, <2>6 DEF j
<1>17. CASE X[k] = x /\ X[e] # X[k]
  <2>1. x \in 0 .. A - 1
    BY <1>5, <1>13, <1>17
  <2>2. y \in 0 .. B - 1
    <3>1. k - x \in 0 .. B
      BY <1>5, <1>17
    <3>2. j - x \in 0 .. B
      BY <1>5
    <3> QED BY <1>1, <1>13, <3>1, <3>2
  <2>3. ~Takes(x, y, A, B, L)
    <3>1. x # x + 1
      BY <1>13
    <3> QED BY <1>3, <1>17, <3>1
  <2>4. ~(<<x, y>> \in L)
    BY <2>1, <2>3 DEF Takes
  <2>5. ~(h[c + x] <= g(y))
    BY <1>10, <2>1, <2>2, <2>4
  <2>6. g(y) \in Nat /\ h[c + x] \in Nat
    BY <1>7, <1>9, <2>1, <2>2
  <2>7. g(y) <= h[c + x]
    BY <2>5, <2>6
  <2>8. tm[j].freq = g(y) /\ tm[k].freq = h[c + x]
    BY <1>12, <1>17
  <2> QED BY <2>7, <2>8 DEF j
<1> QED BY <1>14, <1>15, <1>16, <1>17

(* There is one leaf, or there are more; the invariant has a part for each    *)
(* case.                                                                      *)
LEMMA SizeCases == Inv => histogram \in Histograms /\ size \in Nat \ {0} /\ (size = 1 \/ size > 1) /\ Leaf = 0 .. size - 1
<1> SUFFICES ASSUME Inv PROVE histogram \in Histograms /\ size \in Nat \ {0} /\ (size = 1 \/ size > 1) /\ Leaf = 0 .. size - 1
  OBVIOUS
<1>1. histogram \in Histograms
  BY DEF Inv, Places
<1>2. size \in Nat \ {0} /\ Leaf = 0 .. size - 1
  BY <1>1, Sizes
<1> QED BY <1>1, <1>2

(* A single leaf is never merged.                                            *)
LEMMA SingleMerge == size = 1 /\ Single => ALength = 0 /\ BLength = 0 /\ tempLength = 0
<1> SUFFICES ASSUME size = 1, Single PROVE ALength = 0 /\ BLength = 0 /\ tempLength = 0
  OBVIOUS
<1>1. mergeRear = 0 /\ mergeFront = 0 /\ curLeavesNum = 0
  BY DEF Single
<1>2. BLength = 0
  <2>1. 0 - 0 = 0 /\ 0 % 1 = 0
    OBVIOUS
  <2> QED BY <1>1, <2>1 DEF BLength, MOD
<1>3. ALength = 0
  BY <1>1 DEF ALength
<1> QED BY <1>2, <1>3 DEF tempLength

(* The iterators keep their types: they are positions in the ring.           *)
LEMMA InvTypes == Inv => TypeOK
<1> SUFFICES ASSUME Inv PROVE TypeOK
  OBVIOUS
<1>1. histogram \in Histograms /\ size \in Nat \ {0} /\ (size = 1 \/ size > 1) /\ Leaf = 0 .. size - 1
  BY SizeCases
<1>2. at \in [Block -> {"run", "half", "wait", "exit"}]
  BY DEF Inv, Places
<1>3. CASE size = 1
  <2>1. Single
    BY <1>3 DEF Inv
  <2> QED BY <1>1, <1>2, <1>3, <2>1 DEF TypeOK, Single
<1>4. CASE size > 1
  <2>1. Ring
    BY <1>4 DEF Inv, Several
  <2>2. /\ lNodesCur \in 0 .. size /\ curLeavesNum \in 0 .. size
        /\ iNodesFront \in Leaf /\ iNodesRear \in Leaf /\ iNodesSize \in Leaf
        /\ mergeFront \in Leaf /\ mergeRear \in Leaf
    BY <1>1, <2>1 DEF Ring
  <2>3. lNodesCur \in 0 .. size + 1
    BY <1>1, <2>2
  <2> QED BY <1>1, <1>2, <2>2, <2>3 DEF TypeOK
<1> QED BY <1>1, <1>3, <1>4

(* While there is a merge, this is what is merged.                            *)
LEMMA InMerge ==
  ASSUME Inv, size > 1, phase \in {"divide", "merge", "meld"}
  PROVE  /\ Several /\ Gathered /\ GatheredRing /\ Ring /\ histogram \in Histograms
         /\ CopiedFrom(copy, histogram, curLeavesNum, First)
<1>1. Several /\ histogram \in Histograms
  BY SizeCases DEF Inv
<1>2. Gathered
  BY DEF Gathered
<1>3. Ring /\ Copying
  BY <1>1 DEF Several
<1> QED BY <1>1, <1>2, <1>3 DEF Ring, Copying, First

(* What is copied is what is merged.                                         *)
LEMMA InvCopied == Inv => LeavesCopied
<1> SUFFICES ASSUME Inv, phase \in {"divide", "merge", "meld"}, NEW k \in 0 .. ALength - 1
             PROVE  copy[k] = [freq |-> histogram[lNodesCur - ALength + k], index |-> lNodesCur - ALength + k, leaf |-> TRUE]
  BY DEF LeavesCopied
<1>1. size = 1 \/ size > 1
  BY SizeCases
<1>2. CASE size = 1
  <2>1. ALength = 0
    BY <1>2, SingleMerge DEF Inv
  <2> QED BY <2>1
<1>3. CASE size > 1
  <2>1. CopiedFrom(copy, histogram, curLeavesNum, First)
    BY <1>3, InMerge
  <2>2. copy[k] = LeafNode(histogram, First + k)
    BY <2>1 DEF CopiedFrom, ALength
  <2> QED BY <2>2 DEF LeafNode, First, ALength
<1> QED BY <1>1, <1>2, <1>3

(* No leaf's root is where a new one is put.                                  *)
LEMMA InvRoom == Inv => RingHasRoom
<1> SUFFICES ASSUME Inv, phase = "meld"
             PROVE  {MOD(iNodesRear + i) : i \in 0 .. tempLength \div 2 - 1}
                      \cap {lNodesLeader[i] : i \in 0 .. lNodesCur - ALength - 1} = {}
  BY DEF RingHasRoom
<1>1. size = 1 \/ size > 1
  BY SizeCases
<1>2. CASE size = 1
  <2>1. tempLength = 0
    BY <1>2, SingleMerge DEF Inv
  <2>2. 0 .. tempLength \div 2 - 1 = {}
    BY <2>1
  <2> QED BY <2>2
<1>3. CASE size > 1
  <2>1. Several /\ Gathered /\ GatheredRing /\ Ring /\ histogram \in Histograms
    BY <1>3, InMerge
  <2>2. /\ size \in Nat \ {0} /\ iNodesRear \in 0 .. size - 1 /\ AllNum = Half(AllNum) + Half(AllNum)
        /\ Half(AllNum) \in Nat /\ AllNum \div 2 = Half(AllNum) /\ tempLength = AllNum /\ ALength = curLeavesNum
        /\ \A i \in 0 .. Half(AllNum) : MOD(iNodesRear + i) = iNodesRear + i
    BY <2>1, Room
  <2> DEFINE t == Half(AllNum)
  <2>3. tempLength \div 2 = t
    BY <2>2
  <2>4. Placed(lNodesLeader, CL, iNodesLeader, mergeFront, iNodesRear, lNodesCur - curLeavesNum)
    BY <2>1 DEF Several, Forest, GatheredForest, Grown
  <2>5. \A i \in 0 .. lNodesCur - ALength - 1 : lNodesLeader[i] \in 0 .. iNodesRear - 1
    BY <2>2, <2>4 DEF Placed
  <2> HIDE DEF t
  <2>6. \A i \in 0 .. t - 1 : MOD(iNodesRear + i) = iNodesRear + i
    <3>1. \A i \in 0 .. t : MOD(iNodesRear + i) = iNodesRear + i
      BY <2>2 DEF t
    <3>2. \A i \in 0 .. t - 1 : i \in 0 .. t
      BY <2>2 DEF t
    <3> QED BY <3>1, <3>2
  <2>7. ASSUME NEW i \in 0 .. t - 1, NEW j \in 0 .. lNodesCur - ALength - 1 PROVE MOD(iNodesRear + i) # lNodesLeader[j]
    BY <2>2, <2>5, <2>6
  <2> QED BY <2>3, <2>7
<1> QED BY <1>1, <1>2, <1>3

(* The shares make one sorted sequence.                                      *)
LEMMA InvMerged == Inv => MergedWhole
<1> SUFFICES ASSUME Inv, phase = "meld", RingSorted
             PROVE  /\ \A k \in 1 .. tempLength - 1 : temp[k - 1].freq <= temp[k].freq
                    /\ {<<temp[k].leaf, temp[k].index>> : k \in 0 .. tempLength - 1}
                         = {<<TRUE, i>> : i \in lNodesCur - ALength .. lNodesCur - 1}
                           \cup {<<FALSE, Inner(k)>> : k \in 0 .. BLength - 1}
  BY DEF MergedWhole
<1>1. size = 1 \/ size > 1
  BY SizeCases
<1>2. CASE size = 1
  <2>1. tempLength = 0 /\ ALength = 0 /\ BLength = 0
    BY <1>2, SingleMerge DEF Inv
  <2>2. lNodesCur \in Int
    BY <1>2 DEF Inv, Single
  <2>3. 1 .. tempLength - 1 = {} /\ 0 .. tempLength - 1 = {} /\ 0 .. BLength - 1 = {} /\ lNodesCur - ALength .. lNodesCur - 1 = {}
    BY <2>1, <2>2
  <2> QED BY <2>3
<1>3. CASE size > 1
  <2> DEFINE A == curLeavesNum
             B == InnerNum
             m == mergeFront
             c == First
             n == size
             L == Led(copy, iNodesFreq, curLeavesNum, InnerNum, mergeFront)
  <2>1. /\ Several /\ Gathered /\ GatheredRing /\ Ring /\ histogram \in Histograms
        /\ CopiedFrom(copy, histogram, A, c)
    BY <1>3, InMerge
  <2>2. /\ n \in Nat \ {0} /\ lNodesCur \in 0 .. n /\ A \in Nat /\ B \in Nat /\ AllNum = A + B
        /\ m \in Nat /\ c \in Nat /\ c + A = lNodesCur
        /\ BLength = B /\ tempLength = AllNum /\ ALength = A
        /\ \A k \in 0 .. B : Inner(k) = m + k
    BY <2>1, Room
  <2>3. PICK X : Goes(X, A, B, L)
    <3> HIDE DEF A, B, L
    <3> QED BY <2>2, GoesExists
  <2>4. MergedFrom(temp, histogram, iNodesFreq, c, m, X, 0, A + B)
    <3>1. IsWay(X)
      BY <2>3 DEF IsWay
    <3>2. IsMerged(X, 0, AllNum)
      BY <2>1, <3>1 DEF Several, Shares
    <3> QED BY <2>2, <3>2 DEF IsMerged, First
  <2>5. Rising([y \in 0 .. B - 1 |-> iNodesFreq[m + y]], B)
    BY <2>1, MergeSorts DEF Several
  <2>6. /\ \A i \in 0 .. n - 1 : histogram[i] \in Nat
        /\ \A i, j \in 0 .. n - 1 : i <= j => histogram[i] <= histogram[j]
    BY <2>1, Sizes
  <2>7. PICK pl, pi : Located(temp, pl, pi, c, m, A, B)
    <3>1. Shuffle(X, A, B)
      <4> HIDE DEF A, B, L
      <4> QED BY <2>2, <2>3, GoesShuffle
    <3> HIDE DEF A, B, L, c, m
    <3> QED BY <2>2, <2>4, <3>1, Locates
  <2>8. Goes(X, A, B, Led(copy, iNodesFreq, A, B, m))
    BY <2>3
  <2> HIDE DEF A, B, L, c, m, n
  <2>9. \A k \in 1 .. A + B - 1 : temp[k - 1].freq <= temp[k].freq
    <3>1. c + A <= n /\ n \in Nat
      BY <2>2
    <3> QED BY <2>1, <2>2, <2>4, <2>5, <2>6, <2>8, <3>1, MergedRises
  <2>10. ASSUME NEW k \in 0 .. A + B - 1
         PROVE  \/ \E i \in c .. c + A - 1 : <<temp[k].leaf, temp[k].index>> = <<TRUE, i>>
                \/ \E y \in 0 .. B - 1 : <<temp[k].leaf, temp[k].index>> = <<FALSE, Inner(y)>>
    <3>1. (\E x \in 0 .. A - 1 : k = pl[x]) \/ (\E y \in 0 .. B - 1 : k = pi[y])
      BY <2>7 DEF Located
    <3>2. ASSUME NEW x \in 0 .. A - 1, k = pl[x]
          PROVE  \E i \in c .. c + A - 1 : <<temp[k].leaf, temp[k].index>> = <<TRUE, i>>
      <4>1. temp[k].leaf = TRUE /\ temp[k].index = c + x
        BY <2>7, <3>2 DEF Located
      <4>2. c + x \in c .. c + A - 1
        BY <2>2
      <4> QED BY <4>1, <4>2
    <3>3. ASSUME NEW y \in 0 .. B - 1, k = pi[y]
          PROVE  \E z \in 0 .. B - 1 : <<temp[k].leaf, temp[k].index>> = <<FALSE, Inner(z)>>
      <4>1. temp[k].leaf = FALSE /\ temp[k].index = m + y
        BY <2>7, <3>3 DEF Located
      <4>2. y \in 0 .. B /\ Inner(y) = m + y
        BY <2>2
      <4> QED BY <4>1, <4>2
    <3> QED BY <3>1, <3>2, <3>3
  <2>11. ASSUME NEW i \in c .. c + A - 1
         PROVE  \E k \in 0 .. A + B - 1 : <<TRUE, i>> = <<temp[k].leaf, temp[k].index>>
    <3> DEFINE x == i - c
    <3>1. x \in 0 .. A - 1 /\ c + x = i
      BY <2>2
    <3> HIDE DEF x
    <3>2. pl[x] \in 0 .. A + B - 1 /\ temp[pl[x]].leaf = TRUE /\ temp[pl[x]].index = c + x
      BY <2>7, <3>1 DEF Located
    <3> QED BY <3>1, <3>2
  <2>12. ASSUME NEW y \in 0 .. B - 1
         PROVE  \E k \in 0 .. A + B - 1 : <<FALSE, Inner(y)>> = <<temp[k].leaf, temp[k].index>>
    <3>1. y \in 0 .. B /\ Inner(y) = m + y
      BY <2>2
    <3>2. pi[y] \in 0 .. A + B - 1 /\ temp[pi[y]].leaf = FALSE /\ temp[pi[y]].index = m + y
      BY <2>7 DEF Located
    <3> QED BY <3>1, <3>2
  <2> DEFINE S == {<<temp[k].leaf, temp[k].index>> : k \in 0 .. A + B - 1}
             T == {<<TRUE, i>> : i \in c .. c + A - 1}
             U == {<<FALSE, Inner(k)>> : k \in 0 .. B - 1}
  <2>13. S = T \cup U
    <3>1. ASSUME NEW e \in S PROVE e \in T \cup U
      <4>1. PICK k \in 0 .. A + B - 1 : e = <<temp[k].leaf, temp[k].index>>
        OBVIOUS
      <4>2. CASE \E i \in c .. c + A - 1 : <<temp[k].leaf, temp[k].index>> = <<TRUE, i>>
        <5>1. e \in T
          BY <4>1, <4>2
        <5> QED BY <5>1
      <4>3. CASE \E y \in 0 .. B - 1 : <<temp[k].leaf, temp[k].index>> = <<FALSE, Inner(y)>>
        <5>1. e \in U
          BY <4>1, <4>3
        <5> QED BY <5>1
      <4> QED BY <2>10, <4>2, <4>3
    <3>2. ASSUME NEW e \in T PROVE e \in S
      <4>1. PICK i \in c .. c + A - 1 : e = <<TRUE, i>>
        OBVIOUS
      <4> QED BY <2>11, <4>1
    <3>3. ASSUME NEW e \in U PROVE e \in S
      <4>1. PICK y \in 0 .. B - 1 : e = <<FALSE, Inner(y)>>
        OBVIOUS
      <4> QED BY <2>12, <4>1
    <3> HIDE DEF S, T, U
    <3> QED BY <3>1, <3>2, <3>3
  <2>14. /\ 0 .. tempLength - 1 = 0 .. A + B - 1 /\ 1 .. tempLength - 1 = 1 .. A + B - 1
         /\ lNodesCur - ALength .. lNodesCur - 1 = c .. c + A - 1 /\ 0 .. BLength - 1 = 0 .. B - 1
    BY <2>2
  <2>15. /\ {<<temp[k].leaf, temp[k].index>> : k \in 0 .. tempLength - 1} = S
         /\ {<<TRUE, i>> : i \in lNodesCur - ALength .. lNodesCur - 1} = T
         /\ {<<FALSE, Inner(k)>> : k \in 0 .. BLength - 1} = U
    BY <2>14
  <2> HIDE DEF S, T, U
  <2>16. \A k \in 1 .. tempLength - 1 : temp[k - 1].freq <= temp[k].freq
    BY <2>9, <2>14
  <2> QED BY <2>13, <2>15, <2>16
<1> QED BY <1>1, <1>2, <1>3

(* Between two rounds every leaf before lNodesCur knows its root, and its     *)
(* depth below it.                                                           *)
LEMMA Rested ==
  ASSUME Inv, size > 1, phase = "combine", at[0] # "wait"
  PROVE  /\ size \in Nat \ {0} /\ Leaf = 0 .. size - 1 /\ iNodesFront \in 0 .. size - 1 /\ iNodesRear \in 0 .. size - 1
         /\ lNodesCur \in 0 .. size /\ iNodesSize = iNodesRear - iNodesFront
         /\ iNodesFront < iNodesRear \/ (iNodesFront = 0 /\ iNodesRear = 0)
         /\ lNodesCur + iNodesFront = 2 * iNodesRear
         /\ \A i \in 0 .. lNodesCur - 1 :
              /\ lNodesLeader[i] \in iNodesFront .. iNodesRear - 1 /\ CL[i] \in Nat
              /\ Top(lNodesLeader, iNodesLeader, iNodesFront, i) = lNodesLeader[i]
              /\ Depth(lNodesLeader, CL, iNodesFront, i) = CL[i]
         /\ Ordered(lNodesLeader, CL, iNodesLeader, iNodesFront, lNodesCur)
         /\ Filled(lNodesLeader, CL, iNodesLeader, iNodesFront, iNodesRear, lNodesCur, size)
         /\ \A i \in lNodesCur .. size - 1 : lNodesLeader[i] = -1 /\ CL[i] = 0
<1>1. size \in Nat \ {0} /\ Leaf = 0 .. size - 1
  BY SizeCases
<1>2. AtRest
  BY DEF AtRest
<1>3. Ring /\ Forest
  BY DEF Inv, Several
<1>4. RestRing /\ RestForest
  BY <1>2, <1>3 DEF Ring, Forest
<1>5. /\ lNodesCur \in 0 .. size /\ iNodesFront \in 0 .. size - 1 /\ iNodesRear \in 0 .. size - 1
  BY <1>3 DEF Ring
<1>6. /\ Placed(lNodesLeader, CL, iNodesLeader, iNodesFront, iNodesRear, lNodesCur)
      /\ Ordered(lNodesLeader, CL, iNodesLeader, iNodesFront, lNodesCur)
      /\ Filled(lNodesLeader, CL, iNodesLeader, iNodesFront, iNodesRear, lNodesCur, size)
      /\ Fresh(lNodesLeader, CL, lNodesCur, size) /\ Climbed(lNodesLeader, lNodesCur, iNodesFront)
  BY <1>4 DEF RestForest, Grown
<1>7. ASSUME NEW i \in 0 .. lNodesCur - 1
      PROVE  /\ lNodesLeader[i] \in iNodesFront .. iNodesRear - 1 /\ CL[i] \in Nat
             /\ Top(lNodesLeader, iNodesLeader, iNodesFront, i) = lNodesLeader[i]
             /\ Depth(lNodesLeader, CL, iNodesFront, i) = CL[i]
  <2>1. lNodesLeader[i] \in 0 .. iNodesRear - 1 /\ CL[i] \in Nat
    BY <1>6 DEF Placed
  <2>2. lNodesLeader[i] >= iNodesFront
    BY <1>6 DEF Climbed
  <2>3. ~(lNodesLeader[i] < iNodesFront)
    BY <1>5, <2>1, <2>2
  <2>4. lNodesLeader[i] \in iNodesFront .. iNodesRear - 1
    BY <1>5, <2>1, <2>2
  <2> QED BY <2>1, <2>3, <2>4 DEF Top, Depth
<1>8. \A i \in lNodesCur .. size - 1 : lNodesLeader[i] = -1 /\ CL[i] = 0
  BY <1>6 DEF Fresh
<1> QED BY <1>1, <1>4, <1>5, <1>6, <1>7, <1>8 DEF RestRing

(* The leaves of a tree fill it.                                             *)
LEMMA TreeFull ==
  ASSUME Inv, size > 1, phase = "combine", at[0] # "wait", NEW r \in iNodesFront .. iNodesRear - 1
  PROVE  Kraft(Tree(r)) = pow2[size]
<1> DEFINE n == size
           c == lNodesCur
           F == iNodesFront
           ll == lNodesLeader
           cl == CL
           il == iNodesLeader
           g == [i \in Leaf |-> IF i \in Tree(r) THEN pow2[size - CL[i]] ELSE 0]
           u == Units(ll, cl, il, F, c, n, r)
<1>1. /\ n \in Nat \ {0} /\ Leaf = 0 .. n - 1 /\ c \in 0 .. n /\ F \in 0 .. n - 1
      /\ \A i \in 0 .. c - 1 : Top(ll, il, F, i) = ll[i] /\ Depth(ll, cl, F, i) = cl[i]
      /\ Filled(ll, cl, il, F, iNodesRear, c, n)
      /\ \A i \in c .. n - 1 : ll[i] = -1
  BY Rested
<1>2. Sums(u)[n] = pow2[n]
  BY <1>1 DEF Filled
<1>3. ASSUME NEW i \in 0 .. n - 1
      PROVE  (IF i \in Tree(r) THEN pow2[size - CL[i]] ELSE 0)
               = (IF i < c /\ Top(ll, il, F, i) = r THEN pow2[n - Depth(ll, cl, F, i)] ELSE 0)
  <2>1. i \in Tree(r) <=> ll[i] = r
    BY <1>1 DEF Tree
  <2>2. CASE i < c
    <3>1. i \in 0 .. c - 1
      BY <1>1, <2>2
    <3>2. Top(ll, il, F, i) = ll[i] /\ Depth(ll, cl, F, i) = cl[i]
      BY <1>1, <3>1
    <3> QED BY <2>1, <2>2, <3>2, Zenon
  <2>3. CASE ~(i < c)
    <3>1. i \in c .. n - 1
      BY <1>1, <2>3
    <3>2. ll[i] = -1
      BY <1>1, <3>1
    <3>3. r # -1
      BY <1>1
    <3>4. i \notin Tree(r)
      BY <2>1, <3>2, <3>3
    <3> QED BY <2>3, <3>4, Zenon
  <2> QED BY <2>2, <2>3
<1>4. u = [i \in 0 .. n - 1 |-> IF i < c /\ Top(ll, il, F, i) = r THEN pow2[n - Depth(ll, cl, F, i)] ELSE 0]
  BY Zenon DEF Units
<1>5. g = [i \in 0 .. n - 1 |-> IF i \in Tree(r) THEN pow2[size - CL[i]] ELSE 0]
  BY <1>1, Zenon
<1>6. g = u
  <2> HIDE DEF g, u, n, c, F, ll, cl, il
  <2> QED BY <1>3, <1>4, <1>5
<1> QED BY <1>2, <1>6 DEF Kraft

(* Between two rounds the roots in the ring are those from its front to its    *)
(* rear: it never wraps.                                                     *)
LEMMA RootsAre ==
  ASSUME Inv, size > 1, phase = "combine", at[0] # "wait"
  PROVE  Roots = iNodesFront .. iNodesRear - 1
<1> DEFINE n == size
           F == iNodesFront
           R == iNodesRear
<1>1. n \in Nat \ {0} /\ F \in 0 .. n - 1 /\ R \in 0 .. n - 1 /\ iNodesSize = R - F
  BY Rested
<1>2. \A x \in 0 .. n - 1 : MOD(x) = x
  BY <1>1, ModSmall
<1> HIDE DEF n, F, R
<1>3. \A k \in 0 .. iNodesSize - 1 : F + k \in F .. R - 1 /\ F + k \in 0 .. n - 1
  BY <1>1
<1>4. \A k \in 0 .. iNodesSize - 1 : MOD(F + k) = F + k
  BY <1>2, <1>3
<1>5. ASSUME NEW r \in F .. R - 1 PROVE \E k \in 0 .. iNodesSize - 1 : r = MOD(F + k)
  <2> DEFINE k == r - F
  <2>1. k \in 0 .. iNodesSize - 1 /\ F + k = r
    BY <1>1
  <2> HIDE DEF k
  <2> QED BY <1>4, <2>1
<1>6. Roots = {MOD(F + k) : k \in 0 .. iNodesSize - 1}
  BY DEF Roots, F
<1>7. Roots = F .. R - 1
  BY <1>3, <1>4, <1>5, <1>6
<1> QED BY <1>7 DEF F, R

(* Between two rounds, the forest of the invariant is sound.                  *)
LEMMA InvForest == Inv => ForestSound
<1> SUFFICES ASSUME Inv, Settled, size > 1
             PROVE  /\ \A i \in Leaf : IF i < lNodesCur THEN lNodesLeader[i] \in Roots
                                                         ELSE lNodesLeader[i] = -1 /\ CL[i] = 0
                    /\ \A r \in Roots : Kraft(Tree(r)) = pow2[size]
  BY DEF ForestSound
<1>1. phase = "combine" /\ at[0] # "wait"
  BY DEF Settled
<1>2. Roots = iNodesFront .. iNodesRear - 1
  BY <1>1, RootsAre
<1>3. /\ size \in Nat \ {0} /\ Leaf = 0 .. size - 1 /\ lNodesCur \in 0 .. size
      /\ \A i \in 0 .. lNodesCur - 1 : lNodesLeader[i] \in iNodesFront .. iNodesRear - 1
      /\ \A i \in lNodesCur .. size - 1 : lNodesLeader[i] = -1 /\ CL[i] = 0
  BY <1>1, Rested
<1>4. ASSUME NEW i \in Leaf
      PROVE  IF i < lNodesCur THEN lNodesLeader[i] \in Roots ELSE lNodesLeader[i] = -1 /\ CL[i] = 0
  <2>1. i \in 0 .. size - 1
    BY <1>3
  <2>2. CASE i < lNodesCur
    <3>1. i \in 0 .. lNodesCur - 1
      BY <1>3, <2>1, <2>2
    <3> QED BY <1>2, <1>3, <2>2, <3>1
  <2>3. CASE ~(i < lNodesCur)
    <3>1. i \in lNodesCur .. size - 1
      BY <1>3, <2>1, <2>3
    <3> QED BY <1>3, <2>3, <3>1
  <2> QED BY <2>2, <2>3
<1>5. ASSUME NEW r \in Roots PROVE Kraft(Tree(r)) = pow2[size]
  BY <1>1, <1>2, TreeFull
<1> QED BY <1>4, <1>5

(* A finished grid has stopped between two rounds with nothing left to do.    *)
LEMMA Finished == Inv /\ Done => phase = "combine" /\ at[0] # "wait" /\ ~Working
<1> SUFFICES ASSUME Inv, Done PROVE phase = "combine" /\ at[0] # "wait" /\ ~Working
  OBVIOUS
<1>1. at[0] = "exit"
  BY Blocks DEF Done
<1> QED BY <1>1, Blocks DEF Inv, Places, Ended

(* At the end there is one tree, of all the leaves, and it is full.           *)
LEMMA InvComplete == Inv => CompleteCode
<1> SUFFICES ASSUME Inv, Done, size > 1 PROVE Kraft(Leaf) = pow2[size]
  BY DEF CompleteCode
<1>1. phase = "combine" /\ at[0] # "wait" /\ ~Working
  BY Finished
<1>2. /\ size \in Nat \ {0} /\ Leaf = 0 .. size - 1 /\ lNodesCur \in 0 .. size
      /\ iNodesFront \in 0 .. size - 1 /\ iNodesRear \in 0 .. size - 1
      /\ iNodesSize = iNodesRear - iNodesFront
      /\ iNodesFront < iNodesRear \/ (iNodesFront = 0 /\ iNodesRear = 0)
      /\ lNodesCur + iNodesFront = 2 * iNodesRear
      /\ \A i \in 0 .. lNodesCur - 1 : lNodesLeader[i] \in iNodesFront .. iNodesRear - 1
  BY <1>1, Rested
<1>3. ~(lNodesCur < size) /\ ~(iNodesSize > 1)
  BY <1>1 DEF Working
<1>4. lNodesCur = size
  BY <1>2, <1>3
<1>5. iNodesRear = iNodesFront + 1
  BY <1>2, <1>3, <1>4
<1>6. iNodesFront \in iNodesFront .. iNodesRear - 1
  BY <1>2, <1>5
<1>7. Tree(iNodesFront) = Leaf
  <2>1. ASSUME NEW i \in Leaf PROVE lNodesLeader[i] = iNodesFront
    <3>1. lNodesLeader[i] \in iNodesFront .. iNodesRear - 1
      BY <1>2, <1>4
    <3> QED BY <1>2, <1>5, <3>1
  <2> QED BY <2>1 DEF Tree
<1>8. Kraft(Tree(iNodesFront)) = pow2[size]
  BY <1>1, <1>6, TreeFull
<1> QED BY <1>7, <1>8

(* The leaves come in the order of their depths.                             *)
LEMMA InvOrdered == Inv => FrequentNotLonger
<1> SUFFICES ASSUME Inv, Done, NEW i \in Leaf, NEW j \in Leaf, i < j PROVE CL[i] >= CL[j]
  BY DEF FrequentNotLonger
<1>1. phase = "combine" /\ at[0] # "wait"
  BY Finished
<1>2. size \in Nat \ {0} /\ (size = 1 \/ size > 1) /\ i \in 0 .. size - 1 /\ j \in 0 .. size - 1
  BY SizeCases
<1>3. size > 1
  BY <1>2
<1>4. /\ lNodesCur \in 0 .. size
      /\ \A k \in 0 .. lNodesCur - 1 : CL[k] \in Nat /\ Depth(lNodesLeader, CL, iNodesFront, k) = CL[k]
      /\ Ordered(lNodesLeader, CL, iNodesLeader, iNodesFront, lNodesCur)
      /\ \A k \in lNodesCur .. size - 1 : CL[k] = 0
  BY <1>1, <1>3, Rested
<1>5. CASE j < lNodesCur
  <2>1. j \in 0 .. lNodesCur - 1 /\ i \in 0 .. j /\ i \in 0 .. lNodesCur - 1
    BY <1>2, <1>4, <1>5
  <2>2. \/ Depth(lNodesLeader, CL, iNodesFront, i) > Depth(lNodesLeader, CL, iNodesFront, j)
        \/ Depth(lNodesLeader, CL, iNodesFront, i) = Depth(lNodesLeader, CL, iNodesFront, j)
    BY <1>4, <2>1 DEF Ordered
  <2>3. /\ Depth(lNodesLeader, CL, iNodesFront, i) = CL[i] /\ Depth(lNodesLeader, CL, iNodesFront, j) = CL[j]
        /\ CL[i] \in Nat /\ CL[j] \in Nat
    BY <1>4, <2>1
  <2> QED BY <2>2, <2>3
<1>6. CASE ~(j < lNodesCur)
  <2>1. CL[j] = 0
    BY <1>2, <1>4, <1>6
  <2>2. CL[i] \in Nat
    <3>1. i \in 0 .. lNodesCur - 1 \/ i \in lNodesCur .. size - 1
      BY <1>2, <1>4
    <3> QED BY <1>4, <3>1
  <2> QED BY <2>1, <2>2
<1> QED BY <1>5, <1>6
-----------------------------------------------------------------------------
(* Whatever the histogram and the grid, provided that what several blocks     *)
(* merge is sorted (one block needs no such thing), the state keeps its types. *)
THEOREM Types == Spec /\ []Joins => []TypeOK
BY InvHolds, InvTypes, PTL

(* parMerge() is given the leaves taken, each once and in order, though       *)
(* blocks copied them while the maximum that says how many was growing.       *)
THEOREM Copied == Spec /\ []Joins => []LeavesCopied
BY InvHolds, InvCopied, PTL

(* The shares that the blocks merge make up one sorted sequence.              *)
THEOREM Merged == Spec /\ []Joins => []MergedWhole
BY InvHolds, InvMerged, PTL

(* The slots that melding writes hold no root that a leaf still looks up.     *)
THEOREM HasRoom == Spec /\ []Joins => []RingHasRoom
BY InvHolds, InvRoom, PTL

(* Between two rounds the leaves taken are in full binary trees.              *)
THEOREM Sound == Spec /\ []Joins => []ForestSound
BY InvHolds, InvForest, PTL

(* The code that the kernel ends with is complete.                           *)
THEOREM Complete == Spec /\ []Joins => []CompleteCode
BY InvHolds, InvComplete, PTL

(* The more frequent of two symbols never has the longer codeword.            *)
THEOREM NotLonger == Spec /\ []Joins => []FrequentNotLonger
BY InvHolds, InvOrdered, PTL

(* In one block, all that holds whatever the histogram: nothing is assumed.  *)
THEOREM OneBlock ==
  NBlocks = 1 => (Spec => [](TypeOK /\ LeavesCopied /\ MergedWhole /\ RingHasRoom
                             /\ ForestSound /\ CompleteCode /\ FrequentNotLonger))
<1> SUFFICES ASSUME NBlocks = 1
             PROVE  Spec => [](TypeOK /\ LeavesCopied /\ MergedWhole /\ RingHasRoom
                               /\ ForestSound /\ CompleteCode /\ FrequentNotLonger)
  OBVIOUS
<1>1. Joins
  BY DEF Joins
<1>2. Inv => TypeOK /\ LeavesCopied /\ MergedWhole /\ RingHasRoom /\ ForestSound /\ CompleteCode /\ FrequentNotLonger
  BY InvTypes, InvCopied, InvMerged, InvRoom, InvForest, InvComplete, InvOrdered
<1>3. Init => Inv
  BY InvInit
<1>4. Inv /\ [Next]_vars => Inv'
  BY <1>1, InvStep
<1> QED BY <1>2, <1>3, <1>4, PTL DEF Spec
=============================================================================
