----------------------------- MODULE CodeBookProofs -----------------------------
(***************************************************************************)
(* That the in-place construction of a codebook ends with each length at   *)
(* the quant-code it was made for, and with codewords that a decoder reads *)
(* back.  The argument: codewords of one length are a group; when its turn *)
(* comes, all that is shorter has taken Spaces of the sequences of bits,   *)
(* its codewords take the ones after, and complemented they are below all  *)
(* a shorter length stops at.                                              *)
(***************************************************************************)
EXTENDS CodeBook, FiniteSetTheorems, NatLemmas

-----------------------------------------------------------------------------
(* Lengths and orders.                                                      *)

(* A list of lengths begins with 0 and has no more than DictSize members.   *)
LEMMA SizeOf ==
  ASSUME NEW L \in Lengths
  PROVE  /\ Count(L) \in 1 .. DictSize /\ Count(L) \in Nat
         /\ L \in [0 .. Count(L) - 1 -> 1 .. Long]
         /\ DictSize \in Nat \ {0}
<1>1. PICK n \in 1 .. DictSize : L \in [0 .. n - 1 -> 1 .. Long]
  BY BookAssumption
<1>2. n \in Int /\ n >= 1 /\ DictSize \in Nat \ {0}
  BY BookAssumption
<1>3. Cardinality(0 .. n - 1) = n
  <2>1. 0 \in Int /\ n - 1 \in Int
    BY <1>2
  <2>2. Cardinality(0 .. n - 1) = IF 0 > n - 1 THEN 0 ELSE n - 1 - 0 + 1
    BY <2>1, FS_Interval
  <2> QED
    BY <1>2, <2>2
<1>4. Count(L) = n
  BY <1>1, <1>3 DEF Count
<1> QED
  BY <1>1, <1>2, <1>4

(* The codebook takes the last size places of DictSize.                     *)
LEMMA SizeBounds ==
  ASSUME given \in Given
  PROVE  /\ size \in 1 .. DictSize /\ size \in Nat /\ off \in Nat /\ off + size = DictSize
         /\ DictSize \in Nat \ {0}
         /\ given.len \in Lengths /\ given.order \in Orders
         /\ given.len \in [0 .. size - 1 -> 1 .. Long]
         /\ given.order \in [Index -> Index]
<1>1. given.len \in Lengths /\ given.order \in Orders
  BY DEF Given
<1>2. /\ size \in 1 .. DictSize /\ size \in Nat
      /\ given.len \in [0 .. size - 1 -> 1 .. Long]
  BY <1>1, SizeOf DEF size
<1>3. DictSize \in Nat \ {0} /\ given.order \in [Index -> Index]
  BY <1>1, BookAssumption
<1> HIDE DEF size
<1> QED
  BY <1>1, <1>2, <1>3 DEF off

(* An order lists every quant-code once.                                    *)
LEMMA OrderOnce ==
  ASSUME NEW q \in Orders, NEW i \in Index, NEW j \in Index, q[i] = q[j]
  PROVE  i = j
<1>1. q \in [Index -> Index] /\ {q[k] : k \in Index} = Index
  BY BookAssumption
<1>2. q \in Surjection(Index, Index)
  BY <1>1 DEF Surjection
<1>3. IsFiniteSet(Index)
  <2>1. 0 \in Int /\ DictSize - 1 \in Int
    BY BookAssumption
  <2> QED
    BY <2>1, FS_Interval DEF Index
<1>4. q \in Injection(Index, Index)
  BY <1>2, <1>3, FS_SurjSameCardinalityImpliesInj
<1> QED
  BY <1>4 DEF Injection, IsInjective-----------------------------------------------------------------------------
(* Powers of two.                                                           *)

(* A word has room for a codeword of one bit and the two bits above it.     *)
LEMMA WordBits ==
  /\ TypeBW \in Nat /\ TypeBW >= 3 /\ Long \in Nat \ {0} /\ Long + 2 = TypeBW
<1>1. TypeBW \in Nat \ {0}
  BY BookAssumption
<1>2. PICK L \in Lengths : TRUE
  BY BookAssumption
<1>3. L[0] \in 1 .. Long
  BY <1>2, SizeOf
<1> QED
  BY <1>1, <1>3 DEF Long

(* pow2 doubles from 1 on.                                                  *)
LEMMA Pow2Is ==
  /\ pow2 \in [0 .. TypeBW -> Nat] /\ pow2[0] = 1
  /\ \A k \in 1 .. TypeBW : pow2[k] = 2 * pow2[k - 1]
<1> DEFINE g        == [k \in 1 .. TypeBW |-> 0]
           Doubles(f) == f = [k \in 0 .. TypeBW |-> IF k = 0 THEN 1 ELSE 2 * f[k - 1]]
<1>1. PICK f : Recurs(f, TypeBW, 2, 1, g)
  <2>1. g \in [1 .. TypeBW -> Nat] /\ TypeBW \in Nat /\ 2 \in Nat /\ 1 \in Nat
    BY WordBits
  <2> HIDE DEF g
  <2> QED
    BY <2>1, Recurrence
<1>2. /\ f \in [0 .. TypeBW -> Nat] /\ f[0] = 1
      /\ \A k \in 1 .. TypeBW : f[k] = 2 * f[k - 1] + 0
  BY <1>1 DEF Recurs
<1>3. Doubles(f)
  <2>1. ASSUME NEW k \in 0 .. TypeBW PROVE f[k] = IF k = 0 THEN 1 ELSE 2 * f[k - 1]
    <3>1. CASE k = 0
      BY <1>2, <3>1
    <3>2. CASE k # 0
      <4>1. k \in 1 .. TypeBW /\ k - 1 \in 0 .. TypeBW
        BY <3>2, WordBits
      <4>2. f[k] = 2 * f[k - 1] + 0 /\ f[k - 1] \in Nat
        BY <1>2, <4>1
      <4> QED
        BY <3>2, <4>2
    <3> QED
      BY <3>1, <3>2
  <2> QED
    BY <1>2, <2>1
<1>4. Doubles(pow2)
  <2>1. pow2 = CHOOSE h : Doubles(h)
    BY DEF pow2
  <2> HIDE DEF Doubles
  <2> QED
    BY <1>3, <2>1
<1>5. \A k \in 0 .. TypeBW : pow2[k] = IF k = 0 THEN 1 ELSE 2 * pow2[k - 1]
  <2>1. pow2 = [k \in 0 .. TypeBW |-> IF k = 0 THEN 1 ELSE 2 * pow2[k - 1]]
    BY <1>4
  <2>2. ASSUME NEW k \in 0 .. TypeBW
        PROVE  pow2[k] = IF k = 0 THEN 1 ELSE 2 * pow2[k - 1]
    BY <2>1
  <2> QED
    BY <2>2
<1>6. DOMAIN pow2 = 0 .. TypeBW /\ pow2 = [k \in 0 .. TypeBW |-> pow2[k]]
  BY <1>4
<1> HIDE DEF Doubles, g
<1>7. pow2[0] = 1
  BY <1>5, WordBits
<1>8. ASSUME NEW k \in 1 .. TypeBW PROVE pow2[k] = 2 * pow2[k - 1]
  <2>1. k \in 0 .. TypeBW /\ k # 0
    BY WordBits
  <2> QED
    BY <1>5, <2>1
<1>9. ASSUME NEW k \in 0 .. TypeBW, pow2[k] \notin Nat PROVE FALSE
  <2> DEFINE S == {m \in 0 .. TypeBW : pow2[m] \notin Nat}
  <2>1. S \in SUBSET Nat /\ S # {}
    <3>1. k \in S
      BY <1>9
    <3>2. \A m \in S : m \in Nat
      BY WordBits
    <3> HIDE DEF S
    <3> QED
      BY <3>1, <3>2
  <2> HIDE DEF S
  <2>2. PICK m \in S : \A j \in S : m <= j
    BY <2>1, Least
  <2>3. m \in 0 .. TypeBW /\ pow2[m] \notin Nat
    BY <2>2 DEF S
  <2>4. m # 0
    BY <1>7, <2>3
  <2>5. m - 1 \in 0 .. TypeBW /\ m \in 1 .. TypeBW /\ ~(m <= m - 1)
    BY WordBits, <2>3, <2>4
  <2>6. pow2[m - 1] \in Nat
    BY <2>2, <2>5 DEF S
  <2>7. \A x \in Nat : 2 * x \in Nat
    OBVIOUS
  <2> QED
    BY <1>8, <2>3, <2>5, <2>6, <2>7
<1>10. pow2 \in [0 .. TypeBW -> Nat]
  BY <1>6, <1>9
<1> QED
  BY <1>7, <1>8, <1>10
(* No power of two is zero.                                                 *)
LEMMA PowPositive ==
  ASSUME NEW k \in 0 .. TypeBW
  PROVE  pow2[k] \in Nat \ {0}
<1>1. SUFFICES ASSUME pow2[k] = 0 PROVE FALSE
  BY Pow2Is
<1> DEFINE S == {m \in 0 .. TypeBW : pow2[m] = 0}
<1>2. S \in SUBSET Nat /\ S # {}
  <2>1. k \in S
    BY <1>1
  <2>2. \A m \in S : m \in Nat
    BY WordBits
  <2> HIDE DEF S
  <2> QED
    BY <2>1, <2>2
<1> HIDE DEF S
<1>3. PICK m \in S : \A j \in S : m <= j
  BY <1>2, Least
<1>4. m \in 0 .. TypeBW /\ pow2[m] = 0
  BY <1>3 DEF S
<1>5. m # 0
  BY <1>4, Pow2Is
<1>6. m - 1 \in 0 .. TypeBW /\ m \in 1 .. TypeBW /\ ~(m <= m - 1)
  BY WordBits, <1>4, <1>5
<1>7. pow2[m - 1] # 0 /\ pow2[m - 1] \in Nat /\ pow2[m] = 2 * pow2[m - 1]
  BY <1>3, <1>6, Pow2Is DEF S
<1> QED
  BY <1>4, <1>7

(* Powers of two multiply by adding their exponents.                        *)
LEMMA PowAdd ==
  ASSUME NEW a \in Nat, NEW b \in Nat, a + b <= TypeBW
  PROVE  pow2[a + b] = pow2[a] * pow2[b]
<1>1. SUFFICES ASSUME pow2[a + b] # pow2[a] * pow2[b] PROVE FALSE
  OBVIOUS
<1> DEFINE S == {m \in 0 .. b : pow2[a + m] # pow2[a] * pow2[m]}
<1>2. S \in SUBSET Nat /\ S # {}
  <2>1. b \in S
    BY <1>1
  <2>2. \A m \in S : m \in Nat
    OBVIOUS
  <2> HIDE DEF S
  <2> QED
    BY <2>1, <2>2
<1> HIDE DEF S
<1>3. PICK m \in S : \A j \in S : m <= j
  BY <1>2, Least
<1>4. m \in 0 .. b /\ pow2[a + m] # pow2[a] * pow2[m]
  BY <1>3 DEF S
<1>5. pow2[a] \in Nat
  <2>1. a \in 0 .. TypeBW
    BY WordBits
  <2> QED
    BY <2>1, Pow2Is
<1>6. m # 0
  <2>1. a + 0 = a /\ pow2[a] * 1 = pow2[a] /\ pow2[0] = 1
    BY <1>5, Pow2Is
  <2> QED
    BY <1>4, <2>1
<1>7. /\ m - 1 \in 0 .. b /\ ~(m <= m - 1) /\ m \in 1 .. TypeBW
      /\ a + m \in 1 .. TypeBW /\ m - 1 \in 0 .. TypeBW
      /\ (a + m) - 1 = a + (m - 1)
  BY WordBits, <1>4, <1>6
<1>8. pow2[a + (m - 1)] = pow2[a] * pow2[m - 1]
  BY <1>3, <1>7 DEF S
<1>9. pow2[a + m] = 2 * pow2[a + (m - 1)] /\ pow2[m] = 2 * pow2[m - 1] /\ pow2[m - 1] \in Nat
  BY <1>7, Pow2Is
<1>10. \A x, y \in Nat : 2 * (x * y) = x * (2 * y)
  OBVIOUS
<1> QED
  BY <1>4, <1>5, <1>8, <1>9, <1>10

(* They grow, and at least double, with the exponent.                       *)
LEMMA PowOrder ==
  ASSUME NEW a \in Nat, NEW b \in Nat, a <= b, b <= TypeBW
  PROVE  /\ pow2[a] <= pow2[b]
         /\ a < b => 2 * pow2[a] <= pow2[b]
<1>1. b - a \in Nat /\ a + (b - a) = b /\ a \in 0 .. TypeBW /\ b - a \in 0 .. TypeBW
  BY WordBits
<1>2. pow2[b] = pow2[a] * pow2[b - a]
  BY <1>1, PowAdd
<1>3. pow2[a] \in Nat \ {0} /\ pow2[b - a] \in Nat \ {0}
  BY <1>1, PowPositive
<1>4. \A x, y \in Nat \ {0} : x <= x * y
  OBVIOUS
<1>5. ASSUME a < b PROVE 2 * pow2[a] <= pow2[b]
  <2>1. b - a - 1 \in Nat /\ b - a - 1 \in 0 .. TypeBW /\ b - a \in 1 .. TypeBW
    BY WordBits, <1>1, <1>5
  <2>2. pow2[b - a] = 2 * pow2[b - a - 1] /\ pow2[b - a - 1] \in Nat \ {0}
    BY <2>1, Pow2Is, PowPositive
  <2>3. \A x, y \in Nat \ {0} : 2 * x <= x * (2 * y)
    OBVIOUS
  <2> QED
    BY <1>2, <1>3, <2>2, <2>3
<1> QED
  BY <1>2, <1>3, <1>4, <1>5

(* A codeword of l bits stands for U(l) sequences of Long bits.             *)
U(l) == pow2[Long - l]

(* A length is an index of first and entry, and so is the one after it.     *)
LEMMA Unit ==
  ASSUME NEW l \in 1 .. Long
  PROVE  /\ l \in Bits /\ l \in Nat /\ l + 1 \in Bits
         /\ U(l) \in Nat \ {0} /\ pow2[l] \in Nat \ {0}
         /\ pow2[Long] \in Nat \ {0} /\ pow2[Long] = pow2[l] * U(l)
         /\ pow2[l] <= pow2[Long]
<1>1. l \in Bits /\ l \in Nat /\ l + 1 \in Bits /\ Long - l \in Nat /\ l + (Long - l) = Long
      /\ Long - l \in 0 .. TypeBW /\ l \in 0 .. TypeBW /\ Long \in 0 .. TypeBW /\ Long \in Nat
      /\ Long <= TypeBW /\ l <= Long
  BY WordBits DEF Bits
<1>2. pow2[Long] = pow2[l] * pow2[Long - l]
  BY <1>1, PowAdd
<1> QED
  BY <1>1, <1>2, PowPositive, PowOrder DEF U

(* What marks a length that is skipped exceeds what any length can take.    *)
LEMMA MaxIs ==
  MAX \in Nat /\ pow2[Long] \in Nat \ {0} /\ pow2[Long] < MAX
<1>1. pow2[TypeBW] = 2 * pow2[TypeBW - 1] /\ pow2[TypeBW - 1] = 2 * pow2[TypeBW - 2]
  <2>1. TypeBW \in 1 .. TypeBW /\ TypeBW - 1 \in 1 .. TypeBW /\ TypeBW - 1 - 1 = TypeBW - 2
    BY WordBits
  <2> QED
    BY <2>1, Pow2Is
<1>2. TypeBW - 2 \in 0 .. TypeBW
  BY WordBits
<1>3. pow2[TypeBW - 2] \in Nat \ {0}
  BY <1>2, PowPositive
<1> QED
  BY <1>1, <1>3 DEF MAX, Long-----------------------------------------------------------------------------
(* The lengths by ascending length, and the spaces their codewords take.    *)
Asc(L) == Reversed(L, Count(L))

(* The list backwards, as GPU_GenerateCW reverses it.                       *)
LEMMA AscIs ==
  ASSUME NEW L \in Lengths
  PROVE  /\ Asc(L) \in [0 .. Count(L) - 1 -> 1 .. Long]
         /\ \A i \in 0 .. Count(L) - 1 : Asc(L)[i] = L[Count(L) - 1 - i]
<1> DEFINE n == Count(L)
<1>1. n \in Nat \ {0} /\ L \in [0 .. n - 1 -> 1 .. Long] /\ DOMAIN L = 0 .. n - 1
  BY SizeOf
<1>2. Asc(L) = [i \in 0 .. n - 1 |-> IF i < n THEN L[n - 1 - i] ELSE L[i]]
  BY <1>1 DEF Asc, Reversed
<1> HIDE DEF n
<1>3. ASSUME NEW i \in 0 .. n - 1 PROVE Asc(L)[i] = L[n - 1 - i] /\ Asc(L)[i] \in 1 .. Long
  <2>1. i < n /\ n - 1 - i \in 0 .. n - 1
    BY <1>1
  <2> QED
    BY <1>1, <1>2, <2>1
<1>4. Asc(L) \in [0 .. n - 1 -> 1 .. Long]
  BY <1>2, <1>3
<1> QED
  BY <1>3, <1>4 DEF n

(* A length is at least one and at most Long.                               *)
LEMMA AscNat ==
  ASSUME NEW L \in Lengths, NEW i \in 0 .. Count(L) - 1
  PROVE  Asc(L)[i] \in 1 .. Long /\ Asc(L)[i] \in Nat
<1>1. Asc(L)[i] \in 1 .. Long
  BY AscIs
<1> QED
  BY <1>1, WordBits

(* The lengths ascend.                                                      *)
LEMMA Ascending ==
  ASSUME NEW L \in Lengths, NEW i \in 0 .. Count(L) - 1, NEW j \in 0 .. Count(L) - 1, i <= j
  PROVE  Asc(L)[i] <= Asc(L)[j]
<1>1. Count(L) \in Nat \ {0} /\ DOMAIN L = 0 .. Count(L) - 1
  BY SizeOf
<1> DEFINE n == Count(L)
<1>2. Asc(L)[i] = L[n - 1 - i] /\ Asc(L)[j] = L[n - 1 - j] /\ Asc(L)[i] \in Nat
  <2>1. Asc(L)[i] \in 1 .. Long
    BY AscIs
  <2> QED
    BY <2>1, AscIs, WordBits
<1>3. \A a, b \in DOMAIN L : a < b => L[a] >= L[b]
  BY BookAssumption
<1> HIDE DEF n
<1>4. CASE i = j
  BY <1>2, <1>4
<1>5. CASE i < j
  <2>1. n - 1 - i \in DOMAIN L /\ n - 1 - j \in DOMAIN L /\ n - 1 - j < n - 1 - i
    BY <1>1, <1>5 DEF n
  <2>2. L[n - 1 - j] >= L[n - 1 - i]
    BY <1>3, <2>1
  <2> QED
    BY <1>2, <2>2
<1>6. i = j \/ i < j
  BY <1>1
<1> QED
  BY <1>4, <1>5, <1>6

(* The two longest codewords are of one length.                             *)
LEMMA LastTwo ==
  ASSUME NEW L \in Lengths, Count(L) > 1
  PROVE  Asc(L)[Count(L) - 1] = Asc(L)[Count(L) - 2]
<1>1. Count(L) \in Nat \ {0} /\ L[0] = L[1]
  BY SizeOf, BookAssumption
<1>2. /\ Count(L) - 1 \in 0 .. Count(L) - 1 /\ Count(L) - 2 \in 0 .. Count(L) - 1
      /\ Count(L) - 1 - (Count(L) - 1) = 0 /\ Count(L) - 1 - (Count(L) - 2) = 1
  BY <1>1
<1> QED
  BY <1>1, <1>2, AscIs

(* The spaces are the sums of what the codewords so far take, and there are *)
(* enough.                                                                  *)
LEMMA SpacesIs ==
  ASSUME NEW L \in Lengths
  PROVE  /\ Spaces(L) \in [0 .. Count(L) -> Nat] /\ Spaces(L)[0] = 0
         /\ \A i \in 1 .. Count(L) : Spaces(L)[i] = Spaces(L)[i - 1] + U(Asc(L)[i - 1])
         /\ Spaces(L)[Count(L)] <= pow2[Long]
<1> DEFINE n      == Count(L)
           g      == [k \in 1 .. n |-> pow2[Long - L[n - k]]]
           Sums(f) == f = [i \in 0 .. n |-> IF i = 0 THEN 0 ELSE f[i - 1] + pow2[Long - L[n - i]]]
<1>1. n \in Nat \ {0} /\ L \in [0 .. n - 1 -> 1 .. Long]
  BY SizeOf
<1>2. ASSUME NEW k \in 1 .. n
      PROVE  pow2[Long - L[n - k]] \in Nat /\ pow2[Long - L[n - k]] = U(Asc(L)[k - 1])
  <2>1. n - k \in 0 .. n - 1 /\ k - 1 \in 0 .. n - 1 /\ n - 1 - (k - 1) = n - k
    BY <1>1
  <2>2. L[n - k] \in 1 .. Long
    BY <1>1, <2>1
  <2>3. Asc(L)[k - 1] = L[n - k]
    BY <2>1, AscIs
  <2> QED
    BY <2>2, <2>3, Unit DEF U
<1> HIDE DEF n
<1>3. PICK f : Recurs(f, n, 1, 0, g)
  <2>1. g \in [1 .. n -> Nat] /\ n \in Nat /\ 1 \in Nat /\ 0 \in Nat
    BY <1>1, <1>2
  <2> HIDE DEF g
  <2> QED
    BY <2>1, Recurrence
<1>4. /\ f \in [0 .. n -> Nat] /\ f[0] = 0
      /\ \A k \in 1 .. n : f[k] = 1 * f[k - 1] + pow2[Long - L[n - k]]
  BY <1>3 DEF Recurs
<1>5. Sums(f)
  <2>1. ASSUME NEW k \in 0 .. n
        PROVE  f[k] = IF k = 0 THEN 0 ELSE f[k - 1] + pow2[Long - L[n - k]]
    <3>1. CASE k = 0
      BY <1>4, <3>1
    <3>2. CASE k # 0
      <4>1. k \in 1 .. n /\ k - 1 \in 0 .. n
        BY <3>2, <1>1
      <4>2. f[k] = 1 * f[k - 1] + pow2[Long - L[n - k]] /\ f[k - 1] \in Nat
        BY <1>4, <4>1
      <4>3. 1 * f[k - 1] = f[k - 1]
        BY <4>2
      <4> QED
        BY <3>2, <4>2, <4>3
    <3> QED
      BY <3>1, <3>2
  <2> QED
    BY <1>4, <2>1
<1>6. Sums(Spaces(L))
  <2>1. Spaces(L) = CHOOSE h : Sums(h)
    BY DEF Spaces, n
  <2> HIDE DEF Sums
  <2> QED
    BY <1>5, <2>1
<1> HIDE DEF g
<1>7. DOMAIN Spaces(L) = 0 .. n /\ Spaces(L) = [i \in 0 .. n |-> Spaces(L)[i]]
  BY <1>6
<1>8. \A i \in 0 .. n : Spaces(L)[i] = IF i = 0 THEN 0 ELSE Spaces(L)[i - 1] + pow2[Long - L[n - i]]
  <2>1. Spaces(L) = [i \in 0 .. n |-> IF i = 0 THEN 0 ELSE Spaces(L)[i - 1] + pow2[Long - L[n - i]]]
    BY <1>6
  <2>2. ASSUME NEW i \in 0 .. n
        PROVE  Spaces(L)[i] = IF i = 0 THEN 0 ELSE Spaces(L)[i - 1] + pow2[Long - L[n - i]]
    BY <2>1
  <2> QED
    BY <2>2
<1> HIDE DEF Sums
<1>9. Spaces(L)[0] = 0
  BY <1>1, <1>8
<1>10. ASSUME NEW i \in 1 .. n
       PROVE  Spaces(L)[i] = Spaces(L)[i - 1] + U(Asc(L)[i - 1]) /\ U(Asc(L)[i - 1]) \in Nat
  <2>1. i \in 0 .. n /\ i # 0
    BY <1>1
  <2> QED
    BY <1>2, <1>8, <2>1
<1>11. ASSUME NEW k \in 0 .. n, Spaces(L)[k] \notin Nat PROVE FALSE
  <2> DEFINE S == {m \in 0 .. n : Spaces(L)[m] \notin Nat}
  <2>1. S \in SUBSET Nat /\ S # {}
    <3>1. k \in S
      BY <1>11
    <3>2. \A m \in S : m \in Nat
      BY <1>1
    <3> HIDE DEF S
    <3> QED
      BY <3>1, <3>2
  <2> HIDE DEF S
  <2>2. PICK m \in S : \A j \in S : m <= j
    BY <2>1, Least
  <2>3. m \in 0 .. n /\ Spaces(L)[m] \notin Nat
    BY <2>2 DEF S
  <2>4. m # 0
    BY <1>9, <2>3
  <2>5. m - 1 \in 0 .. n /\ m \in 1 .. n /\ ~(m <= m - 1)
    BY <1>1, <2>3, <2>4
  <2>6. Spaces(L)[m - 1] \in Nat
    BY <2>2, <2>5 DEF S
  <2>7. \A x, y \in Nat : x + y \in Nat
    OBVIOUS
  <2> QED
    BY <1>10, <2>3, <2>5, <2>6, <2>7
<1>12. Spaces(L) \in [0 .. n -> Nat]
  BY <1>7, <1>11
<1>13. Spaces(L)[n] <= pow2[Long]
  BY BookAssumption DEF n
<1> QED
  BY <1>9, <1>10, <1>12, <1>13 DEF n

(* A group: the codewords of one length, in positions s to e.               *)
Group(L, s, e) ==
  /\ s \in 0 .. e /\ e \in 0 .. Count(L) - 1
  /\ Asc(L)[s] = Asc(L)[e]
  /\ s > 0 => Asc(L)[s - 1] < Asc(L)[s]
  /\ e < Count(L) - 1 => Asc(L)[e] < Asc(L)[e + 1]

(* Where a group starts and ends is a position, and its length a length.    *)
LEMMA GroupTypes ==
  ASSUME NEW L \in Lengths, NEW s, NEW e, Group(L, s, e)
  PROVE  /\ s \in Nat /\ e \in Nat /\ s <= e /\ e < Count(L) /\ Count(L) \in Nat
         /\ s \in 0 .. Count(L) - 1 /\ e \in 0 .. Count(L) - 1
         /\ Asc(L)[s] \in 1 .. Long /\ Asc(L)[e] = Asc(L)[s]
<1>1. Count(L) \in Nat /\ s \in 0 .. e /\ e \in 0 .. Count(L) - 1
  BY SizeOf DEF Group
<1>2. s \in Nat /\ e \in Nat /\ s <= e /\ e < Count(L) /\ s \in 0 .. Count(L) - 1
  BY <1>1
<1> QED
  BY <1>1, <1>2, AscIs DEF Group

(* All the codewords of a group are of its length, and no others are.       *)
LEMMA InGroup ==
  ASSUME NEW L \in Lengths, NEW s, NEW e, Group(L, s, e), NEW i \in 0 .. Count(L) - 1
  PROVE  /\ i < s  => Asc(L)[i] < Asc(L)[s]
         /\ i \in s .. e => Asc(L)[i] = Asc(L)[s]
         /\ i > e  => Asc(L)[i] > Asc(L)[s]
<1>1. /\ s \in Nat /\ e \in Nat /\ s <= e /\ e < Count(L) /\ Count(L) \in Nat
      /\ s \in 0 .. Count(L) - 1 /\ e \in 0 .. Count(L) - 1
      /\ Asc(L)[s] \in Nat /\ Asc(L)[e] = Asc(L)[s] /\ Asc(L)[i] \in Nat
  <2>1. Asc(L)[i] \in 1 .. Long
    BY AscIs
  <2> QED
    BY <2>1, GroupTypes, WordBits
<1>2. ASSUME i < s PROVE Asc(L)[i] < Asc(L)[s]
  <2>1. s - 1 \in 0 .. Count(L) - 1 /\ i <= s - 1 /\ s > 0
    BY <1>1, <1>2
  <2>2. Asc(L)[i] <= Asc(L)[s - 1] /\ Asc(L)[s - 1] < Asc(L)[s] /\ Asc(L)[s - 1] \in 1 .. Long
    BY <2>1, Ascending, AscIs DEF Group
  <2> QED
    BY <1>1, <2>2, WordBits
<1>3. ASSUME i \in s .. e PROVE Asc(L)[i] = Asc(L)[s]
  <2>1. s <= i /\ i <= e
    BY <1>1, <1>3
  <2>2. Asc(L)[s] <= Asc(L)[i] /\ Asc(L)[i] <= Asc(L)[e]
    BY <1>1, <2>1, Ascending
  <2> QED
    BY <1>1, <2>2
<1>4. ASSUME i > e PROVE Asc(L)[i] > Asc(L)[s]
  <2>1. e + 1 \in 0 .. Count(L) - 1 /\ e + 1 <= i /\ e < Count(L) - 1
    BY <1>1, <1>4
  <2>2. Asc(L)[e + 1] <= Asc(L)[i] /\ Asc(L)[e] < Asc(L)[e + 1] /\ Asc(L)[e + 1] \in 1 .. Long
    BY <2>1, Ascending, AscIs DEF Group
  <2> QED
    BY <1>1, <2>2, WordBits
<1> QED
  BY <1>2, <1>3, <1>4
(* Where a group may start.                                                 *)
Starts(L, s) == s \in 0 .. Count(L) - 1 /\ (s > 0 => Asc(L)[s - 1] < Asc(L)[s])

(* The while loop's atomicMin finds the end of the group that starts at s.  *)
Ends(L, l) == {Count(L) - 1} \cup {i \in 0 .. Count(L) - 2 : Asc(L)[i + 1] > l}

(* The least of a set of natural numbers.                                   *)
LEMMA MinIs ==
  ASSUME NEW S \in SUBSET Nat, S # {}
  PROVE  Min(S) \in S /\ \A x \in S : Min(S) <= x
<1>1. \E m \in S : \A n \in S : m <= n
  BY Least
<1> QED
  BY <1>1 DEF Min

(* There is an end to every group.                                          *)
LEMMA EndsNat ==
  ASSUME NEW L \in Lengths, NEW l
  PROVE  Ends(L, l) \in SUBSET Nat /\ Ends(L, l) # {}
<1>1. Count(L) \in Nat \ {0}
  BY SizeOf
<1>2. Count(L) - 1 \in Ends(L, l)
  BY DEF Ends
<1>3. \A i \in Ends(L, l) : i \in Nat
  BY <1>1 DEF Ends
<1> QED
  BY <1>2, <1>3

(* What the atomicMin leaves is the last position of the group.             *)
LEMMA EndOfGroup ==
  ASSUME NEW L \in Lengths, NEW s, Starts(L, s)
  PROVE  Group(L, s, Min(Ends(L, Asc(L)[s])))
<1> DEFINE e == Min(Ends(L, Asc(L)[s]))
           n == Count(L)
<1>1. n \in Nat \ {0} /\ s \in 0 .. n - 1
  BY SizeOf DEF Starts
<1>2. e \in Ends(L, Asc(L)[s]) /\ \A x \in Ends(L, Asc(L)[s]) : e <= x
  <2> DEFINE S == Ends(L, Asc(L)[s])
  <2>1. S \in SUBSET Nat /\ S # {}
    BY EndsNat
  <2> HIDE DEF S
  <2>2. Min(S) \in S /\ \A x \in S : Min(S) <= x
    BY <2>1, MinIs
  <2> QED
    BY <2>2 DEF S
<1> HIDE DEF e
<1>3. e \in 0 .. n - 1 /\ e \in Nat
  BY <1>1, <1>2 DEF Ends
<1>4. \A i \in 0 .. n - 1 : Asc(L)[i] \in Nat
  BY AscNat
<1>5. ASSUME e < n - 1 PROVE Asc(L)[e + 1] > Asc(L)[s]
  BY <1>1, <1>2, <1>3, <1>5 DEF Ends
<1>6. s <= e
  <2>1. ASSUME e < s PROVE FALSE
    <3>1. e < n - 1 /\ e + 1 \in 0 .. n - 1 /\ e + 1 <= s
      BY <1>1, <1>3, <2>1
    <3>2. Asc(L)[e + 1] <= Asc(L)[s]
      BY <1>1, <3>1, Ascending
    <3> QED
      BY <1>1, <1>4, <1>5, <3>1, <3>2
  <2> QED
    BY <1>1, <1>3, <2>1
<1>7. Asc(L)[s] = Asc(L)[e]
  <2>1. Asc(L)[s] <= Asc(L)[e]
    BY <1>1, <1>3, <1>6, Ascending
  <2>2. ASSUME Asc(L)[e] > Asc(L)[s] PROVE FALSE
    <3>1. e # s
      BY <1>1, <1>4, <2>2
    <3>2. e - 1 \in 0 .. n - 2 /\ (e - 1) + 1 = e /\ ~(e <= e - 1)
      BY <1>1, <1>3, <1>6, <3>1
    <3>3. e - 1 \in Ends(L, Asc(L)[s])
      BY <2>2, <3>2 DEF Ends
    <3> QED
      BY <1>2, <3>2, <3>3
  <2> QED
    BY <1>1, <1>3, <1>4, <2>1, <2>2
<1>8. s \in 0 .. e
  BY <1>1, <1>3, <1>6
<1>9. Group(L, s, e)
  BY <1>3, <1>5, <1>7, <1>8 DEF Group, Starts
<1> QED
  BY <1>9 DEF e

(* Every codeword is of a group.                                            *)
LEMMA GroupOf ==
  ASSUME NEW L \in Lengths, NEW k \in 0 .. Count(L) - 1
  PROVE  \E s, e : Group(L, s, e) /\ k \in s .. e
<1> DEFINE n == Count(L)
           S == {i \in 0 .. n - 1 : Asc(L)[i] = Asc(L)[k]}
<1>1. n \in Nat \ {0}
  BY SizeOf
<1>2. \A i \in 0 .. n - 1 : Asc(L)[i] \in Nat
  BY AscNat
<1>3. S \in SUBSET Nat /\ k \in S
  <2>1. \A i \in S : i \in Nat
    BY <1>1
  <2>2. k \in S
    OBVIOUS
  <2> HIDE DEF S
  <2> QED
    BY <2>1, <2>2
<1> HIDE DEF S
<1>4. PICK s \in S : \A i \in S : s <= i
  BY <1>3, Least
<1>5. s \in 0 .. n - 1 /\ Asc(L)[s] = Asc(L)[k] /\ s <= k
  BY <1>3, <1>4 DEF S
<1>6. ASSUME s > 0 PROVE Asc(L)[s - 1] < Asc(L)[s]
  <2>1. s - 1 \in 0 .. n - 1 /\ s - 1 <= s /\ ~(s <= s - 1)
    BY <1>1, <1>5, <1>6
  <2>2. s - 1 \notin S
    BY <1>4, <2>1
  <2>3. Asc(L)[s - 1] # Asc(L)[s]
    BY <1>5, <2>1, <2>2 DEF S
  <2>4. Asc(L)[s - 1] <= Asc(L)[s]
    BY <1>5, <2>1, Ascending
  <2> QED
    BY <1>2, <1>5, <2>1, <2>3, <2>4
<1>7. Starts(L, s)
  BY <1>5, <1>6 DEF Starts
<1> DEFINE e == Min(Ends(L, Asc(L)[s]))
<1>8. Group(L, s, e)
  BY <1>7, EndOfGroup
<1> HIDE DEF e, n
<1>9. k <= e
  <2>1. ASSUME k > e PROVE FALSE
    <3>1. Asc(L)[k] > Asc(L)[s]
      BY <1>8, <2>1, InGroup
    <3> QED
      BY <1>2, <1>5, <3>1 DEF n
  <2>2. k \in Nat /\ e \in Nat
    BY <1>1, <1>8, GroupTypes DEF n
  <2> QED
    BY <2>1, <2>2
<1>10. k \in s .. e
  BY <1>1, <1>5, <1>8, <1>9, GroupTypes DEF n
<1> QED
  BY <1>8, <1>10

(* Only a codebook of one codeword ends with a group of one: in any other   *)
(* the loop ends behind the last group, not before it.                      *)
LEMMA NotLast ==
  ASSUME NEW L \in Lengths, NEW s, Starts(L, s), Count(L) > 1
  PROVE  s < Count(L) - 1
<1>1. Count(L) \in Nat /\ s \in 0 .. Count(L) - 1
  BY SizeOf DEF Starts
<1>2. ASSUME s = Count(L) - 1 PROVE FALSE
  <2>1. s > 0 /\ s - 1 = Count(L) - 2 /\ s - 1 \in 0 .. Count(L) - 1
    BY <1>1, <1>2
  <2>2. Asc(L)[s - 1] < Asc(L)[s] /\ Asc(L)[s] = Asc(L)[s - 1]
    BY <1>2, <2>1, LastTwo DEF Starts
  <2>3. Asc(L)[s - 1] \in Nat
    BY <2>1, AscNat
  <2> QED
    BY <2>2, <2>3
<1> QED
  BY <1>1, <1>2

(* A group that is not the last is followed by one of greater length.       *)
LEMMA NextGroup ==
  ASSUME NEW L \in Lengths, NEW s, NEW e, Group(L, s, e), e < Count(L) - 1
  PROVE  /\ Starts(L, e + 1)
         /\ Asc(L)[e + 1] \in 1 .. Long /\ Asc(L)[e + 1] > Asc(L)[s]
<1>1. e \in Nat /\ Count(L) \in Nat /\ e + 1 \in 0 .. Count(L) - 1 /\ (e + 1) - 1 = e
      /\ Asc(L)[e] = Asc(L)[s]
  BY GroupTypes
<1>2. Asc(L)[e] < Asc(L)[e + 1] /\ Asc(L)[e + 1] \in 1 .. Long /\ Asc(L)[s] \in 1 .. Long
  BY <1>1, GroupTypes, AscIs DEF Group
<1>3. Asc(L)[s] \in Nat /\ Asc(L)[e] \in Nat /\ Asc(L)[e + 1] \in Nat
  BY <1>1, <1>2, WordBits
<1>4. Asc(L)[e + 1] > Asc(L)[s]
  BY <1>1, <1>2, <1>3
<1>5. Starts(L, e + 1)
  BY <1>1, <1>2, Zenon DEF Starts
<1> QED
  BY <1>2, <1>4, <1>5

(* The spaces of a group follow those of the shorter codewords.             *)
LEMMA GroupSpaces ==
  ASSUME NEW L \in Lengths, NEW s, NEW e, Group(L, s, e), NEW i \in s .. e + 1
  PROVE  Spaces(L)[i] = Spaces(L)[s] + (i - s) * U(Asc(L)[s])
<1> DEFINE u == U(Asc(L)[s])
           K == Spaces(L)
<1>1. /\ s \in Nat /\ e \in Nat /\ s <= e /\ e < Count(L) /\ Count(L) \in Nat
      /\ Asc(L)[s] \in 1 .. Long
  BY GroupTypes
<1>2. u \in Nat
  BY <1>1, Unit
<1>3. K \in [0 .. Count(L) -> Nat] /\ K[s] \in Nat
  <2>1. s \in 0 .. Count(L)
    BY <1>1
  <2> QED
    BY <2>1, SpacesIs
<1>4. ASSUME NEW j \in s + 1 .. e + 1 PROVE K[j] = K[j - 1] + u
  <2>1. j \in 1 .. Count(L) /\ j - 1 \in s .. e /\ j - 1 \in 0 .. Count(L) - 1
    BY <1>1
  <2>2. Asc(L)[j - 1] = Asc(L)[s]
    BY <2>1, InGroup
  <2> QED
    BY <2>1, <2>2, SpacesIs
<1> HIDE DEF K, u
<1>5. SUFFICES ASSUME K[i] # K[s] + (i - s) * u PROVE FALSE
  BY DEF K, u
<1> DEFINE S == {j \in s .. e + 1 : K[j] # K[s] + (j - s) * u}
<1>6. S \in SUBSET Nat /\ S # {}
  <2>1. i \in S
    BY <1>5
  <2>2. \A j \in S : j \in Nat
    BY <1>1
  <2> HIDE DEF S
  <2> QED
    BY <2>1, <2>2
<1> HIDE DEF S
<1>7. PICK m \in S : \A j \in S : m <= j
  BY <1>6, Least
<1>8. m \in s .. e + 1 /\ K[m] # K[s] + (m - s) * u
  BY <1>7 DEF S
<1>9. m # s
  <2>1. (s - s) * u = 0
    BY <1>1, <1>2
  <2> QED
    BY <1>3, <1>8, <2>1
<1>10. m \in s + 1 .. e + 1 /\ m - 1 \in s .. e + 1 /\ ~(m <= m - 1)
  BY <1>1, <1>8, <1>9
<1>11. K[m - 1] = K[s] + (m - 1 - s) * u /\ K[m] = K[m - 1] + u
  BY <1>4, <1>7, <1>10 DEF S
<1>12. m - s \in Nat /\ m - 1 - s = (m - s) - 1 /\ m - s >= 1
  BY <1>1, <1>10
<1>13. \A x, y, z \in Nat : x >= 1 => z + (x - 1) * y + y = z + x * y
  OBVIOUS
<1>14. K[s] + ((m - s) - 1) * u + u = K[s] + (m - s) * u
  BY <1>2, <1>3, <1>12, <1>13
<1> QED
  BY <1>8, <1>11, <1>12, <1>14

(* The spaces only grow, up to all there are.                               *)
LEMMA SpacesOrder ==
  ASSUME NEW L \in Lengths, NEW i \in 0 .. Count(L), NEW j \in 0 .. Count(L), i <= j
  PROVE  /\ Spaces(L)[i] \in Nat /\ Spaces(L)[j] \in Nat
         /\ Spaces(L)[i] <= Spaces(L)[j] /\ Spaces(L)[j] <= pow2[Long]
<1> DEFINE K == Spaces(L)
           n == Count(L)
<1>1. n \in Nat /\ K \in [0 .. n -> Nat] /\ K[n] <= pow2[Long] /\ pow2[Long] \in Nat
  BY SizeOf, SpacesIs, MaxIs
<1>2. ASSUME NEW k \in 1 .. n PROVE K[k - 1] <= K[k] /\ K[k - 1] \in Nat /\ K[k] \in Nat
  <2>1. k - 1 \in 0 .. n - 1 /\ k - 1 \in 0 .. n /\ k \in 0 .. n
    BY <1>1
  <2>2. U(Asc(L)[k - 1]) \in Nat
    BY <2>1, AscNat, Unit
  <2>3. K[k] = K[k - 1] + U(Asc(L)[k - 1])
    BY SpacesIs
  <2> QED
    BY <1>1, <2>1, <2>2, <2>3
<1> HIDE DEF K
<1>3. ASSUME NEW a \in 0 .. n, NEW b \in 0 .. n, a <= b, ~(K[a] <= K[b]) PROVE FALSE
  <2> DEFINE S == {c \in 0 .. n : a <= c /\ ~(K[a] <= K[c])}
  <2>1. S \in SUBSET Nat /\ S # {}
    <3>1. b \in S
      BY <1>3
    <3>2. \A c \in S : c \in Nat
      BY <1>1
    <3> HIDE DEF S
    <3> QED
      BY <3>1, <3>2
  <2> HIDE DEF S
  <2>2. PICK m \in S : \A c \in S : m <= c
    BY <2>1, Least
  <2>3. m \in 0 .. n /\ a <= m /\ ~(K[a] <= K[m])
    BY <2>2 DEF S
  <2>4. m # a
    BY <1>1, <2>3
  <2>5. m \in 1 .. n /\ m - 1 \in 0 .. n /\ a <= m - 1 /\ ~(m <= m - 1)
    BY <1>1, <2>3, <2>4
  <2>6. K[a] <= K[m - 1]
    BY <2>2, <2>5 DEF S
  <2>7. K[m - 1] <= K[m] /\ K[m - 1] \in Nat /\ K[m] \in Nat /\ K[a] \in Nat
    BY <1>1, <1>2, <2>5
  <2> QED
    BY <2>3, <2>6, <2>7
<1>4. n \in 0 .. n /\ j <= n /\ K[i] \in Nat /\ K[j] \in Nat /\ K[n] \in Nat
  BY <1>1
<1>5. K[i] <= K[j] /\ K[j] <= K[n]
  BY <1>3, <1>4
<1> QED
  BY <1>1, <1>4, <1>5 DEF K

(* w is the codeword that the last position of a group starts with: those   *)
(* that the group counts up to have no more bits than its length.           *)
Base(L, s, w) == w \in Nat /\ w * U(Asc(L)[s]) = Spaces(L)[s]

(* The counting up ends where the spaces of the next group begin.           *)
LEMMA WordFits ==
  ASSUME NEW L \in Lengths, NEW s, NEW e, Group(L, s, e), NEW w, Base(L, s, w)
  PROVE  /\ (w + (e - s) + 1) * U(Asc(L)[s]) = Spaces(L)[e + 1]
         /\ w + (e - s) + 1 <= pow2[Asc(L)[s]]
         /\ w + (e - s) \in Nat
<1> DEFINE l == Asc(L)[s]
           u == U(l)
<1>1. /\ s \in Nat /\ e \in Nat /\ s <= e /\ e < Count(L) /\ Count(L) \in Nat
      /\ l \in 1 .. Long
  BY GroupTypes
<1>2. u \in Nat \ {0} /\ pow2[l] \in Nat /\ pow2[Long] = pow2[l] * u /\ pow2[Long] \in Nat
  BY <1>1, Unit
<1>3. w \in Nat /\ w * u = Spaces(L)[s]
  BY DEF Base
<1>4. e + 1 \in 0 .. Count(L) /\ e + 1 \in s .. e + 1 /\ e - s \in Nat /\ (e + 1) - s = (e - s) + 1
  BY <1>1
<1>5. Spaces(L)[e + 1] = Spaces(L)[s] + ((e + 1) - s) * u
  BY <1>4, GroupSpaces
<1>6. Spaces(L)[e + 1] <= pow2[Long]
  BY <1>4, SpacesOrder
<1> HIDE DEF u, l
<1>7. (w + (e - s) + 1) * u = w * u + ((e - s) + 1) * u
  <2>1. \A x, y, z \in Nat : (x + y + 1) * z = x * z + (y + 1) * z
    OBVIOUS
  <2> QED
    BY <1>2, <1>3, <1>4, <2>1
<1>8. (w + (e - s) + 1) * u = Spaces(L)[e + 1]
  BY <1>3, <1>4, <1>5, <1>7
<1>9. ASSUME pow2[l] < w + (e - s) + 1 PROVE FALSE
  <2>1. w + (e - s) + 1 \in Nat
    BY <1>3, <1>4
  <2>2. pow2[l] * u < (w + (e - s) + 1) * u
    BY <1>2, <1>9, <2>1, ProductOrder
  <2>3. (w + (e - s) + 1) * u \in Nat
    BY <1>2, <2>1, ProductOrder
  <2> QED
    BY <1>2, <1>6, <1>8, <2>2, <2>3
<1>10. w + (e - s) \in Nat
  BY <1>3, <1>4
<1> QED
  BY <1>2, <1>8, <1>9, <1>10 DEF u, l

(* Complementing a codeword of l bits.                                      *)
LEMMA FlipIs ==
  ASSUME NEW l \in 1 .. Long, NEW w \in Nat, w < pow2[l]
  PROVE  Flip(w, l) = pow2[l] - 1 - w
<1>1. pow2[l] \in Nat \ {0}
  BY Unit
<1> DEFINE d == pow2[l]
<1> HIDE DEF d
<1>2. d \in Nat \ {0} /\ w \in 0 .. d - 1 /\ 0 * d + w = w /\ 0 * d = 0
  BY <1>1 DEF d
<1>3. w \div d = 0 /\ w % d = w
  <2>1. (0 * d + w) \div d = 0 /\ (0 * d + w) % d = w
    BY <1>2, DivisionUnique
  <2> QED
    BY <1>2, <2>1
<1>4. (w \div d) * d + (d - 1 - (w % d)) = d - 1 - w
  BY <1>2, <1>3
<1> QED
  BY <1>4 DEF Flip, d-----------------------------------------------------------------------------
(* What inflate needs.  A group is done when its codewords cw count down to *)
(* the base at its end, and first (f) and entry (en) speak of its start.    *)
Done(L, s, e, f, en, cw) ==
  /\ Base(L, s, cw[e])
  /\ \A i \in s .. e : cw[i] = cw[e] + (e - i)
  /\ f[Asc(L)[s]] = pow2[Asc(L)[s]] - 1 - cw[s]
  /\ en[Asc(L)[s]] = s

Used(L)         == {Asc(L)[i] : i \in 0 .. Count(L) - 1}
Skips(L, f, to) == \A l \in Bits \ Used(L) : l < to => f[l] = MAX

DoneBefore(L, p, f, en, cw) ==
  \A s, e : Group(L, s, e) /\ e < p => Done(L, s, e, f, en, cw)

(* The first codeword of a length, complemented, is the least that a reader *)
(* may stop at.                                                             *)
LEMMA Threshold ==
  ASSUME NEW L \in Lengths, NEW s, NEW e, Group(L, s, e), NEW f, NEW en, NEW cw,
         Done(L, s, e, f, en, cw)
  PROVE  /\ f[Asc(L)[s]] \in Nat /\ cw[e] \in Nat /\ cw[s] = cw[e] + (e - s)
         /\ f[Asc(L)[s]] * U(Asc(L)[s]) = pow2[Long] - Spaces(L)[e + 1]
<1> DEFINE l == Asc(L)[s]
           u == U(l)
<1>1. /\ s \in Nat /\ e \in Nat /\ s <= e /\ e < Count(L) /\ Count(L) \in Nat
      /\ l \in 1 .. Long /\ s \in s .. e
  BY GroupTypes
<1>2. u \in Nat \ {0} /\ pow2[l] \in Nat /\ pow2[Long] = pow2[l] * u
  BY <1>1, Unit
<1>3. Base(L, s, cw[e]) /\ cw[s] = cw[e] + (e - s) /\ f[l] = pow2[l] - 1 - cw[s]
  BY <1>1 DEF Done
<1>4. cw[e] \in Nat
  BY <1>3 DEF Base
<1>5. /\ (cw[e] + (e - s) + 1) * u = Spaces(L)[e + 1]
      /\ cw[e] + (e - s) + 1 <= pow2[l] /\ cw[e] + (e - s) \in Nat
  BY <1>3, WordFits
<1> HIDE DEF u, l
<1>6. f[l] = pow2[l] - (cw[s] + 1) /\ f[l] \in Nat /\ cw[s] \in Nat /\ cw[s] + 1 <= pow2[l]
  BY <1>2, <1>3, <1>5
<1>7. \A x, y, z \in Nat : y <= x => (x - y) * z = x * z - y * z
  OBVIOUS
<1>8. cw[s] + 1 \in Nat
  BY <1>6
<1>9. f[l] * u = pow2[l] * u - (cw[s] + 1) * u
  BY <1>2, <1>6, <1>7, <1>8
<1>10. (cw[s] + 1) * u = Spaces(L)[e + 1]
  BY <1>3, <1>5
<1> QED
  BY <1>2, <1>3, <1>4, <1>6, <1>9, <1>10 DEF u, l

(* A reader who has taken t or more has read a number of at least t * d.    *)
LEMMA TakenAtLeast ==
  ASSUME NEW d \in Nat \ {0}, NEW v \in Nat, NEW t \in Nat, v \div d >= t
  PROVE  v >= t * d /\ v < (v \div d) * d + d /\ v \div d \in Nat
<1> DEFINE q == v \div d
<1>1. q \in Nat /\ v % d \in 0 .. d - 1 /\ v = q * d + (v % d) /\ q >= t
  BY Division
<1> HIDE DEF q
<1>2. t * d <= q * d /\ t * d \in Nat /\ q * d \in Nat
  <2>1. CASE t = q
    BY <1>1, <2>1, ProductOrder
  <2>2. CASE t < q
    BY <1>1, <2>2, ProductOrder
  <2> QED
    BY <1>1, <2>1, <2>2
<1> QED
  BY <1>1, <1>2 DEF q

(* A number that begins with the codeword of position k is below what every *)
(* shorter length takes to stop.                                            *)
LEMMA NotShorter ==
  ASSUME NEW L \in Lengths, NEW f, NEW en, NEW cw,
         DoneBefore(L, Count(L), f, en, cw), Skips(L, f, Asc(L)[Count(L) - 1]),
         NEW s, NEW e, Group(L, s, e), NEW k \in s .. e, NEW v \in 0 .. pow2[Long] - 1,
         v \div U(Asc(L)[s]) = pow2[Asc(L)[s]] - 1 - cw[k],
         NEW m \in 1 .. Long, m < Asc(L)[s]
  PROVE  v \div U(m) < f[m]
<1> DEFINE l == Asc(L)[s]
           u == U(l)
           q == v \div u
           n == Count(L)
<1>1. /\ s \in Nat /\ e \in Nat /\ s <= e /\ e < n /\ n \in Nat
      /\ l \in 1 .. Long /\ s \in s .. e /\ n - 1 \in 0 .. n - 1
      /\ s \in 0 .. n /\ s \in 0 .. n - 1 /\ k \in Nat /\ l \in Nat
  BY GroupTypes, WordBits
<1>2. /\ u \in Nat \ {0} /\ pow2[l] \in Nat /\ pow2[Long] = pow2[l] * u /\ pow2[Long] \in Nat
      /\ v \in Nat /\ v < pow2[Long]
  BY <1>1, Unit
<1>3. Done(L, s, e, f, en, cw)
  BY <1>1 DEF DoneBefore
<1>4. Base(L, s, cw[e]) /\ cw[k] = cw[e] + (e - k) /\ cw[e] \in Nat /\ cw[e] * u = Spaces(L)[s]
  BY <1>3 DEF Done, Base
<1>5. cw[e] + (e - s) + 1 <= pow2[l]
  BY <1>4, WordFits
<1>6. q = pow2[l] - 1 - (cw[e] + (e - k))
  BY <1>4
<1>7. v < q * u + u /\ q \in Nat
  <2>1. q \in Nat
    BY <1>2, Division
  <2>2. q >= q
    BY <2>1
  <2> HIDE DEF u
  <2> QED
    BY <1>2, <2>1, <2>2, TakenAtLeast
<1> HIDE DEF q, u, l
<1>8. v < pow2[Long] - Spaces(L)[s]
  <2>1. q + 1 <= pow2[l] - cw[e] /\ q + 1 \in Nat /\ pow2[l] - cw[e] \in Nat /\ cw[e] <= pow2[l]
    BY <1>1, <1>2, <1>4, <1>5, <1>6, <1>7
  <2> DEFINE x == pow2[l] - cw[e]
  <2>2. x \in Nat /\ q + 1 <= x
    BY <2>1
  <2>3. (q + 1) * u <= x * u /\ (q + 1) * u \in Nat /\ x * u \in Nat
    <3> HIDE DEF x
    <3>1. CASE q + 1 = x
      BY <1>2, <2>2, <3>1, ProductOrder
    <3>2. CASE q + 1 < x
      BY <1>2, <2>1, <2>2, <3>2, ProductOrder
    <3> QED
      BY <2>1, <2>2, <3>1, <3>2
  <2>4. (q + 1) * u = q * u + u
    BY <1>2, <1>7
  <2>5. \A a, b, c \in Nat : b <= a => (a - b) * c = a * c - b * c
    OBVIOUS
  <2>6. x * u = pow2[l] * u - cw[e] * u
    BY <1>2, <1>4, <2>1, <2>5
  <2>7. x * u = pow2[Long] - Spaces(L)[s]
    BY <1>2, <1>4, <2>6
  <2> HIDE DEF x
  <2>8. q * u + u \in Nat
    BY <2>3, <2>4
  <2> QED
    BY <1>2, <1>7, <2>3, <2>4, <2>7, <2>8
<1>9. Spaces(L)[s] \in Nat
  BY <1>1, SpacesOrder
<1>10. U(m) \in Nat \ {0} /\ m \in Bits /\ v \div U(m) \in Nat /\ m \in Nat
  <2>1. U(m) \in Nat \ {0} /\ m \in Bits /\ m \in Nat
    BY Unit
  <2> QED
    BY <1>2, <2>1, Division
<1>11. CASE m \in Used(L)
  <2>1. PICK j \in 0 .. n - 1 : m = Asc(L)[j]
    BY <1>11 DEF Used
  <2>2. PICK a, b : Group(L, a, b) /\ j \in a .. b
    BY <2>1, GroupOf
  <2>3. /\ Asc(L)[a] = m /\ a \in Nat /\ b \in Nat /\ a <= b /\ b < n
        /\ b \in 0 .. n - 1 /\ Asc(L)[b] = m
    BY <2>1, <2>2, GroupTypes, InGroup
  <2>4. b < s
    <3>1. ASSUME s <= b PROVE FALSE
      <4>1. Asc(L)[s] <= Asc(L)[b]
        BY <1>1, <2>3, <3>1, Ascending
      <4> QED
        BY <1>1, <1>10, <2>3, <4>1 DEF l
    <3> QED
      BY <1>1, <2>3, <3>1
  <2>5. f[m] \in Nat /\ f[m] * U(m) = pow2[Long] - Spaces(L)[b + 1]
    <3>1. Done(L, a, b, f, en, cw)
      BY <2>2, <2>3 DEF DoneBefore
    <3> QED
      BY <2>2, <2>3, <3>1, Threshold
  <2>6. Spaces(L)[b + 1] <= Spaces(L)[s] /\ Spaces(L)[b + 1] \in Nat
    <3>1. b + 1 \in 0 .. n /\ b + 1 <= s
      BY <1>1, <2>3, <2>4
    <3> QED
      BY <1>1, <3>1, SpacesOrder
  <2>7. ASSUME v \div U(m) >= f[m] PROVE FALSE
    <3>1. v >= f[m] * U(m)
      BY <1>2, <1>10, <2>5, <2>7, TakenAtLeast
    <3> QED
      BY <1>2, <1>8, <1>9, <2>5, <2>6, <3>1
  <2> QED
    BY <1>10, <2>5, <2>7
<1>12. CASE m \notin Used(L)
  <2>1. m < Asc(L)[n - 1]
    <3>1. Asc(L)[s] <= Asc(L)[n - 1] /\ Asc(L)[n - 1] \in Nat
      <4>1. s <= n - 1
        BY <1>1
      <4> QED
        BY <1>1, <4>1, Ascending, AscNat
    <3> QED
      BY <1>1, <1>10, <3>1 DEF l
  <2>2. f[m] = MAX
    BY <1>10, <1>12, <2>1 DEF Skips
  <2>3. v \div U(m) <= v
    <3> DEFINE z == v \div U(m)
               d == U(m)
    <3>1. z \in Nat /\ d \in Nat \ {0} /\ v % d \in 0 .. d - 1 /\ v = z * d + (v % d)
      BY <1>2, <1>10, Division
    <3> HIDE DEF z, d
    <3>2. \A x \in Nat, y \in Nat \ {0} : x <= x * y
      OBVIOUS
    <3>3. z <= z * d /\ z * d \in Nat
      BY <3>1, <3>2
    <3>4. z <= v
      BY <1>2, <3>1, <3>3
    <3> QED
      BY <3>4 DEF z
  <2> QED
    BY <1>2, <1>10, <2>2, <2>3, MaxIs
<1> QED
  BY <1>11, <1>12-----------------------------------------------------------------------------
(* The invariant.  Code k is the codeword of the quant-code k-th by         *)
(* descending frequency: it has the length made for it, and inflate stops   *)
(* at it, with k for its place in keys.                                     *)
Code == [bits : 0 .. TypeBW - 1, word : 0 .. MAX]

Halts(f, v) == {l \in 1 .. Long : Taken(v, l) >= f[l]}

GoodCode(L, f, en, k, c) ==
  /\ c.bits = Asc(L)[k]
  /\ \A v \in 0 .. pow2[Long] - 1 : Taken(v, c.bits) = c.word =>
       /\ Halts(f, v) # {} /\ Min(Halts(f, v)) = c.bits
       /\ en[c.bits] + Taken(v, c.bits) - f[c.bits] = k

Good(k, c) == GoodCode(given.len, first, entry, k, c)

Making == {"start", "clear", "test", "base", "words", "first", "next"}
Phases == Making \cup {"idle", "reverse", "unreverse", "reverseall", "reorder"}

Typed ==
  /\ TypeOK
  /\ phase \in Phases
  /\ at \in [Warp -> {"read", "write", "done"}]
  /\ DOMAIN temp = Warp /\ \A w \in Warp : temp[w] \in [Threads(w) -> Code]

(* Where the lengths and the quant-codes are, which are reversed once or    *)
(* twice.                                                                   *)
Sources ==
  /\ phase = "reverse" => CL = given.len
  /\ phase \in Making => CL = Asc(given.len)
  /\ phase \in Making \cup {"reverse", "unreverse", "reverseall"} => qcode = given.order
  /\ phase = "reorder" \/ Built => qcode = Reversed(given.order, DictSize)

words == [i \in 0 .. size - 1 |-> CW(i)]

(* The groups before CDPI are done, and that which starts there is next.    *)
Behind ==
  /\ Starts(given.len, CDPI) /\ CCL = Asc(given.len)[CDPI]
  /\ DoneBefore(given.len, CDPI, first, entry, words)
  /\ Skips(given.len, first, CCL)
  /\ entry[CCL] = CDPI

Ready ==
  /\ Behind
  /\ Base(given.len, CDPI, CW(CDPI))
  /\ size = 1 => first[CCL] = pow2[CCL] - 1

Through ==
  /\ CDPI = size - 1
  /\ DoneBefore(given.len, size, first, entry, words)
  /\ Skips(given.len, first, Asc(given.len)[size - 1])

Follows ==
  newCDPI < size - 1 => entry[Asc(given.len)[newCDPI + 1]] = newCDPI + 1

Filling ==
  /\ phase = "clear" =>
       /\ CDPI = 0 /\ newCDPI = size - 1 /\ CCL = Asc(given.len)[0]
       /\ CW(0) = 0 /\ entry[CCL] = 0 /\ first[CCL] = pow2[CCL] - 1
  /\ phase = "test" => newCDPI = size - 1 /\ (Ready \/ Through)
  /\ phase \in {"base", "words", "first", "next"} =>
       Group(given.len, CDPI, newCDPI) /\ CCL = Asc(given.len)[CDPI] /\ size > 1
  /\ phase \in {"base", "words", "first"} => Behind
  /\ phase = "base" => Base(given.len, CDPI, CW(CDPI))
  /\ phase \in {"words", "first"} => Base(given.len, CDPI, CW(newCDPI))
  /\ phase = "first" =>
       Follows /\ \A i \in CDPI .. newCDPI : CW(i) = CW(newCDPI) + (newCDPI - i)
  /\ phase = "next" =>
       /\ Follows
       /\ DoneBefore(given.len, newCDPI + 1, first, entry, words)
       /\ Skips(given.len, first, IF newCDPI < size - 1 THEN Asc(given.len)[newCDPI + 1] ELSE CCL)

(* Where the finished codes are.  A code is where its warp will read it,    *)
(* has put it, or will write it, as long as no warp has written a place     *)
(* another was to read.                                                     *)
Moving(w) ==
  \A k \in Threads(w) : k < size =>
    /\ at[w] = "read"  => Good(k, codebook[k])
    /\ at[w] = "write" => Good(k, temp[w][k])
    /\ at[w] = "done"  => Good(k, codebook[qcode[k]])

Placed ==
  /\ \A k \in 0 .. size - 1 :
       /\ phase = "unreverse"  => Good(k, codebook[off + k])
       /\ phase = "reverseall" => Good(k, codebook[DictSize - 1 - k])
       /\ Built /\ ~raced => Good(k, codebook[qcode[k]])
  /\ phase = "reorder" /\ ~raced => \A w \in Warp : Moving(w)
-----------------------------------------------------------------------------
(* The packed codewords of done groups are good.                            *)
LEMMA HaltsAt ==
  ASSUME NEW L \in Lengths, NEW f \in [Bits -> 0 .. MAX], NEW en, NEW cw,
         DoneBefore(L, Count(L), f, en, cw), Skips(L, f, Asc(L)[Count(L) - 1]),
         NEW s, NEW e, Group(L, s, e), NEW k \in s .. e, NEW v \in 0 .. pow2[Long] - 1,
         v \div U(Asc(L)[s]) = pow2[Asc(L)[s]] - 1 - cw[k]
  PROVE  /\ Halts(f, v) # {} /\ Min(Halts(f, v)) = Asc(L)[s]
         /\ en[Asc(L)[s]] + v \div U(Asc(L)[s]) - f[Asc(L)[s]] = k
<1> DEFINE l == Asc(L)[s]
           q == v \div U(l)
           S == Halts(f, v)
<1>1. /\ s \in Nat /\ e \in Nat /\ s <= e /\ e < Count(L) /\ Count(L) \in Nat
      /\ l \in 1 .. Long /\ k \in Nat /\ s <= k /\ k <= e /\ l \in Nat
  BY GroupTypes, WordBits
<1>2. Done(L, s, e, f, en, cw)
  BY <1>1 DEF DoneBefore
<1>3. /\ cw[k] = cw[e] + (e - k) /\ cw[s] = cw[e] + (e - s) /\ cw[e] \in Nat
      /\ f[l] = pow2[l] - 1 - cw[s] /\ en[l] = s
  BY <1>2, Threshold DEF Done
<1>4. pow2[l] \in Nat /\ U(l) \in Nat \ {0}
  BY <1>1, Unit
<1>5. q = pow2[l] - 1 - cw[k]
  OBVIOUS
<1>6. \A m \in 1 .. Long : v \div U(m) = Taken(v, m)
  BY DEF Taken, U
<1> HIDE DEF q, l
<1>7. q - f[l] = k - s /\ q >= f[l] /\ s + q - f[l] = k
  BY <1>1, <1>3, <1>4, <1>5
<1>8. l \in S
  BY <1>1, <1>6, <1>7 DEF Halts, q
<1>9. S \in SUBSET Nat
  <2>1. \A m \in S : m \in Nat
    BY WordBits DEF Halts
  <2> HIDE DEF S
  <2> QED
    BY <2>1
<1>10. ASSUME NEW m \in S, m < l PROVE FALSE
  <2>1. m \in 1 .. Long /\ v \div U(m) >= f[m]
    BY <1>6 DEF Halts
  <2>2. v \div U(m) < f[m]
    BY <1>10, <2>1, NotShorter DEF l
  <2>3. v \div U(m) \in Nat /\ f[m] \in Nat
    <3>1. U(m) \in Nat \ {0} /\ m \in Bits /\ v \in Nat
      BY <2>1, Unit, MaxIs
    <3>2. f[m] \in Nat
      BY <3>1, MaxIs
    <3> QED
      BY <3>1, <3>2, Division
  <2> QED
    BY <2>1, <2>2, <2>3
<1> HIDE DEF S
<1>11. Min(S) = l
  <2>1. Min(S) \in S /\ \A x \in S : Min(S) <= x
    BY <1>8, <1>9, MinIs
  <2>2. Min(S) <= l /\ ~(Min(S) < l) /\ Min(S) \in Nat
    BY <1>8, <1>9, <1>10, <2>1
  <2> QED
    BY <1>1, <2>2
<1> QED
  BY <1>3, <1>7, <1>8, <1>11 DEF S, l, q

(* Pack makes a good code of every position.                                *)
LEMMA PackedIsGood ==
  ASSUME NEW L \in Lengths, NEW f \in [Bits -> 0 .. MAX], NEW en, NEW cw,
         DoneBefore(L, Count(L), f, en, cw), Skips(L, f, Asc(L)[Count(L) - 1]),
         NEW k \in 0 .. Count(L) - 1, NEW c,
         c = [bits |-> Asc(L)[k], word |-> Flip(cw[k], Asc(L)[k])]
  PROVE  GoodCode(L, f, en, k, c) /\ c \in Code
<1>1. PICK s, e : Group(L, s, e) /\ k \in s .. e
  BY GroupOf
<1> DEFINE l == Asc(L)[s]
<1>2. /\ s \in Nat /\ e \in Nat /\ s <= e /\ e < Count(L) /\ Count(L) \in Nat
      /\ l \in 1 .. Long /\ Asc(L)[k] = l /\ k \in Nat /\ s <= k /\ k <= e
  BY <1>1, GroupTypes, InGroup
<1>3. Done(L, s, e, f, en, cw)
  BY <1>1, <1>2 DEF DoneBefore
<1>4. Base(L, s, cw[e]) /\ cw[k] = cw[e] + (e - k)
  BY <1>1, <1>3 DEF Done
<1>5. cw[e] + (e - s) + 1 <= pow2[l] /\ cw[e] \in Nat
  BY <1>1, <1>4, WordFits DEF Base
<1>6. pow2[l] \in Nat \ {0} /\ pow2[l] <= pow2[Long] /\ l \in Bits
  BY <1>2, Unit
<1> HIDE DEF l
<1>7. cw[k] \in Nat /\ cw[k] < pow2[l]
  BY <1>2, <1>4, <1>5, <1>6
<1>8. Flip(cw[k], l) = pow2[l] - 1 - cw[k]
  BY <1>2, <1>7, FlipIs
<1>9. c.bits = l /\ c.word = pow2[l] - 1 - cw[k]
  BY <1>2, <1>8
<1>10. c \in Code
  <2>1. c.word \in 0 .. MAX
    BY <1>6, <1>7, <1>9, MaxIs
  <2>2. l \in 0 .. TypeBW - 1
    BY <1>6 DEF Bits
  <2> QED
    BY <1>9, <2>1, <2>2 DEF Code
<1>11. ASSUME NEW v \in 0 .. pow2[Long] - 1, Taken(v, c.bits) = c.word
       PROVE  /\ Halts(f, v) # {} /\ Min(Halts(f, v)) = c.bits
              /\ en[c.bits] + Taken(v, c.bits) - f[c.bits] = k
  <2>1. Taken(v, c.bits) = v \div U(l)
    BY <1>9 DEF Taken, U
  <2>2. v \div U(l) = pow2[l] - 1 - cw[k]
    BY <1>9, <1>11, <2>1
  <2>3. /\ Halts(f, v) # {} /\ Min(Halts(f, v)) = l
        /\ en[l] + v \div U(l) - f[l] = k
    BY <1>1, <2>2, HaltsAt DEF l
  <2> QED
    BY <1>9, <2>1, <2>3
<1> QED
  BY <1>2, <1>9, <1>10, <1>11 DEF GoodCode

(* Two groups that meet are one.                                            *)
LEMMA OneGroup ==
  ASSUME NEW L \in Lengths, NEW s, NEW e, Group(L, s, e), NEW a, NEW b, Group(L, a, b),
         b \in s .. e
  PROVE  a = s /\ b = e
<1>1. /\ s \in Nat /\ e \in Nat /\ s <= e /\ e < Count(L) /\ Count(L) \in Nat
      /\ s \in 0 .. Count(L) - 1 /\ e \in 0 .. Count(L) - 1 /\ Asc(L)[e] = Asc(L)[s]
      /\ Asc(L)[s] \in 1 .. Long
      /\ a \in Nat /\ b \in Nat /\ a <= b /\ b < Count(L) /\ Asc(L)[b] = Asc(L)[a]
      /\ a \in 0 .. Count(L) - 1 /\ b \in 0 .. Count(L) - 1
      /\ Asc(L)[a] \in 1 .. Long
  BY GroupTypes
<1>2. Asc(L)[b] = Asc(L)[s]
  BY <1>1, InGroup
<1>3. Asc(L)[s] \in Nat
  BY <1>1, WordBits
<1>4. ~(a < s) /\ ~(e > b) /\ ~(s < a)
  BY <1>1, <1>2, <1>3, InGroup
<1> QED
  BY <1>1, <1>4

(* What changes at greater lengths and later positions does not undo the    *)
(* groups before.                                                           *)
Same(f, g, c) == \A l \in Bits : l < c => g[l] = f[l]
SameTo(c, d, p) == \A i \in 0 .. p - 1 : d[i] = c[i]

(* A group before p stays done when only positions and lengths from p's on  *)
(* change.                                                                  *)
LEMMA DoneKept ==
  ASSUME NEW L \in Lengths, NEW p, Starts(L, p),
         NEW f, NEW en, NEW cw, DoneBefore(L, p, f, en, cw),
         NEW f2, NEW en2, NEW cw2,
         Same(f, f2, Asc(L)[p]), Same(en, en2, Asc(L)[p]), SameTo(cw, cw2, p)
  PROVE  DoneBefore(L, p, f2, en2, cw2)
<1>1. p \in Nat /\ p \in 0 .. Count(L) - 1 /\ Count(L) \in Nat
  BY SizeOf DEF Starts
<1>2. ASSUME NEW s, NEW e, Group(L, s, e), e < p PROVE Done(L, s, e, f2, en2, cw2)
  <2>1. /\ s \in Nat /\ e \in Nat /\ s <= e /\ e < Count(L)
        /\ Asc(L)[s] \in 1 .. Long /\ Asc(L)[s] \in Bits
    BY <1>2, GroupTypes, Unit
  <2>2. Asc(L)[s] < Asc(L)[p]
    BY <1>1, <1>2, <2>1, InGroup
  <2>3. f2[Asc(L)[s]] = f[Asc(L)[s]] /\ en2[Asc(L)[s]] = en[Asc(L)[s]]
    BY <2>1, <2>2 DEF Same
  <2>4. \A i \in s .. e : cw2[i] = cw[i]
    BY <1>1, <1>2, <2>1 DEF SameTo
  <2>5. s \in s .. e /\ e \in s .. e
    BY <2>1
  <2>6. Done(L, s, e, f, en, cw)
    BY <1>2 DEF DoneBefore
  <2> QED
    BY <2>3, <2>4, <2>5, <2>6 DEF Done
<1> QED
  BY <1>2 DEF DoneBefore

(* The groups up to the one that has just been done.                        *)
LEMMA DoneMore ==
  ASSUME NEW L \in Lengths, NEW s, NEW e, Group(L, s, e),
         NEW f, NEW en, NEW cw, DoneBefore(L, s, f, en, cw), Done(L, s, e, f, en, cw)
  PROVE  DoneBefore(L, e + 1, f, en, cw)
<1>1. s \in Nat /\ e \in Nat
  BY GroupTypes
<1>2. ASSUME NEW a, NEW b, Group(L, a, b), b < e + 1 PROVE Done(L, a, b, f, en, cw)
  <2>1. b \in Nat
    BY <1>2, GroupTypes
  <2>2. CASE b < s
    BY <1>2, <2>2 DEF DoneBefore
  <2>3. CASE b >= s
    <3>1. b \in s .. e
      BY <1>1, <1>2, <2>1, <2>3
    <3>2. a = s /\ b = e
      BY <1>2, <3>1, OneGroup
    <3> QED
      BY <3>2
  <2>4. b < s \/ b >= s
    BY <1>1, <2>1
  <2> QED
    BY <2>2, <2>3, <2>4
<1> QED
  BY <1>2 DEF DoneBefore-----------------------------------------------------------------------------
(* The steps that fill the codebook.                                        *)

(* What holds of the lengths and the codebook while it is filled.           *)
LEMMA InLoop ==
  ASSUME Typed, Sources, phase \in Making
  PROVE  /\ given.len \in Lengths /\ Count(given.len) = size /\ given \in Given
         /\ size \in Nat /\ size >= 1 /\ off \in Nat /\ off + size = DictSize
         /\ DictSize \in Nat
         /\ CL = Asc(given.len)
         /\ \A i \in 0 .. size - 1 : CL[i] \in 1 .. Long /\ CL[i] \in Nat
         /\ \A i \in 0 .. size - 1 : off + i \in Index /\ codebook[off + i] \in Code /\ CW(i) \in 0 .. MAX
<1>1. given \in Given /\ codebook \in [Index -> Code]
  BY DEF Typed, TypeOK, Code
<1>2. given.len \in Lengths /\ Count(given.len) = size
      /\ size \in Nat /\ size >= 1 /\ off \in Nat /\ off + size = DictSize /\ DictSize \in Nat
  <2>1. size \in 1 .. DictSize
    BY <1>1, SizeBounds
  <2>2. size \in Nat /\ off \in Nat /\ off + size = DictSize /\ DictSize \in Nat /\ given.len \in Lengths
    BY <1>1, SizeBounds
  <2> QED
    BY <2>1, <2>2 DEF size
<1>3. CL = Asc(given.len)
  BY DEF Sources
<1>4. ASSUME NEW i \in 0 .. size - 1 PROVE CL[i] \in 1 .. Long /\ CL[i] \in Nat
  BY <1>2, <1>3, AscNat
<1>5. ASSUME NEW i \in 0 .. size - 1
      PROVE  off + i \in Index /\ codebook[off + i] \in Code /\ CW(i) \in 0 .. MAX
  <2>1. off + i \in Index
    BY <1>2 DEF Index
  <2>2. codebook[off + i] \in Code
    BY <1>1, <2>1
  <2> QED
    BY <2>1, <2>2 DEF CW, Code
<1> QED
  BY <1>1, <1>2, <1>3, <1>4, <1>5

(* The sizes and the words while the same codebook is built.                *)
LEMMA SizeKept ==
  ASSUME given' = given
  PROVE  /\ size' = size /\ off' = off
         /\ words = [i \in 0 .. size - 1 |-> codebook[off + i].word]
         /\ words' = [i \in 0 .. size - 1 |-> codebook'[off + i].word]
<1>1. size' = size
  BY DEF size
<1>2. off' = off
  BY <1>1 DEF off
<1> QED
  BY <1>1, <1>2 DEF words, CW

(* What of the types a step in the loop may change.                         *)
LEMMA TypedLoop ==
  ASSUME Typed, UNCHANGED <<builds, given, qcode, at, temp>>, phase' \in Phases,
         codebook' \in [Index -> Code],
         first' \in [Bits -> 0 .. MAX], entry' \in [Bits -> 0 .. DictSize],
         CCL' \in Bits, CDPI' \in Index, newCDPI' \in Index
  PROVE  Typed'
BY DEF Typed, TypeOK, Code

(* Start writes the first codeword, its length's first, and its place.      *)
LEMMA FromStart ==
  ASSUME Typed, Sources, Start
  PROVE  Typed' /\ Filling'
<1> DEFINE l == CL[0]
<1>1. phase = "start" /\ phase' = "clear" /\ UNCHANGED <<builds, given, CL, qcode, at, temp>>
      /\ CCL' = CL[0] /\ CDPI' = 0 /\ newCDPI' = size - 1
      /\ codebook' = [codebook EXCEPT ![off] = Word(0)]
      /\ first' = [first EXCEPT ![CL[0]] = Flip(0, CL[0])]
      /\ entry' = [entry EXCEPT ![CL[0]] = 0, ![CL[0] + 1] = 1]
  BY DEF Start, Goto
<1>2. phase \in Making
  BY <1>1 DEF Making
<1>3. /\ given.len \in Lengths /\ size \in Nat /\ size >= 1 /\ off \in Nat /\ off + size = DictSize
      /\ DictSize \in Nat /\ CL = Asc(given.len) /\ 0 \in 0 .. size - 1 /\ off + 0 = off
  BY <1>2, InLoop
<1>4. l \in 1 .. Long /\ l \in Nat /\ off \in Index
  BY <1>2, <1>3, InLoop
<1>5. l \in Bits /\ l + 1 \in Bits /\ pow2[l] \in Nat \ {0} /\ pow2[l] <= pow2[Long]
  BY <1>4, Unit
<1>6. codebook \in [Index -> Code] /\ first \in [Bits -> 0 .. MAX] /\ entry \in [Bits -> 0 .. DictSize]
  BY DEF Typed, TypeOK, Code
<1>7. Flip(0, l) = pow2[l] - 1 /\ Flip(0, l) \in 0 .. MAX
  <2>1. Flip(0, l) = pow2[l] - 1 - 0
    BY <1>4, <1>5, FlipIs
  <2> HIDE DEF l
  <2> QED
    BY <1>5, <2>1, MaxIs
<1>8. codebook' \in [Index -> Code] /\ codebook'[off].word = 0
  <2>1. Word(0) \in Code
    BY MaxIs, WordBits DEF Word, Code
  <2>2. codebook'[off] = Word(0)
    BY <1>1, <1>4, <1>6
  <2>3. Word(0).word = 0
    BY DEF Word
  <2>4. codebook' \in [Index -> Code]
    BY <1>1, <1>6, <2>1
  <2> QED
    BY <2>2, <2>3, <2>4
<1>9. first' \in [Bits -> 0 .. MAX] /\ first'[l] = pow2[l] - 1
  BY <1>1, <1>5, <1>6, <1>7
<1>10. entry' \in [Bits -> 0 .. DictSize] /\ entry'[l] = 0
  <2>1. l # l + 1 /\ 0 \in 0 .. DictSize /\ 1 \in 0 .. DictSize
    BY <1>3, <1>4
  <2> QED
    BY <1>1, <1>5, <1>6, <2>1
<1>11. Typed'
  <2>1. CDPI' \in Index /\ newCDPI' \in Index /\ CCL' \in Bits /\ phase' \in Phases
    BY <1>1, <1>3, <1>5 DEF Index, Phases, Making
  <2> QED
    BY <1>1, <1>8, <1>9, <1>10, <2>1, TypedLoop
<1>12. size' = size /\ off' = off /\ CW(0)' = 0
  BY <1>1, <1>3, <1>8, SizeKept DEF CW
<1>13. Filling'
  BY <1>1, <1>3, <1>9, <1>10, <1>12 DEF Filling
<1> QED
  BY <1>11, <1>13

(* Clear marks the lengths below the shortest as skipped.                   *)
LEMMA FromClear ==
  ASSUME Typed, Sources, Filling, Clear
  PROVE  Typed' /\ Filling'
<1>1. phase = "clear" /\ phase' = "test"
      /\ UNCHANGED <<builds, given, CL, CCL, CDPI, newCDPI, codebook, qcode, at, temp>>
      /\ first' = Skipped(first, 0, CCL)
      /\ entry' = [l \in Bits |-> IF l < CCL THEN 0 ELSE entry[l]]
  BY DEF Clear, Goto, kernel
<1>2. phase \in Making
  BY <1>1 DEF Making
<1>3. /\ given.len \in Lengths /\ size \in Nat /\ size >= 1 /\ off \in Nat /\ off + size = DictSize
      /\ DictSize \in Nat /\ CL = Asc(given.len) /\ 0 \in 0 .. size - 1
      /\ Count(given.len) = size
  BY <1>2, InLoop
<1>4. /\ CDPI = 0 /\ newCDPI = size - 1 /\ CCL = Asc(given.len)[0]
      /\ CW(0) = 0 /\ entry[CCL] = 0 /\ first[CCL] = pow2[CCL] - 1
  BY <1>1 DEF Filling
<1>5. CCL \in 1 .. Long /\ CCL \in Nat /\ CCL \in Bits /\ U(CCL) \in Nat
  BY <1>3, <1>4, AscNat, Unit
<1>6. codebook \in [Index -> Code] /\ first \in [Bits -> 0 .. MAX] /\ entry \in [Bits -> 0 .. DictSize]
      /\ CDPI \in Index /\ newCDPI \in Index
  BY DEF Typed, TypeOK, Code
<1>7. \A l \in Bits : l \in Int
  BY WordBits DEF Bits
<1>8. first' = [l \in Bits |-> IF l \in 0 .. CCL - 1 THEN MAX ELSE first[l]]
  BY <1>1 DEF Skipped
<1>9. first' \in [Bits -> 0 .. MAX] /\ first'[CCL] = first[CCL] /\ Skips(given.len, first', CCL)
  <2>1. MAX \in 0 .. MAX
    BY MaxIs
  <2>2. first' \in [Bits -> 0 .. MAX]
    BY <1>6, <1>8, <2>1
  <2>3. first'[CCL] = first[CCL]
    <3>1. CCL \notin 0 .. CCL - 1
      BY <1>5
    <3> QED
      BY <1>5, <1>8, <3>1
  <2>4. ASSUME NEW l \in Bits, l < CCL PROVE first'[l] = MAX
    <3>1. l \in 0 .. CCL - 1
      BY <1>5, <2>4, WordBits DEF Bits
    <3> QED
      BY <1>8, <3>1
  <2> QED
    BY <2>2, <2>3, <2>4 DEF Skips
<1>10. entry' \in [Bits -> 0 .. DictSize] /\ entry'[CCL] = 0
  <2>1. 0 \in 0 .. DictSize /\ ~(CCL < CCL)
    BY <1>3, <1>5
  <2> QED
    BY <1>1, <1>4, <1>5, <1>6, <2>1
<1>11. Typed'
  <2>1. phase' \in Phases
    BY <1>1 DEF Phases, Making
  <2> QED
    BY <1>1, <1>5, <1>6, <1>9, <1>10, <2>1, TypedLoop
<1>12. size' = size /\ off' = off /\ CW(0)' = CW(0)
  BY <1>1, SizeKept DEF CW
<1>13. DoneBefore(given.len, 0, first', entry', words')
  <2>1. ASSUME NEW s, NEW e, Group(given.len, s, e), e < 0 PROVE FALSE
    BY <1>3, <2>1, GroupTypes
  <2> QED
    BY <2>1 DEF DoneBefore
<1>14. Starts(given.len, 0) /\ Base(given.len, 0, 0)
  <2>1. 0 * U(Asc(given.len)[0]) = 0 /\ Spaces(given.len)[0] = 0
    BY <1>3, <1>4, <1>5, SpacesIs
  <2> QED
    BY <1>3, <2>1 DEF Starts, Base
<1>15. Behind'
  BY <1>1, <1>4, <1>9, <1>10, <1>13, <1>14 DEF Behind
<1>16. Ready'
  <2>1. CDPI' = 0 /\ CW(CDPI)' = 0
    BY <1>1, <1>4, <1>12 DEF CW
  <2>2. first'[CCL'] = pow2[CCL'] - 1
    BY <1>1, <1>4, <1>9
  <2> QED
    BY <1>1, <1>14, <1>15, <2>1, <2>2 DEF Ready
<1>17. Filling'
  BY <1>1, <1>4, <1>12, <1>16 DEF Filling
<1> QED
  BY <1>11, <1>17

(* FindLast finds the group that starts at CDPI.                            *)
LEMMA FromFindLast ==
  ASSUME Typed, Sources, Filling, FindLast
  PROVE  Typed' /\ Filling'
<1>1. phase = "test" /\ phase' = "base" /\ CDPI < size - 1
      /\ UNCHANGED <<builds, given, CL, CCL, CDPI, codebook, first, entry, qcode, at, temp>>
      /\ newCDPI' = Min({newCDPI} \cup {i \in 0 .. size - 2 : CL[i + 1] > CCL})
  BY DEF FindLast, Goto
<1>2. phase \in Making
  BY <1>1 DEF Making
<1>3. /\ given.len \in Lengths /\ size \in Nat /\ size >= 1 /\ off \in Nat /\ off + size = DictSize
      /\ DictSize \in Nat /\ CL = Asc(given.len) /\ Count(given.len) = size
  BY <1>2, InLoop
<1>4. CDPI \in Nat /\ CCL \in Bits /\ CDPI \in Index
      /\ codebook \in [Index -> Code] /\ first \in [Bits -> 0 .. MAX] /\ entry \in [Bits -> 0 .. DictSize]
  <2>1. /\ CCL \in Bits /\ CDPI \in Index
        /\ codebook \in [Index -> Code] /\ first \in [Bits -> 0 .. MAX] /\ entry \in [Bits -> 0 .. DictSize]
    BY DEF Typed, TypeOK, Code
  <2>2. CDPI \in Nat
    BY <1>3, <2>1 DEF Index
  <2> QED
    BY <2>1, <2>2
<1>5. newCDPI = size - 1 /\ Ready
  <2>1. CDPI # size - 1
    BY <1>1, <1>3, <1>4
  <2> QED
    BY <1>1, <2>1 DEF Filling, Through
<1>6. Starts(given.len, CDPI) /\ CCL = Asc(given.len)[CDPI] /\ Base(given.len, CDPI, CW(CDPI)) /\ Behind
  BY <1>5 DEF Ready, Behind
<1>7. newCDPI' = Min(Ends(given.len, Asc(given.len)[CDPI]))
  BY <1>1, <1>3, <1>5, <1>6 DEF Ends
<1>8. Group(given.len, CDPI, newCDPI')
  BY <1>3, <1>6, <1>7, EndOfGroup
<1>9. Typed'
  <2>1. newCDPI' \in Index
    BY <1>3, <1>8, GroupTypes DEF Index
  <2>2. phase' \in Phases
    BY <1>1 DEF Phases, Making
  <2> QED
    BY <1>1, <1>4, <2>1, <2>2, TypedLoop
<1>10. /\ size' = size /\ CW(CDPI)' = CW(CDPI) /\ words' = words
  BY <1>1, SizeKept DEF CW
<1>11. Behind'
  BY <1>1, <1>6, <1>10, Zenon DEF Behind
<1>12. size' > 1
  BY <1>1, <1>3, <1>4, <1>10
<1>13. Filling'
  BY <1>1, <1>6, <1>8, <1>10, <1>11, <1>12 DEF Filling
<1> QED
  BY <1>9, <1>13
(* The group that is handled.                                               *)
LEMMA AtGroup ==
  ASSUME Typed, Sources, Filling, phase \in {"base", "words", "first", "next"}
  PROVE  /\ given.len \in Lengths /\ Count(given.len) = size /\ size \in Nat /\ size > 1
         /\ off \in Nat /\ off + size = DictSize /\ DictSize \in Nat /\ CL = Asc(given.len)
         /\ Group(given.len, CDPI, newCDPI) /\ CCL = Asc(given.len)[CDPI]
         /\ CDPI \in Nat /\ newCDPI \in Nat /\ CDPI <= newCDPI /\ newCDPI <= size - 1
         /\ CDPI \in 0 .. size - 1 /\ newCDPI \in 0 .. size - 1
         /\ CCL \in 1 .. Long /\ CCL \in Nat /\ CCL \in Bits
         /\ off + CDPI \in Index /\ off + newCDPI \in Index
         /\ CDPI \in Index /\ newCDPI \in Index
         /\ codebook \in [Index -> Code] /\ first \in [Bits -> 0 .. MAX]
         /\ entry \in [Bits -> 0 .. DictSize]
         /\ CW(CDPI) \in 0 .. MAX /\ CW(newCDPI) \in 0 .. MAX
         /\ Starts(given.len, CDPI)
<1>1. phase \in Making
  BY DEF Making
<1>2. /\ given.len \in Lengths /\ Count(given.len) = size /\ size \in Nat
      /\ off \in Nat /\ off + size = DictSize /\ DictSize \in Nat /\ CL = Asc(given.len)
  BY <1>1, InLoop
<1>3. Group(given.len, CDPI, newCDPI) /\ CCL = Asc(given.len)[CDPI] /\ size > 1
  BY DEF Filling
<1>4. /\ CDPI \in Nat /\ newCDPI \in Nat /\ CDPI <= newCDPI /\ newCDPI < size
      /\ CDPI \in 0 .. size - 1 /\ newCDPI \in 0 .. size - 1 /\ CCL \in 1 .. Long
  BY <1>2, <1>3, GroupTypes
<1>5. off + CDPI \in Index /\ off + newCDPI \in Index /\ CW(CDPI) \in 0 .. MAX /\ CW(newCDPI) \in 0 .. MAX
  BY <1>1, <1>4, InLoop
<1>6. codebook \in [Index -> Code] /\ first \in [Bits -> 0 .. MAX] /\ entry \in [Bits -> 0 .. DictSize]
      /\ CDPI \in Index /\ newCDPI \in Index
  BY DEF Typed, TypeOK, Code
<1>7. CCL \in Nat /\ CCL \in Bits
  BY <1>4, Unit
<1>8. newCDPI <= size - 1
  BY <1>2, <1>4
<1>9. Starts(given.len, CDPI)
  BY <1>2, <1>3, <1>4 DEF Starts, Group
<1> QED
  BY <1>2, <1>3, <1>4, <1>5, <1>6, <1>7, <1>8, <1>9

(* FirstWord moves the base of the group to its end.                        *)
LEMMA FromFirstWord ==
  ASSUME Typed, Sources, Filling, FirstWord
  PROVE  Typed' /\ Filling'
<1> DEFINE w == IF CDPI = 0 THEN 0 ELSE CW(CDPI)
<1>1. phase = "base" /\ phase' = "words"
      /\ UNCHANGED <<builds, given, CL, CCL, CDPI, newCDPI, first, entry, qcode, at, temp>>
      /\ codebook' = [codebook EXCEPT ![off + newCDPI] = Word(w)]
  BY DEF FirstWord, Goto, kernel
<1>2. /\ given.len \in Lengths /\ Count(given.len) = size /\ size \in Nat /\ size > 1
      /\ off \in Nat /\ off + size = DictSize /\ DictSize \in Nat
      /\ Group(given.len, CDPI, newCDPI) /\ CCL = Asc(given.len)[CDPI]
      /\ CDPI \in Nat /\ newCDPI \in Nat /\ CDPI <= newCDPI /\ newCDPI <= size - 1
      /\ CCL \in 1 .. Long /\ CCL \in Nat /\ CCL \in Bits
      /\ off + newCDPI \in Index
      /\ CDPI \in Index /\ newCDPI \in Index
      /\ codebook \in [Index -> Code] /\ first \in [Bits -> 0 .. MAX]
      /\ entry \in [Bits -> 0 .. DictSize]
      /\ CW(CDPI) \in 0 .. MAX /\ Starts(given.len, CDPI)
  BY <1>1, AtGroup
<1>3. Behind /\ Base(given.len, CDPI, CW(CDPI))
  BY <1>1 DEF Filling
<1>4. w \in 0 .. MAX
  BY <1>2, MaxIs
<1>5. Base(given.len, CDPI, w)
  <2>1. ASSUME CDPI = 0 PROVE Base(given.len, CDPI, 0)
    <3>1. U(Asc(given.len)[0]) \in Nat
      BY <1>2, <2>1, Unit
    <3>2. 0 * U(Asc(given.len)[0]) = 0 /\ Spaces(given.len)[0] = 0
      BY <1>2, <3>1, SpacesIs
    <3> QED
      BY <2>1, <3>2 DEF Base
  <2> QED
    BY <1>3, <2>1
<1> HIDE DEF w
<1>6. Word(w) \in Code /\ Word(w).word = w
  <2>1. 0 \in 0 .. TypeBW - 1
    BY WordBits
  <2> QED
    BY <1>4, <2>1 DEF Word, Code
<1>7. codebook' \in [Index -> Code] /\ codebook'[off + newCDPI] = Word(w)
  BY <1>1, <1>2, <1>6
<1>8. /\ size' = size /\ off' = off /\ CW(newCDPI)' = w
      /\ words = [i \in 0 .. size - 1 |-> codebook[off + i].word]
      /\ words' = [i \in 0 .. size - 1 |-> codebook'[off + i].word]
  BY <1>1, <1>6, <1>7, SizeKept DEF CW
<1>9. SameTo(words, words', CDPI)
  <2>1. ASSUME NEW i \in 0 .. CDPI - 1 PROVE words'[i] = words[i]
    <3>1. i \in 0 .. size - 1 /\ off + i # off + newCDPI /\ off + i \in Index
      BY <1>2 DEF Index
    <3>2. codebook'[off + i] = codebook[off + i]
      BY <1>1, <1>2, <3>1
    <3> QED
      BY <1>8, <3>1, <3>2
  <2> QED
    BY <2>1 DEF SameTo
<1>10. DoneBefore(given.len, CDPI, first, entry, words')
  <2>1. DoneBefore(given.len, CDPI, first, entry, words)
    BY <1>3 DEF Behind
  <2>2. Same(first, first, Asc(given.len)[CDPI]) /\ Same(entry, entry, Asc(given.len)[CDPI])
    BY DEF Same
  <2> QED
    BY <1>2, <1>9, <2>1, <2>2, DoneKept
<1>11. Typed'
  <2>1. phase' \in Phases
    BY <1>1 DEF Phases, Making
  <2> QED
    BY <1>1, <1>2, <1>7, <2>1, TypedLoop
<1>12. Behind'
  BY <1>1, <1>3, <1>10, Zenon DEF Behind
<1>13. Filling'
  <2>1. phase' = "words" /\ Base(given.len, CDPI, CW(newCDPI)')
    BY <1>1, <1>5, <1>8
  <2> QED
    BY <1>1, <1>2, <1>8, <1>12, <2>1 DEF Filling
<1> QED
  BY <1>11, <1>13

(* Words counts up from there, and gives the next length its place.         *)
LEMMA FromWords ==
  ASSUME Typed, Sources, Filling, Words
  PROVE  Typed' /\ Filling'
<1> DEFINE w == CW(newCDPI)
           L == given.len
<1>1. phase = "words" /\ phase' = "first"
      /\ UNCHANGED <<builds, given, CL, CCL, CDPI, newCDPI, first, qcode, at, temp>>
      /\ codebook' = [k \in Index |->
           IF k - off \in CDPI .. newCDPI - 1
             THEN Word(w + newCDPI - (k - off)) ELSE codebook[k]]
      /\ entry' = [l \in Bits |-> IF l > CCL /\ l <= updateEnd
                                    THEN entry[CCL] + numCCL ELSE entry[l]]
  BY DEF Words, Goto, kernel
<1>2. /\ given.len \in Lengths /\ Count(given.len) = size /\ size \in Nat /\ size > 1
      /\ off \in Nat /\ off + size = DictSize /\ DictSize \in Nat /\ CL = Asc(given.len)
      /\ Group(given.len, CDPI, newCDPI) /\ CCL = Asc(given.len)[CDPI]
      /\ CDPI \in Nat /\ newCDPI \in Nat /\ CDPI <= newCDPI /\ newCDPI <= size - 1
      /\ CCL \in 1 .. Long /\ CCL \in Nat /\ CCL \in Bits
      /\ off + newCDPI \in Index
      /\ CDPI \in Index /\ newCDPI \in Index
      /\ codebook \in [Index -> Code] /\ first \in [Bits -> 0 .. MAX]
      /\ entry \in [Bits -> 0 .. DictSize]
      /\ CW(newCDPI) \in 0 .. MAX /\ Starts(given.len, CDPI)
  BY <1>1, AtGroup
<1>3. Behind /\ Base(given.len, CDPI, w)
  BY <1>1 DEF Filling
<1>4. w \in Nat /\ w + (newCDPI - CDPI) + 1 <= pow2[CCL]
      /\ pow2[CCL] \in Nat /\ pow2[CCL] <= pow2[Long]
  BY <1>2, <1>3, WordFits, Unit DEF Base
<1>5. entry[CCL] + numCCL = newCDPI + 1
  <2>1. entry[CCL] = CDPI
    BY <1>3 DEF Behind
  <2> QED
    BY <1>2, <2>1 DEF numCCL
<1>6. \A l \in Bits : l \in Nat
  BY WordBits DEF Bits
<1>7. entry' \in [Bits -> 0 .. DictSize] /\ Same(entry, entry', CCL) /\ entry'[CCL] = entry[CCL]
  <2>1. newCDPI + 1 \in 0 .. DictSize
    BY <1>2
  <2>2. entry' = [l \in Bits |-> IF l > CCL /\ l <= updateEnd THEN newCDPI + 1 ELSE entry[l]]
    BY <1>1, <1>5
  <2>3. entry' \in [Bits -> 0 .. DictSize]
    BY <1>2, <2>1, <2>2
  <2>4. ASSUME NEW l \in Bits, l <= CCL PROVE entry'[l] = entry[l]
    <3>1. ~(l > CCL)
      BY <1>2, <1>6, <2>4
    <3> QED
      BY <2>2, <3>1
  <2>5. CCL <= CCL /\ \A l \in Bits : l < CCL => l <= CCL
    BY <1>2, <1>6
  <2> QED
    BY <1>2, <2>3, <2>4, <2>5 DEF Same
<1>8. ASSUME newCDPI < size - 1 PROVE entry'[Asc(L)[newCDPI + 1]] = newCDPI + 1
  <2>1. updateEnd = Asc(L)[newCDPI + 1]
    <3>1. ~(newCDPI >= size - 1)
      BY <1>2, <1>8
    <3> QED
      BY <1>2, <3>1 DEF updateEnd
  <2>2. Asc(L)[newCDPI + 1] \in 1 .. Long /\ Asc(L)[newCDPI + 1] > CCL
    BY <1>2, <1>8, NextGroup
  <2>3. Asc(L)[newCDPI + 1] \in Bits /\ Asc(L)[newCDPI + 1] <= updateEnd
    BY <1>6, <2>1, <2>2, Unit
  <2> QED
    BY <1>1, <1>5, <2>2, <2>3
<1>9. ASSUME NEW i \in 0 .. size - 1
      PROVE  /\ off + i \in Index /\ (off + i) - off = i
             /\ codebook'[off + i] = IF i \in CDPI .. newCDPI - 1 THEN Word(w + newCDPI - i)
                                                                   ELSE codebook[off + i]
  <2>1. off + i \in Index /\ (off + i) - off = i
    BY <1>2 DEF Index
  <2> HIDE DEF w
  <2> QED
    BY <1>1, <2>1
<1> HIDE DEF w
<1>10. ASSUME NEW i \in CDPI .. newCDPI - 1
       PROVE  Word(w + newCDPI - i) \in Code /\ Word(w + newCDPI - i).word = w + (newCDPI - i)
  <2>1. w + newCDPI - i = w + (newCDPI - i) /\ w + (newCDPI - i) \in 0 .. MAX
    BY <1>2, <1>4, MaxIs
  <2>2. 0 \in 0 .. TypeBW - 1
    BY WordBits
  <2> QED
    BY <2>1, <2>2 DEF Word, Code
<1>11. codebook' \in [Index -> Code]
  <2>1. ASSUME NEW k \in Index, k - off \in CDPI .. newCDPI - 1
        PROVE  Word(w + newCDPI - (k - off)) \in Code
    BY <1>10, <2>1
  <2> QED
    BY <1>1, <1>2, <2>1
<1>12. /\ size' = size /\ off' = off
       /\ words = [i \in 0 .. size - 1 |-> codebook[off + i].word]
       /\ words' = [i \in 0 .. size - 1 |-> codebook'[off + i].word]
  BY <1>1, SizeKept
<1>13. SameTo(words, words', CDPI)
  <2>1. ASSUME NEW i \in 0 .. CDPI - 1 PROVE words'[i] = words[i]
    <3>1. i \in 0 .. size - 1 /\ i \notin CDPI .. newCDPI - 1
      BY <1>2
    <3>2. codebook'[off + i] = codebook[off + i]
      BY <1>9, <3>1
    <3> QED
      BY <1>12, <3>1, <3>2
  <2> QED
    BY <2>1 DEF SameTo
<1>14. DoneBefore(L, CDPI, first, entry', words')
  <2>1. DoneBefore(L, CDPI, first, entry, words)
    BY <1>3 DEF Behind
  <2>2. Same(first, first, Asc(L)[CDPI])
    BY DEF Same
  <2> QED
    BY <1>2, <1>7, <1>13, <2>1, <2>2, DoneKept
<1>15. codebook'[off + newCDPI].word = w
  <2>1. newCDPI \in 0 .. size - 1 /\ newCDPI \notin CDPI .. newCDPI - 1
    BY <1>2
  <2>2. codebook'[off + newCDPI] = codebook[off + newCDPI]
    BY <1>9, <2>1
  <2> QED
    BY <2>2 DEF w, CW
<1>16. ASSUME NEW i \in CDPI .. newCDPI PROVE codebook'[off + i].word = w + (newCDPI - i)
  <2>1. CASE i = newCDPI
    <3>1. w + (newCDPI - newCDPI) = w
      BY <1>2, <1>4
    <3> QED
      BY <1>15, <2>1, <3>1
  <2>2. CASE i # newCDPI
    <3>1. i \in 0 .. size - 1 /\ i \in CDPI .. newCDPI - 1
      BY <1>2, <2>2
    <3>2. codebook'[off + i] = Word(w + newCDPI - i)
      BY <1>9, <3>1
    <3> QED
      BY <1>10, <3>1, <3>2
  <2> QED
    BY <2>1, <2>2
<1>17. Typed'
  <2>1. phase' \in Phases
    BY <1>1 DEF Phases, Making
  <2> QED
    BY <1>1, <1>2, <1>7, <1>11, <2>1, TypedLoop
<1>18. Behind'
  <2>1. entry'[CCL] = CDPI
    BY <1>3, <1>7 DEF Behind
  <2> QED
    BY <1>1, <1>3, <1>14, <2>1, Zenon DEF Behind
<1>19. Filling'
  <2>1. phase' = "first" /\ Base(L, CDPI, CW(newCDPI)')
    BY <1>1, <1>3, <1>12, <1>15 DEF CW
  <2>2. Follows'
    BY <1>1, <1>8, <1>12 DEF Follows
  <2>3. \A i \in CDPI .. newCDPI : CW(i)' = CW(newCDPI)' + (newCDPI - i)
    BY <1>1, <1>12, <1>15, <1>16 DEF CW
  <2> QED
    BY <1>1, <1>2, <1>12, <1>18, <2>1, <2>2, <2>3 DEF Filling
<1> QED
  BY <1>17, <1>19
(* FirstOfLength completes the group, and marks the lengths up to the next  *)
(* as skipped.                                                              *)
LEMMA FromFirstOfLength ==
  ASSUME Typed, Sources, Filling, FirstOfLength
  PROVE  Typed' /\ Filling'
<1> DEFINE L == given.len
           c == pow2[CCL] - 1 - CW(CDPI)
<1>1. phase = "first" /\ phase' = "next"
      /\ UNCHANGED <<builds, given, CL, CCL, CDPI, newCDPI, codebook, entry, qcode, at, temp>>
      /\ first' = [Skipped(first, CCL + 1, updateEnd) EXCEPT ![CCL] = Flip(CW(CDPI), CL[CDPI])]
  BY DEF FirstOfLength, Goto, kernel
<1>2. /\ given.len \in Lengths /\ Count(given.len) = size /\ size \in Nat /\ size > 1
      /\ off \in Nat /\ off + size = DictSize /\ DictSize \in Nat /\ CL = Asc(given.len)
      /\ Group(given.len, CDPI, newCDPI) /\ CCL = Asc(given.len)[CDPI]
      /\ CDPI \in Nat /\ newCDPI \in Nat /\ CDPI <= newCDPI /\ newCDPI <= size - 1
      /\ CDPI \in 0 .. size - 1 /\ newCDPI \in 0 .. size - 1
      /\ CCL \in 1 .. Long /\ CCL \in Nat /\ CCL \in Bits
      /\ CDPI \in Index /\ newCDPI \in Index
      /\ codebook \in [Index -> Code] /\ first \in [Bits -> 0 .. MAX]
      /\ entry \in [Bits -> 0 .. DictSize] /\ Starts(given.len, CDPI)
  BY <1>1, AtGroup
<1>3. /\ Behind /\ Base(L, CDPI, CW(newCDPI)) /\ Follows
      /\ \A i \in CDPI .. newCDPI : CW(i) = CW(newCDPI) + (newCDPI - i)
  BY <1>1 DEF Filling
<1>4. /\ CW(newCDPI) \in Nat /\ CW(newCDPI) + (newCDPI - CDPI) + 1 <= pow2[CCL]
      /\ pow2[CCL] \in Nat /\ pow2[CCL] <= pow2[Long]
  BY <1>2, <1>3, WordFits, Unit DEF Base
<1>5. CW(CDPI) = CW(newCDPI) + (newCDPI - CDPI) /\ CDPI \in CDPI .. newCDPI
  BY <1>2, <1>3
<1>6. CW(CDPI) \in Nat /\ CW(CDPI) < pow2[CCL]
  BY <1>2, <1>4, <1>5
<1>7. Flip(CW(CDPI), CL[CDPI]) = c /\ c \in 0 .. MAX
  <2>1. Flip(CW(CDPI), CCL) = c
    BY <1>2, <1>6, FlipIs
  <2>2. c \in 0 .. MAX
    BY <1>4, <1>6, MaxIs
  <2> QED
    BY <1>2, <2>1, <2>2
<1> HIDE DEF c
<1>8. \A l \in Bits : l \in Nat
  BY WordBits DEF Bits
<1> DEFINE f == [l \in Bits |-> IF l \in CCL + 1 .. updateEnd - 1 THEN MAX ELSE first[l]]
<1>9. first' = [f EXCEPT ![CCL] = c] /\ f \in [Bits -> 0 .. MAX]
  <2>1. first' = [f EXCEPT ![CCL] = c]
    BY <1>1, <1>7 DEF Skipped
  <2>2. MAX \in 0 .. MAX
    BY MaxIs
  <2> QED
    BY <1>2, <2>1, <2>2
<1>10. ASSUME NEW l \in Bits
       PROVE  first'[l] = IF l = CCL THEN c ELSE
                            IF l \in CCL + 1 .. updateEnd - 1 THEN MAX ELSE first[l]
  BY <1>2, <1>9
<1>11. first' \in [Bits -> 0 .. MAX]
  BY <1>2, <1>7, <1>9
<1> HIDE DEF f
<1>12. first'[CCL] = c /\ Same(first, first', CCL)
  <2>1. first'[CCL] = c
    BY <1>2, <1>10
  <2>2. ASSUME NEW l \in Bits, l < CCL PROVE first'[l] = first[l]
    <3>1. l # CCL /\ l \notin CCL + 1 .. updateEnd - 1
      BY <1>2, <1>8, <2>2
    <3> QED
      BY <1>10, <3>1
  <2> QED
    BY <2>1, <2>2 DEF Same
<1>13. /\ size' = size /\ off' = off /\ words' = words
       /\ words = [i \in 0 .. size - 1 |-> codebook[off + i].word]
  BY <1>1, SizeKept
<1>14. \A i \in 0 .. size - 1 : words[i] = CW(i)
  BY <1>13 DEF CW
<1>15. DoneBefore(L, CDPI, first', entry, words)
  <2>1. DoneBefore(L, CDPI, first, entry, words)
    BY <1>3 DEF Behind
  <2>2. Same(entry, entry, Asc(L)[CDPI]) /\ SameTo(words, words, CDPI)
    BY DEF Same, SameTo
  <2> QED
    BY <1>2, <1>12, <2>1, <2>2, DoneKept
<1>16. Done(L, CDPI, newCDPI, first', entry, words)
  <2>1. \A i \in CDPI .. newCDPI : i \in 0 .. size - 1
    BY <1>2
  <2>2. words[newCDPI] = CW(newCDPI) /\ words[CDPI] = CW(CDPI)
    BY <1>2, <1>14
  <2>3. \A i \in CDPI .. newCDPI : words[i] = words[newCDPI] + (newCDPI - i)
    BY <1>3, <1>14, <2>1, <2>2
  <2>4. entry[CCL] = CDPI
    BY <1>3 DEF Behind
  <2>5. first'[CCL] = pow2[CCL] - 1 - words[CDPI]
    BY <1>12, <2>2 DEF c
  <2> QED
    BY <1>2, <1>3, <2>2, <2>3, <2>4, <2>5 DEF Done
<1>17. DoneBefore(L, newCDPI + 1, first', entry, words)
  BY <1>2, <1>15, <1>16, DoneMore
<1>18. Skips(L, first', IF newCDPI < size - 1 THEN Asc(L)[newCDPI + 1] ELSE CCL)
  <2>1. CCL \in Used(L)
    BY <1>2 DEF Used
  <2>2. Skips(L, first, CCL)
    BY <1>3 DEF Behind
  <2>3. ASSUME NEW l \in Bits \ Used(L), l < CCL PROVE first'[l] = MAX
    BY <1>12, <2>2, <2>3 DEF Skips, Same
  <2>4. ASSUME newCDPI < size - 1, NEW l \in Bits \ Used(L), l < Asc(L)[newCDPI + 1], ~(l < CCL)
        PROVE  first'[l] = MAX
    <3>1. updateEnd = Asc(L)[newCDPI + 1]
      <4>1. ~(newCDPI >= size - 1)
        BY <1>2, <2>4
      <4> QED
        BY <1>2, <4>1 DEF updateEnd
    <3>2. Asc(L)[newCDPI + 1] \in Nat /\ l # CCL /\ l \in Nat
      <4>1. Asc(L)[newCDPI + 1] \in 1 .. Long
        BY <1>2, <2>4, NextGroup
      <4> QED
        BY <1>8, <2>1, <2>4, <4>1, WordBits
    <3>3. l \in CCL + 1 .. updateEnd - 1
      BY <1>2, <2>4, <3>1, <3>2
    <3> QED
      BY <1>10, <3>2, <3>3
  <2> QED
    BY <2>3, <2>4 DEF Skips
<1>19. Typed'
  <2>1. phase' \in Phases
    BY <1>1 DEF Phases, Making
  <2> QED
    BY <1>1, <1>2, <1>11, <2>1, TypedLoop
<1>20. Filling'
  <2>1. Follows'
    BY <1>1, <1>3, <1>13 DEF Follows
  <2> QED
    BY <1>1, <1>2, <1>13, <1>17, <1>18, <2>1 DEF Filling
<1> QED
  BY <1>19, <1>20

(* The next length's base.                                                  *)
LEMMA NextBase ==
  ASSUME NEW L \in Lengths, NEW s, NEW e, Group(L, s, e), e < Count(L) - 1,
         NEW w, Base(L, s, w)
  PROVE  LET x == (w + (e - s) + 1) * pow2[Asc(L)[e + 1] - Asc(L)[s]]
         IN  Base(L, e + 1, x) /\ x \in 0 .. MAX
<1> DEFINE l == Asc(L)[s]
           m == Asc(L)[e + 1]
           a == w + (e - s) + 1
           d == pow2[m - l]
<1>1. m \in 1 .. Long /\ m > l
  BY NextGroup
<1>2. l \in 1 .. Long /\ Count(L) \in Nat /\ e \in Nat /\ e < Count(L)
  BY GroupTypes
<1>3. a * U(l) = Spaces(L)[e + 1] /\ a \in Nat
  <2>1. w + (e - s) + 1 \in Nat
    BY WordFits
  <2> QED
    BY <2>1, WordFits
<1>4. m - l \in Nat /\ Long - m \in Nat /\ (m - l) + (Long - m) = Long - l
      /\ m - l \in 0 .. TypeBW /\ Long - l <= TypeBW
  BY <1>1, <1>2, WordBits
<1>5. U(l) = d * U(m)
  BY <1>4, PowAdd DEF U
<1>6. d \in Nat /\ U(m) \in Nat \ {0}
  BY <1>1, <1>4, PowPositive, Unit
<1> HIDE DEF a, d, l, m
<1>7. (a * d) * U(m) = a * (d * U(m)) /\ a * d \in Nat
  <2>1. \A x, y, z \in Nat : (x * y) * z = x * (y * z)
    OBVIOUS
  <2>2. \A x, y \in Nat : x * y \in Nat
    OBVIOUS
  <2> QED
    BY <1>3, <1>6, <2>1, <2>2
<1>8. (a * d) * U(m) = Spaces(L)[e + 1]
  BY <1>3, <1>5, <1>7
<1>9. Spaces(L)[e + 1] <= pow2[Long] /\ Spaces(L)[e + 1] \in Nat
  <2>1. e + 1 \in 0 .. Count(L)
    BY <1>2
  <2> QED
    BY <2>1, SpacesOrder
<1>10. a * d <= pow2[Long]
  <2>1. \A x \in Nat, y \in Nat \ {0} : x <= x * y
    OBVIOUS
  <2>2. a * d <= (a * d) * U(m)
    BY <1>6, <1>7, <2>1
  <2> QED
    BY <1>7, <1>8, <1>9, <2>2, MaxIs
<1>11. a * d \in 0 .. MAX
  BY <1>7, <1>10, MaxIs
<1> QED
  BY <1>7, <1>8, <1>11 DEF a, d, l, m, Base

(* NextLength gives the next group its base, or leaves the loop.            *)
LEMMA FromNextLength ==
  ASSUME Typed, Sources, Filling, NextLength
  PROVE  Typed' /\ Filling'
<1> DEFINE L == given.len
           n == newCDPI + 1
           w == (CW(CDPI) + 1) * pow2[CL[newCDPI + 1] - CL[newCDPI]]
<1>1. phase = "next" /\ phase' = "test" /\ newCDPI' = size - 1
      /\ UNCHANGED <<builds, given, CL, first, entry, qcode, at, temp>>
      /\ IF newCDPI < size - 1
           THEN /\ codebook' = [codebook EXCEPT ![off + newCDPI + 1] = Word(w)]
                /\ CCL' = CL[newCDPI + 1]
                /\ CDPI' = newCDPI + 1
           ELSE CDPI' = newCDPI /\ UNCHANGED <<codebook, CCL>>
  BY DEF NextLength, Goto, NextCDPI
<1>2. /\ given.len \in Lengths /\ Count(given.len) = size /\ size \in Nat /\ size > 1
      /\ off \in Nat /\ off + size = DictSize /\ DictSize \in Nat /\ CL = Asc(given.len)
      /\ Group(given.len, CDPI, newCDPI) /\ CCL = Asc(given.len)[CDPI]
      /\ CDPI \in Nat /\ newCDPI \in Nat /\ CDPI <= newCDPI /\ newCDPI <= size - 1
      /\ CDPI \in 0 .. size - 1 /\ newCDPI \in 0 .. size - 1
      /\ CCL \in 1 .. Long /\ CCL \in Nat /\ CCL \in Bits
      /\ CDPI \in Index /\ newCDPI \in Index
      /\ codebook \in [Index -> Code] /\ first \in [Bits -> 0 .. MAX]
      /\ entry \in [Bits -> 0 .. DictSize]
  BY <1>1, AtGroup
<1>3. /\ Follows /\ DoneBefore(L, n, first, entry, words)
      /\ Skips(L, first, IF newCDPI < size - 1 THEN Asc(L)[newCDPI + 1] ELSE CCL)
  BY <1>1 DEF Filling
<1>4. /\ size' = size /\ off' = off
      /\ words = [i \in 0 .. size - 1 |-> codebook[off + i].word]
      /\ words' = [i \in 0 .. size - 1 |-> codebook'[off + i].word]
  BY <1>1, SizeKept
<1>5. size - 1 \in Index /\ phase' \in Phases
  BY <1>1, <1>2 DEF Index, Phases, Making
<1>6. CASE newCDPI < size - 1
  <2>1. /\ codebook' = [codebook EXCEPT ![off + newCDPI + 1] = Word(w)]
        /\ CCL' = CL[newCDPI + 1] /\ CDPI' = n
    BY <1>1, <1>6
  <2>2. Starts(L, n) /\ Asc(L)[n] \in 1 .. Long
    BY <1>2, <1>6, NextGroup
  <2>3. n \in 0 .. size - 1 /\ n \in Index /\ off + newCDPI + 1 = off + n /\ off + n \in Index /\ n \in Nat
    BY <1>2, <1>6 DEF Index
  <2>4. Done(L, CDPI, newCDPI, first, entry, words)
    <3>1. newCDPI < n
      BY <1>2
    <3> QED
      BY <1>2, <1>3, <3>1 DEF DoneBefore
  <2>5. Base(L, CDPI, words[newCDPI]) /\ words[CDPI] = words[newCDPI] + (newCDPI - CDPI)
    BY <1>2, <2>4, Threshold DEF Done
  <2>6. Base(L, n, w) /\ w \in 0 .. MAX
    <3>1. CW(CDPI) = words[CDPI]
      BY <1>2, <1>4 DEF CW
    <3>2. CL[newCDPI + 1] - CL[newCDPI] = Asc(L)[newCDPI + 1] - Asc(L)[CDPI]
      BY <1>2, GroupTypes
    <3>3. w = (words[newCDPI] + (newCDPI - CDPI) + 1) * pow2[Asc(L)[newCDPI + 1] - Asc(L)[CDPI]]
      BY <2>5, <3>1, <3>2
    <3> HIDE DEF w
    <3> QED
      BY <1>2, <1>6, <2>5, <3>3, NextBase
  <2> HIDE DEF w
  <2>7. Word(w) \in Code /\ Word(w).word = w
    <3>1. 0 \in 0 .. TypeBW - 1
      BY WordBits
    <3> QED
      BY <2>6, <3>1 DEF Word, Code
  <2>8. codebook' \in [Index -> Code] /\ codebook'[off + n] = Word(w)
    BY <1>2, <2>1, <2>3, <2>7
  <2>9. SameTo(words, words', n)
    <3>1. ASSUME NEW i \in 0 .. n - 1 PROVE words'[i] = words[i]
      <4>1. i \in 0 .. size - 1 /\ off + i # off + newCDPI + 1 /\ off + i \in Index
        BY <1>2 DEF Index
      <4>2. codebook'[off + i] = codebook[off + i]
        BY <1>2, <2>1, <4>1
      <4> QED
        BY <1>4, <4>1, <4>2
    <3> QED
      BY <3>1 DEF SameTo
  <2>10. DoneBefore(L, n, first, entry, words')
    <3>1. Same(first, first, Asc(L)[n]) /\ Same(entry, entry, Asc(L)[n])
      BY DEF Same
    <3> HIDE DEF n
    <3> QED
      BY <1>2, <1>3, <2>2, <2>9, <3>1, DoneKept
  <2>11. CCL' = Asc(L)[n] /\ CCL' \in Bits
    BY <1>2, <2>1, <2>2, Unit
  <2>12. Skips(L, first, CCL') /\ entry[CCL'] = n
    BY <1>3, <1>6, <2>11 DEF Follows
  <2> HIDE DEF n
  <2>13. Behind'
    BY <1>1, <2>1, <2>2, <2>10, <2>11, <2>12 DEF Behind
  <2>14. CW(CDPI)' = w
    BY <1>4, <2>1, <2>7, <2>8 DEF CW
  <2>15. Ready'
    BY <1>1, <1>2, <1>4, <2>1, <2>6, <2>13, <2>14 DEF Ready
  <2>16. Typed'
    BY <1>1, <1>2, <1>5, <2>1, <2>3, <2>8, <2>11, TypedLoop
  <2> QED
    BY <1>1, <1>4, <2>15, <2>16 DEF Filling
<1>7. CASE ~(newCDPI < size - 1)
  <2>1. newCDPI = size - 1 /\ n = size
    BY <1>2, <1>7
  <2>2. CDPI' = newCDPI /\ UNCHANGED <<codebook, CCL>>
    BY <1>1, <1>7
  <2>3. words' = words
    BY <1>4, <2>2
  <2>4. Asc(L)[size - 1] = CCL
    BY <1>2, <2>1, GroupTypes
  <2>5. Through'
    BY <1>1, <1>3, <1>4, <1>7, <2>1, <2>2, <2>3, <2>4 DEF Through
  <2>6. Typed'
    BY <1>1, <1>2, <1>5, <2>2, TypedLoop
  <2> QED
    BY <1>1, <1>4, <2>5, <2>6 DEF Filling
<1> QED
  BY <1>6, <1>7
(* When the loop ends, every group is done: a single codeword is by the     *)
(* way it was begun, and otherwise the last group has at least two.         *)
LEMMA AllDone ==
  ASSUME Typed, Sources, Filling, phase = "test", CDPI >= size - 1
  PROVE  /\ DoneBefore(given.len, size, first, entry, words)
         /\ Skips(given.len, first, Asc(given.len)[size - 1])
<1> DEFINE L == given.len
<1>1. phase \in Making
  BY DEF Making
<1>2. /\ given.len \in Lengths /\ Count(given.len) = size /\ given \in Given
      /\ size \in Nat /\ size >= 1 /\ off \in Nat /\ off + size = DictSize
  BY <1>1, InLoop
<1>3. CASE Through
  BY <1>3 DEF Through
<1>4. CASE Ready
  <2>1. Starts(L, CDPI) /\ Behind /\ Base(L, CDPI, CW(CDPI)) /\ CCL = Asc(L)[CDPI]
    BY <1>4 DEF Ready, Behind
  <2>2. size = 1
    <3>1. ASSUME size > 1 PROVE FALSE
      <4>1. CDPI < size - 1 /\ CDPI \in Nat
        <5>1. CDPI < Count(L) - 1
          BY <1>2, <2>1, <3>1, NotLast
        <5> QED
          BY <1>2, <2>1, <5>1 DEF Starts
      <4> QED
        BY <1>2, <4>1
    <3> QED
      BY <1>2, <3>1
  <2>3. CDPI = 0 /\ 0 \in 0 .. 0
    BY <1>2, <2>1, <2>2 DEF Starts
  <2>4. first[CCL] = pow2[CCL] - 1 /\ entry[CCL] = 0 /\ Base(L, 0, CW(0))
    BY <1>4, <2>1, <2>2, <2>3 DEF Ready, Behind
  <2>5. CCL \in 1 .. Long /\ U(CCL) \in Nat \ {0}
    BY <1>2, <2>1, <2>2, <2>3, AscNat, Unit
  <2>6. CW(0) = 0
    <3>1. CW(0) \in Nat /\ CW(0) * U(CCL) = 0
      BY <1>2, <2>1, <2>3, <2>4, SpacesIs DEF Base
    <3>2. \A x \in Nat, y \in Nat \ {0} : x * y = 0 => x = 0
      OBVIOUS
    <3> QED
      BY <2>5, <3>1, <3>2
  <2>7. Group(L, 0, 0)
    BY <1>2, <2>2, <2>3 DEF Group
  <2>8. words[0] = CW(0)
    BY <2>2, <2>3 DEF words
  <2>9. pow2[CCL] \in Nat
    BY <2>5, Unit
  <2>10. Done(L, 0, 0, first, entry, words)
    <3>1. \A i \in 0 .. 0 : i = 0
      OBVIOUS
    <3>2. Asc(L)[0] = CCL
      BY <2>1, <2>3
    <3> QED
      BY <2>4, <2>6, <2>8, <2>9, <3>1, <3>2 DEF Done
  <2>11. DoneBefore(L, 0, first, entry, words) /\ Skips(L, first, Asc(L)[size - 1])
    BY <2>1, <2>2, <2>3 DEF Behind
  <2>12. DoneBefore(L, 0 + 1, first, entry, words)
    BY <1>2, <2>7, <2>10, <2>11, DoneMore
  <2> QED
    BY <2>2, <2>11, <2>12
<1> QED
  BY <1>3, <1>4 DEF Filling

(* Pack makes good codes, at the end of the codebook.                       *)
LEMMA FromPack ==
  ASSUME Typed, Sources, Filling, Pack
  PROVE  /\ Typed'
         /\ \A k \in 0 .. size - 1 : Good(k, codebook'[off + k])
<1> DEFINE L == given.len
<1>1. phase = "test" /\ phase' = "unreverse" /\ CDPI >= size - 1
      /\ UNCHANGED <<builds, given, CL, CCL, CDPI, newCDPI, first, entry, qcode, at, temp>>
      /\ codebook' = [k \in Index |->
           IF k >= off THEN [bits |-> CL[k - off], word |-> Flip(CW(k - off), CL[k - off])]
                       ELSE codebook[k]]
  BY DEF Pack, Goto, kernel
<1>2. phase \in Making
  BY <1>1 DEF Making
<1>3. /\ L \in Lengths /\ Count(L) = size /\ given \in Given
      /\ size \in Nat /\ size >= 1 /\ off \in Nat /\ off + size = DictSize /\ DictSize \in Nat
      /\ CL = Asc(L)
  BY <1>2, InLoop
<1>4. /\ DoneBefore(L, Count(L), first, entry, words)
      /\ Skips(L, first, Asc(L)[Count(L) - 1])
  BY <1>1, <1>3, AllDone
<1>5. codebook \in [Index -> Code] /\ first \in [Bits -> 0 .. MAX] /\ entry \in [Bits -> 0 .. DictSize]
      /\ CCL \in Bits /\ CDPI \in Index /\ newCDPI \in Index
  BY DEF Typed, TypeOK, Code
<1>6. ASSUME NEW k \in 0 .. size - 1
      PROVE  LET c == [bits |-> CL[k], word |-> Flip(CW(k), CL[k])]
             IN  GoodCode(L, first, entry, k, c) /\ c \in Code
  <2>1. words[k] = CW(k)
    BY DEF words
  <2> DEFINE c == [bits |-> Asc(L)[k], word |-> Flip(words[k], Asc(L)[k])]
  <2>2. GoodCode(L, first, entry, k, c) /\ c \in Code
    <3>1. k \in 0 .. Count(L) - 1
      BY <1>3
    <3>2. c = [bits |-> Asc(L)[k], word |-> Flip(words[k], Asc(L)[k])]
      OBVIOUS
    <3> HIDE DEF c
    <3> QED
      BY <1>3, <1>4, <1>5, <3>1, <3>2, PackedIsGood
  <2> QED
    BY <1>3, <2>1, <2>2
<1>7. ASSUME NEW k \in Index, k >= off
      PROVE  k - off \in 0 .. size - 1 /\ off + (k - off) = k
  BY <1>3, <1>7 DEF Index
<1>8. codebook' \in [Index -> Code]
  <2>1. ASSUME NEW k \in Index, k >= off
        PROVE  [bits |-> CL[k - off], word |-> Flip(CW(k - off), CL[k - off])] \in Code
    <3>1. k - off \in 0 .. size - 1
      BY <1>7, <2>1
    <3> QED
      BY <1>6, <3>1
  <2> QED
    BY <1>1, <1>5, <2>1
<1>9. Typed'
  <2>1. phase' \in Phases
    BY <1>1 DEF Phases
  <2> QED
    BY <1>1, <1>5, <1>8, <2>1, TypedLoop
<1>10. ASSUME NEW k \in 0 .. size - 1 PROVE Good(k, codebook'[off + k])
  <2>1. off + k \in Index /\ off + k >= off /\ (off + k) - off = k
    BY <1>3 DEF Index
  <2>2. codebook'[off + k] = [bits |-> CL[k], word |-> Flip(CW(k), CL[k])]
    BY <1>1, <2>1
  <2>3. GoodCode(L, first, entry, k, [bits |-> CL[k], word |-> Flip(CW(k), CL[k])])
    BY <1>6
  <2> QED
    BY <2>2, <2>3 DEF Good
<1> QED
  BY <1>9, <1>10-----------------------------------------------------------------------------
(* The steps that move what is there.                                       *)

(* The types of all that a step may use.                                    *)
LEMMA Types ==
  ASSUME Typed
  PROVE  /\ given \in Given /\ size \in Nat /\ size >= 1 /\ off \in Nat /\ off + size = DictSize
         /\ DictSize \in Nat \ {0}
         /\ given.order \in [Index -> Index] /\ given.order \in Orders
         /\ codebook \in [Index -> Code] /\ qcode \in [Index -> Index]
         /\ first \in [Bits -> 0 .. MAX] /\ entry \in [Bits -> 0 .. DictSize]
         /\ CCL \in Bits /\ CDPI \in Index /\ newCDPI \in Index
         /\ builds \in 0 .. MaxBuilds
<1>1. given \in Given
  BY DEF Typed, TypeOK
<1>2. /\ codebook \in [Index -> Code] /\ qcode \in [Index -> Index]
      /\ first \in [Bits -> 0 .. MAX] /\ entry \in [Bits -> 0 .. DictSize]
      /\ CCL \in Bits /\ CDPI \in Index /\ newCDPI \in Index
      /\ builds \in 0 .. MaxBuilds
  BY DEF Typed, TypeOK, Code
<1>3. /\ size \in 1 .. DictSize /\ size \in Nat /\ off \in Nat /\ off + size = DictSize
      /\ DictSize \in Nat \ {0}
      /\ given.order \in [Index -> Index] /\ given.order \in Orders
  BY <1>1, SizeBounds
<1>4. size >= 1
  BY <1>3
<1> QED
  BY <1>1, <1>2, <1>3, <1>4

(* BuildBook begins another codebook, whatever the buffers hold.            *)
LEMMA FromBuildBook ==
  ASSUME Typed, BuildBook
  PROVE  Typed' /\ Filling' /\ Sources' /\ Placed'
<1>1. /\ phase = "idle" /\ phase' = "reverse" /\ builds < MaxBuilds /\ builds' = builds + 1
      /\ given' \in Given /\ CL' = given'.len /\ qcode' = given'.order
      /\ UNCHANGED <<codebook, first, entry, CCL, CDPI, newCDPI, at, temp>>
  BY DEF BuildBook, Goto
<1>2. builds' \in 0 .. MaxBuilds
  <2>1. MaxBuilds \in Nat
    BY BookAssumption
  <2>2. builds \in 0 .. MaxBuilds
    BY Types
  <2> QED
    BY <1>1, <2>1, <2>2
<1>3. qcode' \in [Index -> Index]
  BY <1>1, BookAssumption DEF Given
<1>4. Typed'
  <2>1. TypeOK'
    BY <1>1, <1>2, <1>3, Types DEF TypeOK, Code
  <2>2. phase' \in Phases
    BY <1>1 DEF Phases
  <2> QED
    BY <1>1, <2>1, <2>2 DEF Typed
<1>5. Filling'
  BY <1>1 DEF Filling
<1>6. Sources'
  BY <1>1 DEF Sources, Built, Making
<1>7. Placed'
  BY <1>1 DEF Placed, Built
<1> QED
  BY <1>4, <1>5, <1>6, <1>7

(* ReverseLengths puts the lengths in ascending order.                      *)
LEMMA FromReverseLengths ==
  ASSUME Typed, Sources, ReverseLengths
  PROVE  Typed' /\ Filling' /\ Sources' /\ Placed'
<1>1. /\ phase = "reverse" /\ phase' = "start" /\ CL' = Reversed(CL, size)
      /\ UNCHANGED <<builds, given, codebook, first, entry, qcode, CCL, CDPI, newCDPI, at, temp>>
  BY DEF ReverseLengths, Goto
<1>2. CL' = Asc(given.len)
  BY <1>1 DEF Sources, Asc, size
<1>3. phase' \in Phases
  BY <1>1 DEF Phases, Making
<1>4. Typed'
  BY <1>1, <1>3, Types, TypedLoop
<1>5. Filling'
  BY <1>1 DEF Filling
<1>6. Sources'
  BY <1>1, <1>2 DEF Sources, Built, Making
<1>7. Placed'
  BY <1>1 DEF Placed, Built
<1> QED
  BY <1>4, <1>5, <1>6, <1>7

(* Nothing but the reversals moves the sources in a build.                  *)
LEMMA SourcesLoop ==
  ASSUME Sources, UNCHANGED <<given, CL, qcode>>, phase \in Making,
         phase' \in Making \cup {"unreverse"}
  PROVE  Sources' /\ (phase' # "unreverse" => Placed')
<1>1. Sources'
  BY DEF Sources, Making, Built
<1>2. ASSUME phase' # "unreverse" PROVE Placed'
  BY <1>2 DEF Placed, Making, Built
<1> QED
  BY <1>1, <1>2

(* ReversePartial turns the codes round within their part of the codebook.  *)
LEMMA FromReversePartial ==
  ASSUME Typed, Sources, ReversePartial
  PROVE  Typed' /\ Filling' /\ Sources' /\ (Placed => Placed')
<1>1. /\ phase = "unreverse" /\ phase' = "reverseall"
      /\ UNCHANGED <<builds, given, CL, CCL, CDPI, newCDPI, first, entry, qcode, at, temp>>
      /\ codebook' = [k \in Index |-> IF k >= off THEN codebook[off + DictSize - 1 - k]
                                                 ELSE codebook[k]]
  BY DEF ReversePartial, Goto, kernel
<1>2. /\ size \in Nat /\ size >= 1 /\ off \in Nat /\ off + size = DictSize /\ DictSize \in Nat
      /\ codebook \in [Index -> Code]
  BY Types
<1>3. codebook' \in [Index -> Code]
  <2>1. ASSUME NEW k \in Index, k >= off PROVE off + DictSize - 1 - k \in Index
    BY <1>2, <2>1 DEF Index
  <2> QED
    BY <1>1, <1>2, <2>1
<1>4. phase' \in Phases
  BY <1>1 DEF Phases
<1>5. Typed'
  BY <1>1, <1>3, <1>4, Types, TypedLoop
<1>6. Filling'
  BY <1>1 DEF Filling
<1>7. Sources'
  BY <1>1 DEF Sources, Built, Making
<1>8. size' = size /\ off' = off
  BY <1>1, SizeKept
<1>9. ASSUME Placed, NEW k \in 0 .. size - 1
      PROVE  GoodCode(given.len, first, entry, k, codebook'[DictSize - 1 - k])
  <2>1. /\ DictSize - 1 - k \in Index /\ DictSize - 1 - k >= off
        /\ off + DictSize - 1 - (DictSize - 1 - k) = off + k
    BY <1>2 DEF Index
  <2>2. codebook'[DictSize - 1 - k] = codebook[off + k]
    BY <1>1, <2>1
  <2>3. GoodCode(given.len, first, entry, k, codebook[off + k])
    BY <1>1, <1>9 DEF Placed, Good
  <2> QED
    BY <2>2, <2>3
<1>10. ASSUME Placed PROVE Placed'
  BY <1>1, <1>8, <1>9, <1>10 DEF Placed, Good, Built
<1> QED
  BY <1>5, <1>6, <1>7, <1>10

(* ReverseArrays brings the codes to the front, and the keys into their     *)
(* order.                                                                   *)
LEMMA FromReverseArrays ==
  ASSUME Typed, Sources, ReverseArrays
  PROVE  Typed' /\ Filling' /\ Sources' /\ (Placed => Placed')
<1>1. /\ phase = "reverseall" /\ phase' = "reorder"
      /\ UNCHANGED <<builds, given, CL, CCL, CDPI, newCDPI, first, entry, temp>>
      /\ codebook' = Reversed(codebook, DictSize) /\ qcode' = Reversed(qcode, DictSize)
      /\ at' = [w \in Warp |-> "read"]
  BY DEF ReverseArrays, Goto, kernel, Keys
<1>2. /\ size \in Nat /\ size >= 1 /\ off \in Nat /\ off + size = DictSize /\ DictSize \in Nat
      /\ codebook \in [Index -> Code] /\ qcode \in [Index -> Index]
  BY Types
<1>3. ASSUME NEW k \in Index
      PROVE  /\ DictSize - 1 - k \in Index
             /\ codebook'[k] = codebook[DictSize - 1 - k] /\ qcode'[k] = qcode[DictSize - 1 - k]
  <2>1. DictSize - 1 - k \in Index /\ k < DictSize
    BY <1>2 DEF Index
  <2> QED
    BY <1>1, <1>2, <2>1 DEF Reversed
<1>4. DOMAIN codebook' = Index /\ DOMAIN qcode' = Index
      /\ codebook' = [k \in Index |-> codebook'[k]] /\ qcode' = [k \in Index |-> qcode'[k]]
  BY <1>1, <1>2 DEF Reversed
<1>5. codebook' \in [Index -> Code] /\ qcode' \in [Index -> Index]
  <2>1. ASSUME NEW k \in Index PROVE codebook'[k] \in Code /\ qcode'[k] \in Index
    BY <1>2, <1>3
  <2> QED
    BY <1>4, <2>1
<1>6. Typed'
  BY <1>1, <1>5 DEF Typed, TypeOK, Phases, Code
<1>7. Filling'
  BY <1>1 DEF Filling
<1>8. Sources'
  BY <1>1 DEF Sources, Built, Making
<1>9. size' = size /\ off' = off
  BY <1>1, SizeKept
<1>10. ASSUME Placed, NEW k \in 0 .. size - 1
       PROVE  GoodCode(given.len, first, entry, k, codebook'[k])
  <2>1. k \in Index
    BY <1>2 DEF Index
  <2>2. GoodCode(given.len, first, entry, k, codebook[DictSize - 1 - k])
    BY <1>1, <1>10 DEF Placed, Good
  <2> QED
    BY <1>3, <2>1, <2>2
<1>11. ASSUME Placed PROVE Placed'
  <2>1. ASSUME NEW w \in Warp, NEW k \in Threads(w), k < size
        PROVE  at'[w] = "read" /\ GoodCode(given.len, first, entry, k, codebook'[k])
    <3>1. k \in 0 .. size - 1
      BY <1>2, <2>1 DEF Threads, Index
    <3> QED
      BY <1>1, <1>10, <1>11, <3>1
  <2>2. \A w \in Warp : Moving(w)'
    BY <1>1, <1>9, <2>1 DEF Moving, Threads, Good
  <2> QED
    BY <1>1, <2>2 DEF Placed, Built
<1> QED
  BY <1>6, <1>7, <1>8, <1>11

(* Every thread is of one warp.                                             *)
LEMMA ThreadOfWarp ==
  ASSUME NEW i \in Index
  PROVE  \E w \in Warp : i \in Threads(w)
<1> DEFINE q == (i * NWarps) \div DictSize
           r == (i * NWarps) % DictSize
<1>1. DictSize \in Nat \ {0} /\ NWarps \in Nat \ {0} /\ i \in Nat /\ i < DictSize
  BY BookAssumption DEF Index
<1>2. i * NWarps \in Nat /\ i * NWarps < DictSize * NWarps
  BY <1>1
<1>3. i * NWarps = DictSize * q + r /\ q \in Int /\ r \in 0 .. DictSize - 1
  BY <1>1, <1>2
<1> HIDE DEF q, r
<1>4. q >= 0
  <2>1. q <= -1 => DictSize * q <= -DictSize
    BY <1>1, <1>3
  <2> QED
    BY <1>1, <1>2, <1>3, <2>1
<1>5. q < NWarps
  <2>1. q >= NWarps => DictSize * q >= DictSize * NWarps
    BY <1>1, <1>3
  <2>2. DictSize * q <= i * NWarps /\ DictSize * q \in Int /\ DictSize * NWarps \in Int
    BY <1>1, <1>2, <1>3
  <2> QED
    BY <1>1, <1>2, <1>3, <2>1, <2>2
<1>6. q \in Warp
  BY <1>1, <1>3, <1>4, <1>5 DEF Warp
<1> QED
  BY <1>6 DEF Threads, q

(* The keys are the order backwards: each quant-code once.                  *)
LEMMA KeysOnce ==
  ASSUME Typed, qcode = Reversed(given.order, DictSize),
         NEW i \in Index, NEW j \in Index, qcode[i] = qcode[j]
  PROVE  i = j
<1>1. DictSize \in Nat /\ given.order \in [Index -> Index] /\ given.order \in Orders
  BY Types
<1>2. \A k \in Index : k < DictSize /\ DictSize - 1 - k \in Index
  BY <1>1 DEF Index
<1>3. \A k \in Index : qcode[k] = given.order[DictSize - 1 - k]
  BY <1>1, <1>2 DEF Reversed
<1>4. DictSize - 1 - i = DictSize - 1 - j
  BY <1>1, <1>2, <1>3, OrderOnce
<1> QED
  BY <1>1, <1>4 DEF Index

(* What a warp reads is what is there.                                      *)
LEMMA FromReadWords ==
  ASSUME Typed, Sources, NEW w \in Warp, ReadWords(w)
  PROVE  Typed' /\ Filling' /\ Sources' /\ (Placed => Placed')
<1>1. /\ phase = "reorder" /\ at[w] = "read"
      /\ at' = [at EXCEPT ![w] = "write"]
      /\ temp' = [temp EXCEPT ![w] = [i \in Threads(w) |-> codebook[i]]]
      /\ UNCHANGED <<phase, builds, given, CL, CCL, CDPI, newCDPI, codebook, first, entry, qcode, raced>>
  BY DEF ReadWords, kernel
<1>2. /\ at \in [Warp -> {"read", "write", "done"}]
      /\ \A v \in Warp : temp[v] \in [Threads(v) -> Code]
      /\ DOMAIN temp = Warp
  BY DEF Typed
<1>3. codebook \in [Index -> Code]
  BY Types
<1>4. [i \in Threads(w) |-> codebook[i]] \in [Threads(w) -> Code]
  BY <1>3 DEF Threads
<1>5. Typed'
  <2>1. TypeOK'
    BY <1>1, Types DEF TypeOK, Code
  <2>2. at' \in [Warp -> {"read", "write", "done"}]
    BY <1>1, <1>2
  <2>3. DOMAIN temp' = Warp /\ \A v \in Warp : temp'[v] \in [Threads(v) -> Code]
    <3>1. ASSUME NEW v \in Warp PROVE temp'[v] \in [Threads(v) -> Code]
      <4>1. CASE v = w
        BY <1>1, <1>2, <1>4, <4>1
      <4>2. CASE v # w
        BY <1>1, <1>2, <4>2
      <4> QED
        BY <4>1, <4>2
    <3> QED
      BY <1>1, <1>2, <3>1
  <2>4. phase' \in Phases
    BY <1>1 DEF Phases
  <2> QED
    BY <2>1, <2>2, <2>3, <2>4 DEF Typed
<1>6. Filling'
  BY <1>1 DEF Filling
<1>7. Sources'
  BY <1>1 DEF Sources, Built, Making
<1>8. size' = size
  BY <1>1, SizeKept
<1>9. ASSUME Placed PROVE Placed'
  <2>1. ASSUME ~raced, NEW v \in Warp PROVE Moving(v)'
    <3>1. Moving(v)
      BY <1>1, <1>9, <2>1 DEF Placed
    <3>2. CASE v = w
      <4>1. at'[v] = "write" /\ temp'[v] = [i \in Threads(v) |-> codebook[i]]
        BY <1>1, <1>2, <3>2
      <4>2. ASSUME NEW k \in Threads(v), k < size
            PROVE  GoodCode(given.len, first, entry, k, temp'[v][k])
        BY <1>1, <3>1, <3>2, <4>1, <4>2 DEF Moving, Good
      <4> QED
        BY <1>1, <1>8, <4>1, <4>2 DEF Moving, Threads, Good
    <3>3. CASE v # w
      <4>1. at'[v] = at[v] /\ temp'[v] = temp[v]
        BY <1>1, <1>2, <3>3
      <4> QED
        BY <1>1, <1>8, <3>1, <4>1 DEF Moving, Threads, Good
    <3> QED
      BY <3>2, <3>3
  <2> QED
    BY <1>1, <1>8, <2>1 DEF Placed, Good, Built
<1> QED
  BY <1>5, <1>6, <1>7, <1>9

(* A warp writes what it has read where the keys say: to different places.  *)
LEMMA FromWriteWords ==
  ASSUME Typed, Sources, NEW w \in Warp, WriteWords(w)
  PROVE  Typed' /\ Filling' /\ Sources' /\ (Placed => Placed')
<1> DEFINE by(k) == CHOOSE i \in Threads(w) : qcode[i] = k
<1>1. /\ phase = "reorder" /\ at[w] = "write"
      /\ at' = [at EXCEPT ![w] = "done"]
      /\ codebook' = [k \in Index |-> IF \E i \in Threads(w) : qcode[i] = k
                                      THEN temp[w][by(k)] ELSE codebook[k]]
      /\ raced' = (raced \/ \E i \in Threads(w) : Unread(qcode[i], w))
      /\ UNCHANGED <<phase, builds, given, CL, CCL, CDPI, newCDPI, first, entry, qcode, temp>>
  BY DEF WriteWords, kernel
<1>2. /\ at \in [Warp -> {"read", "write", "done"}]
      /\ \A v \in Warp : temp[v] \in [Threads(v) -> Code]
      /\ DOMAIN temp = Warp
  BY DEF Typed
<1>3. codebook \in [Index -> Code] /\ qcode \in [Index -> Index]
  BY Types
<1>4. ASSUME NEW k, \E i \in Threads(w) : qcode[i] = k
      PROVE  by(k) \in Threads(w) /\ qcode[by(k)] = k
  BY <1>4
<1> HIDE DEF by
<1>5. codebook' \in [Index -> Code]
  <2>1. ASSUME NEW k \in Index, \E i \in Threads(w) : qcode[i] = k
        PROVE  temp[w][by(k)] \in Code
    <3>1. by(k) \in Threads(w)
      BY <1>4, <2>1
    <3> QED
      BY <1>2, <3>1
  <2> QED
    BY <1>1, <1>3, <2>1
<1>6. Typed'
  <2>1. TypeOK'
    BY <1>1, <1>5, Types DEF TypeOK, Code
  <2>2. at' \in [Warp -> {"read", "write", "done"}]
    BY <1>1, <1>2
  <2>3. phase' \in Phases
    BY <1>1 DEF Phases
  <2> QED
    BY <1>1, <1>2, <2>1, <2>2, <2>3 DEF Typed
<1>7. Filling'
  BY <1>1 DEF Filling
<1>8. Sources'
  BY <1>1 DEF Sources, Built, Making
<1>9. size' = size
  BY <1>1, SizeKept
<1>10. ASSUME Placed, ~raced', NEW v \in Warp PROVE Moving(v)'
  <2>1. Moving(v) /\ ~raced /\ \A i \in Threads(w) : ~Unread(qcode[i], w)
    BY <1>1, <1>10 DEF Placed
  <2>2. qcode = Reversed(given.order, DictSize)
    BY <1>1 DEF Sources
  <2>3. \A k \in Threads(v) : k \in Index /\ qcode[k] \in Index
    BY <1>3 DEF Threads
  <2>4. CASE v = w
    <3>1. at'[v] = "done" /\ at[v] = "write"
      BY <1>1, <1>2, <2>4
    <3>2. ASSUME NEW k \in Threads(v), k < size
          PROVE  GoodCode(given.len, first, entry, k, codebook'[qcode[k]])
      <4>1. \E i \in Threads(w) : qcode[i] = qcode[k]
        BY <2>4, <3>2
      <4>2. by(qcode[k]) = k
        <5>1. by(qcode[k]) \in Threads(w) /\ qcode[by(qcode[k])] = qcode[k]
          BY <1>4, <4>1
        <5>2. by(qcode[k]) \in Index
          BY <5>1 DEF Threads
        <5> QED
          BY <2>2, <2>3, <5>1, <5>2, KeysOnce
      <4>3. codebook'[qcode[k]] = temp[v][k]
        BY <1>1, <2>3, <2>4, <4>1, <4>2
      <4>4. GoodCode(given.len, first, entry, k, temp[v][k])
        BY <2>1, <3>1, <3>2 DEF Moving, Good
      <4> QED
        BY <4>3, <4>4
    <3> QED
      BY <1>1, <1>9, <3>1, <3>2 DEF Moving, Threads, Good
  <2>5. CASE v # w
    <3>1. at'[v] = at[v]
      BY <1>1, <1>2, <2>5
    <3>2. ASSUME NEW k \in Threads(v), k < size
          PROVE  /\ at[v] = "read" => codebook'[k] = codebook[k]
                 /\ at[v] = "done" => codebook'[qcode[k]] = codebook[qcode[k]]
      <4>1. ASSUME at[v] = "read", NEW i \in Threads(w), qcode[i] = k PROVE FALSE
        BY <2>1, <2>5, <4>1 DEF Unread
      <4>2. ASSUME NEW i \in Threads(w), qcode[i] = qcode[k] PROVE FALSE
        <5>1. i \in Index
          BY DEF Threads
        <5>2. i = k
          BY <2>2, <2>3, <4>2, <5>1, KeysOnce
        <5> QED
          BY <2>5, <5>2 DEF Threads
      <4> QED
        BY <1>1, <2>3, <4>1, <4>2
    <3>3. ASSUME NEW k \in Threads(v), k < size
          PROVE  /\ at'[v] = "read"  => GoodCode(given.len, first, entry, k, codebook'[k])
                 /\ at'[v] = "write" => GoodCode(given.len, first, entry, k, temp[v][k])
                 /\ at'[v] = "done"  => GoodCode(given.len, first, entry, k, codebook'[qcode[k]])
      <4>1. /\ at[v] = "read"  => GoodCode(given.len, first, entry, k, codebook[k])
            /\ at[v] = "write" => GoodCode(given.len, first, entry, k, temp[v][k])
            /\ at[v] = "done"  => GoodCode(given.len, first, entry, k, codebook[qcode[k]])
        BY <2>1, <3>3 DEF Moving, Good
      <4> QED
        BY <3>1, <3>2, <3>3, <4>1
    <3> QED
      BY <1>1, <1>9, <3>3 DEF Moving, Threads, Good
  <2> QED
    BY <2>4, <2>5
<1>11. Placed => Placed'
  BY <1>1, <1>10 DEF Placed, Built
<1> QED
  BY <1>6, <1>7, <1>8, <1>11

(* Finish changes nothing of the codebook.                                  *)
LEMMA FromFinish ==
  ASSUME Typed, Sources, Finish
  PROVE  Typed' /\ Filling' /\ Sources' /\ (Placed => Placed')
<1>1. /\ phase = "reorder" /\ phase' = "idle" /\ \A w \in Warp : at[w] = "done"
      /\ UNCHANGED <<builds, given, CL, CCL, CDPI, newCDPI, codebook, first, entry, qcode, at, temp, raced>>
  BY DEF Finish, Goto, kernel
<1>2. phase' \in Phases
  BY <1>1 DEF Phases
<1>3. Typed'
  BY <1>1, <1>2, Types, TypedLoop
<1>4. Filling'
  BY <1>1 DEF Filling
<1>5. Sources'
  BY <1>1 DEF Sources, Built, Making
<1>6. size' = size
  BY <1>1, SizeKept
<1>7. ASSUME Placed PROVE Placed'
  <2>1. ASSUME ~raced, NEW k \in 0 .. size - 1
        PROVE  GoodCode(given.len, first, entry, k, codebook[qcode[k]])
    <3>1. k \in Index /\ k < size
      BY Types DEF Index
    <3>2. PICK w \in Warp : k \in Threads(w)
      BY <3>1, ThreadOfWarp
    <3> QED
      BY <1>1, <1>7, <2>1, <3>1, <3>2 DEF Placed, Moving, Good
  <2> QED
    BY <1>1, <1>6, <2>1 DEF Placed, Good, Built
<1> QED
  BY <1>3, <1>4, <1>5, <1>7
-----------------------------------------------------------------------------
(* The theorems.                                                            *)

(* The buffers are cleared, and there is no codebook yet.                   *)
LEMMA InitInv ==
  ASSUME Init
  PROVE  Typed /\ Sources /\ Filling /\ Placed
<1>1. /\ phase = "idle" /\ builds = 0 /\ given = (CHOOSE g \in Given : TRUE)
      /\ codebook = [k \in Index |-> Word(0)]
      /\ first = [l \in Bits |-> 0] /\ entry = [l \in Bits |-> 0]
      /\ qcode = given.order /\ CCL = 0 /\ CDPI = 0 /\ newCDPI = 0
      /\ at = [w \in Warp |-> "done"]
      /\ temp = [w \in Warp |-> [i \in Threads(w) |-> Word(0)]]
  BY DEF Init
<1>2. given \in Given
  <2>1. PICK L \in Lengths : TRUE
    BY BookAssumption
  <2>2. PICK q \in Orders : TRUE
    BY BookAssumption
  <2>3. [len |-> L, order |-> q] \in Given
    BY DEF Given
  <2> QED
    BY <1>1, <2>3
<1>3. Word(0) \in Code
  BY MaxIs, WordBits DEF Word, Code
<1>4. DictSize \in Nat \ {0} /\ MaxBuilds \in Nat
  BY BookAssumption
<1>5. 0 \in Bits /\ 0 \in Index /\ 0 \in 0 .. MaxBuilds /\ 0 \in 0 .. MAX /\ 0 \in 0 .. DictSize
  BY <1>4, MaxIs, WordBits DEF Bits, Index
<1>6. qcode \in [Index -> Index]
  BY <1>1, <1>2, SizeBounds
<1>7. TypeOK
  BY <1>1, <1>2, <1>3, <1>5, <1>6 DEF TypeOK, Code
<1>8. Typed
  BY <1>1, <1>3, <1>7 DEF Typed, Phases
<1>9. Filling
  BY <1>1 DEF Filling
<1>10. Sources
  <2>1. ~Built
    BY <1>1 DEF Built
  <2> QED
    BY <1>1, <2>1 DEF Sources, Making
<1>11. Placed
  BY <1>1 DEF Placed, Built
<1> QED
  BY <1>8, <1>9, <1>10, <1>11

(* Every step of the loop, and of the reversals.                            *)
LEMMA NextInv ==
  ASSUME Typed, Sources, Filling, [Next]_vars
  PROVE  /\ Typed' /\ Sources' /\ Filling'
         /\ Placed => Placed'
<1> DEFINE Goal == /\ Typed' /\ Sources' /\ Filling'
                   /\ Placed => Placed'
<1>0. SUFFICES Goal
  OBVIOUS
<1>1. CASE BuildBook
  BY <1>1, FromBuildBook
<1>2. CASE ReverseLengths
  BY <1>2, FromReverseLengths
<1>3. CASE Start
  <2>1. UNCHANGED <<given, qcode>> /\ CL' = CL /\ phase \in Making /\ phase' \in Making \cup {"unreverse"}
        /\ phase' # "unreverse"
    BY <1>3 DEF Start, Goto, Making
  <2> QED
    BY <1>3, <2>1, FromStart, SourcesLoop
<1>4. CASE Clear
  <2>1. UNCHANGED <<given, qcode>> /\ CL' = CL /\ phase \in Making /\ phase' \in Making \cup {"unreverse"}
        /\ phase' # "unreverse"
    BY <1>4 DEF Clear, Goto, Making, kernel
  <2> QED
    BY <1>4, <2>1, FromClear, SourcesLoop
<1>5. CASE FindLast
  <2>1. UNCHANGED <<given, qcode>> /\ CL' = CL /\ phase \in Making /\ phase' \in Making \cup {"unreverse"}
        /\ phase' # "unreverse"
    BY <1>5 DEF FindLast, Goto, Making
  <2> QED
    BY <1>5, <2>1, FromFindLast, SourcesLoop
<1>6. CASE FirstWord
  <2>1. UNCHANGED <<given, qcode>> /\ CL' = CL /\ phase \in Making /\ phase' \in Making \cup {"unreverse"}
        /\ phase' # "unreverse"
    BY <1>6 DEF FirstWord, Goto, Making, kernel
  <2> QED
    BY <1>6, <2>1, FromFirstWord, SourcesLoop
<1>7. CASE Words
  <2>1. UNCHANGED <<given, qcode>> /\ CL' = CL /\ phase \in Making /\ phase' \in Making \cup {"unreverse"}
        /\ phase' # "unreverse"
    BY <1>7 DEF Words, Goto, Making, kernel
  <2> QED
    BY <1>7, <2>1, FromWords, SourcesLoop
<1>8. CASE FirstOfLength
  <2>1. UNCHANGED <<given, qcode>> /\ CL' = CL /\ phase \in Making /\ phase' \in Making \cup {"unreverse"}
        /\ phase' # "unreverse"
    BY <1>8 DEF FirstOfLength, Goto, Making, kernel
  <2> QED
    BY <1>8, <2>1, FromFirstOfLength, SourcesLoop
<1>9. CASE NextLength
  <2>1. UNCHANGED <<given, qcode>> /\ CL' = CL /\ phase \in Making /\ phase' \in Making \cup {"unreverse"}
        /\ phase' # "unreverse"
    BY <1>9 DEF NextLength, Goto, Making
  <2> QED
    BY <1>9, <2>1, FromNextLength, SourcesLoop
<1>10. CASE Pack
  <2>1. UNCHANGED <<given, qcode, first, entry>> /\ CL' = CL /\ phase \in Making
        /\ phase' = "unreverse" /\ phase' \in Making \cup {"unreverse"}
    BY <1>10 DEF Pack, Goto, Making, kernel
  <2>2. Typed' /\ \A k \in 0 .. size - 1 : Good(k, codebook'[off + k])
    BY <1>10, FromPack
  <2>3. Sources'
    BY <2>1, SourcesLoop
  <2>4. Filling'
    BY <2>1 DEF Filling
  <2>5. size' = size /\ off' = off
    BY <2>1, SizeKept
  <2>6. Placed'
    BY <2>1, <2>2, <2>5 DEF Placed, Good, Built
  <2> QED
    BY <2>2, <2>3, <2>4, <2>6
<1>11. CASE ReversePartial
  BY <1>11, FromReversePartial
<1>12. CASE ReverseArrays
  BY <1>12, FromReverseArrays
<1>13. ASSUME NEW w \in Warp, ReadWords(w) PROVE Goal
  BY <1>13, FromReadWords
<1>14. ASSUME NEW w \in Warp, WriteWords(w) PROVE Goal
  BY <1>14, FromWriteWords
<1>15. CASE Finish
  BY <1>15, FromFinish
<1>16. CASE UNCHANGED vars
  <2>1. UNCHANGED <<phase, builds, given, CL, CCL, CDPI, newCDPI, codebook, first, entry, qcode, at, temp, raced>>
    BY <1>16 DEF vars, kernel
  <2>2. Typed'
    BY <2>1, Zenon DEF Typed, TypeOK, Code
  <2>3. size' = size /\ off' = off /\ words' = words /\ Built' = Built
    BY <2>1, SizeKept DEF Built
  <2>4. Sources'
    BY <2>1, <2>3 DEF Sources
  <2>5. Behind' = Behind /\ Through' = Through /\ Follows' = Follows
    BY <2>1, <2>3 DEF Behind, Through, Follows
  <2>6. Ready' = Ready
    BY <2>1, <2>3, <2>5 DEF Ready, CW
  <2>7. Filling'
    BY <2>1, <2>3, <2>5, <2>6 DEF Filling, CW
  <2>8. Placed => Placed'
    BY <2>1, <2>3 DEF Placed, Moving, Good
  <2> QED
    BY <2>2, <2>4, <2>7, <2>8
<1> HIDE DEF Goal
<1> QED
  BY <1>1, <1>2, <1>3, <1>4, <1>5, <1>6, <1>7, <1>8, <1>9, <1>10, <1>11, <1>12, <1>13, <1>14,
     <1>15, <1>16, Zenon DEF Next

(* However many warps reorder the codebook, every codeword fits into the    *)
(* word it is kept in, every length is one that first and entry have, and   *)
(* every place in keys is a place in keys.                                  *)
THEOREM FitsItsWord == Spec => []TypeOK
<1> DEFINE I == Typed /\ Sources /\ Filling
<1>1. Init => I
  BY InitInv
<1>2. I /\ [Next]_vars => I'
  BY NextInv
<1>3. I => TypeOK
  BY DEF Typed
<1> QED
  BY <1>1, <1>2, <1>3, PTL DEF Spec

(* The whole invariant.                                                     *)
LEMMA BuiltInv == Spec => [](Typed /\ Sources /\ Filling /\ Placed)
<1> DEFINE I == Typed /\ Sources /\ Filling /\ Placed
<1>1. Init => I
  BY InitInv
<1>2. I /\ [Next]_vars => I'
  BY NextInv
<1> QED
  BY <1>1, <1>2, PTL DEF Spec

(* However many warps reorder it, a codebook that is built gives every      *)
(* quant-code the length that was made for its frequency, unless a warp has *)
(* written a place before the one that was to read it.                      *)
THEOREM EachItsLength == Spec => []LengthsAssigned
<1>1. ASSUME Typed, Sources, Placed PROVE LengthsAssigned
  <2> DEFINE L == given.len
             n == size
  <2>1. ASSUME Built, ~raced, NEW i \in 0 .. n - 1 PROVE codebook[given.order[off + i]].bits = L[i]
    <3> DEFINE k == n - 1 - i
    <3>1. /\ n \in Nat /\ off \in Nat /\ off + n = DictSize /\ DictSize \in Nat /\ given \in Given
          /\ given.order \in [Index -> Index]
      BY <1>1, Types
    <3>2. L \in Lengths /\ Count(L) = n
      BY <3>1, SizeBounds DEF size
    <3>3. k \in 0 .. n - 1 /\ n - 1 - k = i /\ k \in Index /\ k < DictSize /\ DictSize - 1 - k = off + i
      BY <3>1 DEF Index
    <3>4. qcode[k] = given.order[off + i]
      <4>1. qcode = Reversed(given.order, DictSize)
        BY <1>1, <2>1 DEF Sources
      <4> HIDE DEF k
      <4> QED
        BY <3>1, <3>3, <4>1 DEF Reversed
    <3>5. Good(k, codebook[qcode[k]])
      BY <1>1, <2>1, <3>3 DEF Placed
    <3>6. Asc(L)[k] = L[i]
      <4>1. Asc(L)[k] = L[Count(L) - 1 - k]
        BY <3>2, <3>3, AscIs
      <4> QED
        BY <3>2, <3>3, <4>1
    <3> QED
      BY <3>4, <3>5, <3>6 DEF Good, GoodCode
  <2> QED
    BY <2>1 DEF LengthsAssigned
<1> QED
  BY <1>1, BuiltInv, PTL

(* A decoder with first, entry and the keys reads every codeword of a       *)
(* codebook that is built back as its quant-code, and takes no more and no  *)
(* fewer bits than it has, whatever bits follow, unless the warps that      *)
(* reordered it have raced.                                                 *)
THEOREM ReadsBack == Spec => []Decodable
<1>1. ASSUME Typed, Sources, Placed PROVE Decodable
  <2>1. ASSUME Built, ~raced, NEW k \in 0 .. size - 1, NEW v \in 0 .. pow2[Long] - 1,
               Taken(v, codebook[qcode[k]].bits) = codebook[qcode[k]].word
        PROVE  /\ Stops(v) # {}
               /\ Inflated(v) = [key |-> qcode[k], bits |-> codebook[qcode[k]].bits]
    <3> DEFINE c == codebook[qcode[k]]
               l == Min(Stops(v))
    <3>1. Good(k, c)
      BY <1>1, <2>1 DEF Placed
    <3>2. k \in Index
      BY <1>1, Types DEF Index
    <3>3. Stops(v) = Halts(first, v)
      BY DEF Stops, Halts
    <3>4. /\ Stops(v) # {} /\ l = c.bits
          /\ entry[c.bits] + Taken(v, c.bits) - first[c.bits] = k
      BY <2>1, <3>1, <3>3 DEF Good, GoodCode
    <3> HIDE DEF l
    <3>5. entry[l] + Taken(v, l) - first[l] = k
      BY <3>4
    <3>6. Inflated(v) = [key |-> qcode[k], bits |-> l]
      BY <3>2, <3>5 DEF Inflated, l
    <3> QED
      BY <3>4, <3>6
  <2> QED
    BY <2>1 DEF Decodable
<1> QED
  BY <1>1, BuiltInv, PTL
===============================================================================
