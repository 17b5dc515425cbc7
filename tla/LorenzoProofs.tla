----------------------------- MODULE LorenzoProofs -----------------------------
(***************************************************************************)
(* Theorems about Lorenzo and Predicted: the library's own kernels of one  *)
(* dimension, v0_c_1d and v0_x_1d, on any row; the histogram of the codes; *)
(* and, first, about the zigzag codes of PN, of any width.                 *)
(*                                                                         *)
(* The row, its length, the sizes of a block, of a thread's chunk in       *)
(* either kernel and of a warp, the radius and the error bound are any     *)
(* that LorenzoAssumption allows; warps run in any order between barriers. *)
(*                                                                         *)
(* The proof goes by offsets: x is a cell of the block that runs, its      *)
(* stripe is of the warp that loads and stores it, its chunk of the warp   *)
(* that computes it.  RowInv says what has become of a cell at the stages  *)
(* that these two warps are at; there is a lemma for each stage.           *)
(***************************************************************************)
EXTENDS Predicted, NatLemmas, FiniteSetTheorems, TLAPS

-----------------------------------------------------------------------------
(* Zigzag codes, of the pn kernels.                                         *)

\* The code of every integer is a code of w bits, and decodes to it: delta-only
\* and zigzag kernels lose nothing of a difference that fits w bits.
THEOREM RoundTripPN == \A x \in I : encode(x) \in UI /\ decode(encode(x)) = x
  <1> SUFFICES ASSUME NEW x \in I PROVE encode(x) \in UI /\ decode(encode(x)) = x
    OBVIOUS
  <1>0. Half \in Int /\ x \in Int /\ -Half <= x /\ x <= Half - 1
    BY HalfAssumption DEF I
  <1>1. CASE x >= 0
    <2>1. encode(x) = 2 * x
      BY <1>0, <1>1 DEF encode, ToUI
    <2>2. (2 * x) % 2 = 0 /\ (2 * x) \div 2 = x
      BY <1>0, <1>1
    <2>3. QED
      BY <1>0, <1>1, <2>1, <2>2 DEF decode, UI
  <1>2. CASE x < 0
    <2>1. encode(x) = -(2 * x) - 1
      BY <1>0, <1>2 DEF encode, ToUI
    <2>2. (-(2 * x) - 1) % 2 = 1 /\ (-(2 * x) - 1) \div 2 = -x - 1
      BY <1>0, <1>2
    <2>3. QED
      BY <1>0, <1>2, <2>1, <2>2 DEF decode, UI
  <1>3. QED
    BY <1>0, <1>1, <1>2

\* No two integers share a code.
THEOREM InjectivePN == \A x, y \in I : encode(x) = encode(y) => x = y
  BY RoundTripPN

-----------------------------------------------------------------------------
(* Values and sums.                                                         *)

\* What nobody wrote is not a number.
LEMMA UndefApart == Undef \notin Int /\ Value = Int \cup {Undef}
BY LorenzoAssumption DEF Value

\* Numbers add and subtract as numbers.
LEMMA IntSum ==
  ASSUME NEW a \in Int, NEW b \in Int
  PROVE  Plus(a, b) = a + b /\ Minus(a, b) = a - b
<1>1. Undef \notin {a, b}
  BY UndefApart
<1> QED
  BY <1>1 DEF Plus, Minus

\* Values add and subtract to values.
LEMMA ValueSum ==
  ASSUME NEW a \in Value, NEW b \in Value
  PROVE  Plus(a, b) \in Value /\ Minus(a, b) \in Value
<1>1. CASE Undef \in {a, b}
  BY <1>1, UndefApart DEF Plus, Minus
<1>2. CASE Undef \notin {a, b}
  <2>1. a \in Int /\ b \in Int
    BY <1>2, UndefApart
  <2>2. a + b \in Int /\ a - b \in Int
    BY <2>1
  <2> QED
    BY <2>1, <2>2, IntSum, UndefApart
<1> QED
  BY <1>1, <1>2

\* h adds up g.
Adds(h, n, g) == h \in [0 .. n -> Value] /\ h[0] = 0 /\ \A k \in 1 .. n : h[k] = Plus(h[k - 1], g[k])

(* A sequence of values can be added up.                                    *)
LEMMA SumsExist ==
  ASSUME NEW n \in Nat, NEW g, \A k \in 1 .. n : g[k] \in Value
  PROVE  \E h : Adds(h, n, g)
<1> DEFINE S == {m \in 0 .. n : ~(\E h : Adds(h, m, g))}
<1>1. SUFFICES ASSUME S # {} PROVE FALSE
  <2>1. n \in 0 .. n
    OBVIOUS
  <2> QED
    BY <2>1, Zenon
<1>2. S \in SUBSET Nat
  <2>1. \A m \in S : m \in Nat
    BY DEF S
  <2> HIDE DEF S
  <2> QED
    BY <2>1
<1> HIDE DEF S
<1>3. PICK m \in S : \A k \in S : m <= k
  BY <1>1, <1>2, Least
<1>4. m \in 0 .. n /\ m \in Nat /\ ~(\E h : Adds(h, m, g))
  BY <1>3 DEF S
<1>5. m # 0
  <2>1. ASSUME m = 0 PROVE Adds([k \in 0 .. m |-> 0], m, g)
    <3>1. 0 \in Value
      BY UndefApart
    <3> QED
      BY <2>1, <3>1 DEF Adds
  <2> QED
    BY <1>4, <2>1
<1>6. m - 1 \in 0 .. n /\ m - 1 \notin S
  BY <1>3, <1>4, <1>5
<1>7. PICK f : Adds(f, m - 1, g)
  BY <1>6 DEF S
<1>8. f \in [0 .. m - 1 -> Value] /\ f[0] = 0 /\ \A k \in 1 .. m - 1 : f[k] = Plus(f[k - 1], g[k])
  BY <1>7 DEF Adds
<1> DEFINE last == Plus(f[m - 1], g[m])
           h == [k \in 0 .. m |-> IF k = m THEN last ELSE f[k]]
<1>9. last \in Value
  <2>1. f[m - 1] \in Value /\ g[m] \in Value
    BY <1>4, <1>5, <1>8
  <2> QED
    BY <2>1, ValueSum
<1>10. h \in [0 .. m -> Value] /\ h[0] = 0
  <2> HIDE DEF last
  <2>1. ASSUME NEW k \in 0 .. m, k # m PROVE f[k] \in Value
    <3>1. k \in 0 .. m - 1
      BY <1>4, <2>1
    <3> QED
      BY <1>8, <3>1
  <2>2. \A k \in 0 .. m : (IF k = m THEN last ELSE f[k]) \in Value
    BY <1>9, <2>1
  <2> QED
    BY <1>4, <1>5, <1>8, <2>2
<1>11. ASSUME NEW k \in 1 .. m PROVE h[k] = Plus(h[k - 1], g[k])
  <2>1. k \in 0 .. m /\ k - 1 \in 0 .. m /\ k - 1 # m /\ h[k - 1] = f[k - 1]
    BY <1>4, <1>11
  <2>2. CASE k = m
    BY <2>1, <2>2
  <2>3. CASE k # m
    <3>1. k \in 1 .. m - 1 /\ h[k] = f[k]
      BY <1>4, <1>11, <2>1, <2>3
    <3> QED
      BY <1>8, <2>1, <3>1
  <2> QED
    BY <2>2, <2>3
<1>12. Adds(h, m, g)
  BY <1>10, <1>11 DEF Adds
<1> QED
  BY <1>4, <1>12

(* What adds up differences of F is a difference of F.                      *)
LEMMA Telescopes ==
  ASSUME NEW n \in Nat, NEW g, NEW h, Adds(h, n, g), NEW m \in 0 .. n, NEW F, \A k \in 0 .. m : F[k] \in Int,
         \A k \in 1 .. m : g[k] = F[k] - F[k - 1]
  PROVE  h[m] = F[m] - F[0]
<1> DEFINE S == {k \in 0 .. m : h[k] # F[k] - F[0]}
<1>1. SUFFICES ASSUME S # {} PROVE FALSE
  <2>1. m \in 0 .. m
    OBVIOUS
  <2> QED
    BY <2>1
<1>2. S \in SUBSET Nat
  OBVIOUS
<1> HIDE DEF S
<1>3. PICK k \in S : \A j \in S : k <= j
  BY <1>1, <1>2, Least
<1>4. k \in 0 .. m /\ h[k] # F[k] - F[0]
  BY <1>3 DEF S
<1>5. k # 0
  <2>1. h[0] = 0 /\ F[0] \in Int
    BY DEF Adds
  <2> QED
    BY <1>4, <2>1
<1>6. k \in 1 .. m /\ k \in 1 .. n /\ k - 1 \in 0 .. m
  BY <1>4, <1>5
<1>7. h[k - 1] = F[k - 1] - F[0]
  <2>1. k - 1 \notin S
    BY <1>3, <1>6
  <2> QED
    BY <1>6, <2>1 DEF S
<1>8. h[k] = Plus(h[k - 1], g[k])
  BY <1>6 DEF Adds
<1>9. F[k] \in Int /\ F[k - 1] \in Int /\ F[0] \in Int
  BY <1>6
<1>10. g[k] = F[k] - F[k - 1]
  BY <1>6
<1>11. h[k - 1] \in Int /\ g[k] \in Int
  BY <1>7, <1>9, <1>10
<1>12. h[k] = h[k - 1] + g[k]
  BY <1>8, <1>11, IntSum
<1> QED
  BY <1>4, <1>7, <1>9, <1>10, <1>12

\* The product facts that the indices need.
LEMMA Products ==
  ASSUME NEW a \in Nat, NEW b \in Nat
  PROVE  a * b \in Nat /\ a * b = b * a /\ (a + 1) * b = a * b + b
OBVIOUS

-----------------------------------------------------------------------------
(* A block on a row: its threads, warps and cells.                          *)

NT(s)       == BLOCK1 \div s                          \* threads, of s cells each
OfWarp(s)   == 0 .. (NT(s) - 1) \div WARP
OfThread(s) == 0 .. NT(s) - 1
Offsets     == 0 .. BLOCK1 - 1
C(x)        == <<x, 0, 0>>
StripeWarp(s, x) == (x % NT(s)) \div WARP             \* whose stripe and whose chunk x is in
ChunkWarp(s, x)  == (x \div s) \div WARP
Fit(s) == s \in Nat \ {0} /\ NT(s) \in Nat \ {0} /\ NT(s) * s = BLOCK1

(* Quotients keep order.                                                    *)
LEMMA QuotientOrder ==
  ASSUME NEW d \in Nat \ {0}, NEW m \in Nat, NEW n \in Nat, m <= n
  PROVE  m \div d <= n \div d
<1> DEFINE p == m \div d
           q == n \div d
<1>1. p \in Nat /\ q \in Nat /\ \E r, u \in 0 .. d - 1 : m = p * d + r /\ n = q * d + u
  BY Division
<1> HIDE DEF p, q
<1>2. PICK r \in 0 .. d - 1, u \in 0 .. d - 1 : m = p * d + r /\ n = q * d + u
  BY <1>1
<1>3. ASSUME q < p PROVE FALSE
  <2>1. q * d + d <= p * d /\ p * d \in Nat /\ q * d \in Nat
    BY <1>1, <1>3, ProductOrder
  <2> QED
    BY <1>2, <2>1
<1>4. p <= q
  BY <1>1, <1>3
<1> QED
  BY <1>4 DEF p, q

\* The sizes of the launch are positive.
LEMMA Positive == {WARP, BLOCK1, SEQ, XSEQ, RADIUS} \subseteq Nat \ {0}
BY LorenzoAssumption

\* A block is cut into threads of s cells, if s divides it.
LEMMA Fits1 ==
  ASSUME NEW s \in Nat \ {0}, BLOCK1 % s = 0
  PROVE  Fit(s)
<1>1. BLOCK1 \in Nat /\ BLOCK1 > 0
  BY Positive
<1>2. BLOCK1 \div s \in Nat /\ BLOCK1 = (BLOCK1 \div s) * s + 0
  BY <1>1, Division
<1>3. (BLOCK1 \div s) * s = BLOCK1
  <2> DEFINE q == BLOCK1 \div s
  <2>1. q \in Nat /\ BLOCK1 = q * s + 0
    BY <1>2
  <2> HIDE DEF q
  <2>2. q * s \in Nat
    BY <2>1
  <2>3. q * s = BLOCK1
    BY <2>1, <2>2
  <2> QED
    BY <2>3 DEF q
<1>4. BLOCK1 \div s # 0
  BY <1>1, <1>3
<1> QED
  BY <1>2, <1>3, <1>4 DEF Fit, NT

\* Either kernel cuts it so.
LEMMA BothFit == Fit(SEQ) /\ Fit(XSEQ)
BY Fits1, LorenzoAssumption

\* An offset is one cell of one thread, and in the stripe of one.
LEMMA Offset ==
  ASSUME NEW s, Fit(s), NEW x \in Offsets
  PROVE  /\ x \in Nat
         /\ x \div s \in OfThread(s) /\ x % s \in 0 .. s - 1 /\ x = (x \div s) * s + (x % s)
         /\ x % NT(s) \in OfThread(s) /\ x \div NT(s) \in 0 .. s - 1 /\ x = (x \div NT(s)) * NT(s) + (x % NT(s))
         /\ StripeWarp(s, x) \in OfWarp(s) /\ ChunkWarp(s, x) \in OfWarp(s)
<1> DEFINE m == NT(s)
<1>1. s \in Nat /\ s > 0 /\ m \in Nat /\ m > 0 /\ m * s = BLOCK1 /\ x \in Nat /\ x < BLOCK1 /\ WARP \in Nat \ {0}
  BY Positive DEF Fit, Offsets
<1> HIDE DEF m
<1>2. x \div s \in Nat /\ x % s \in 0 .. s - 1 /\ x = (x \div s) * s + (x % s)
  BY <1>1, Division
<1>3. x \div m \in Nat /\ x % m \in 0 .. m - 1 /\ x = (x \div m) * m + (x % m)
  <2>1. m \in Nat \ {0} /\ x \in Nat
    BY <1>1
  <2> QED
    BY <2>1, Division
<1>4. x \div s < m
  <2> DEFINE q == x \div s
             r == x % s
  <2>1. q \in Nat /\ r \in Nat /\ x = q * s + r
    BY <1>1, <1>2
  <2> HIDE DEF q, r
  <2>2. q * s \in Nat /\ q * s < m * s
    BY <1>1, <2>1
  <2>3. q < m
    BY <1>1, <2>1, <2>2, ProductOrder
  <2> QED
    BY <2>3 DEF q
<1>5. x \div m < s
  <2> DEFINE q == x \div m
             r == x % m
  <2>1. q \in Nat /\ r \in Nat /\ x = q * m + r
    BY <1>1, <1>3
  <2> HIDE DEF q, r
  <2>2. q * m \in Nat /\ q * m < s * m
    BY <1>1, <2>1
  <2>3. q < s
    BY <1>1, <2>1, <2>2, ProductOrder
  <2> QED
    BY <2>3 DEF q
<1>6. x \div s \in 0 .. m - 1 /\ x \div m \in 0 .. s - 1
  BY <1>1, <1>2, <1>3, <1>4, <1>5
<1>7. \A t \in 0 .. m - 1 : t \div WARP \in 0 .. (m - 1) \div WARP
  <2>1. ASSUME NEW t \in 0 .. m - 1 PROVE t \div WARP \in 0 .. (m - 1) \div WARP
    <3>1. t \in Nat /\ m - 1 \in Nat /\ t <= m - 1
      BY <1>1
    <3>2. t \div WARP \in Nat /\ (m - 1) \div WARP \in Nat
      BY <1>1, <3>1, Division
    <3>3. t \div WARP <= (m - 1) \div WARP
      BY <1>1, <3>1, QuotientOrder
    <3> QED
      BY <3>2, <3>3
  <2> QED
    BY <2>1
<1> QED
  BY <1>1, <1>2, <1>3, <1>6, <1>7 DEF OfThread, OfWarp, StripeWarp, ChunkWarp, m

-----------------------------------------------------------------------------
\* A field of one dimension, and how many blocks cover it.
IsRow(f) == /\ DOMAIN f.len3 = 1 .. 3 /\ f.len3[1] \in Nat \ {0} /\ f.len3[2] = 1 /\ f.len3[3] = 1
            /\ f.data \in [0 .. f.len3[1] - 1 -> Int]
Length   == field.len3[1]
Grid     == (Length - 1) \div BLOCK1 + 1
RowKernel(k, s) ==
  /\ k.threads = <<NT(s), 1, 1>> /\ k.chunk = <<s, 1, 1>> /\ k.lanes = WARP
  /\ k.stride = NT(s) /\ k.room = BLOCK1

\* The launch on a row: a grid of one dimension that covers the row.
LEMMA GridIs ==
  ASSUME IsRow(field), NEW k, NEW s, Fit(s), RowKernel(k, s)
  PROVE  /\ sublen(k) = <<BLOCK1, 1, 1>>
         /\ grid(k)[1] = Grid /\ grid(k)[2] = 1 /\ grid(k)[3] = 1 /\ NBlock(k) = Grid
         /\ Grid \in Nat \ {0} /\ Length <= Grid * BLOCK1 /\ Length \in Nat \ {0}
<1>1. BLOCK1 \in Nat \ {0} /\ NT(s) * s = BLOCK1 /\ NT(s) \in Nat /\ s \in Nat /\ Length \in Nat \ {0}
  BY Positive DEF Fit, IsRow, Length
<1>2. k.threads[1] * k.chunk[1] = BLOCK1 /\ k.threads[2] * k.chunk[2] = 1 /\ k.threads[3] * k.chunk[3] = 1
  BY <1>1 DEF RowKernel
<1>3. sublen(k) = [d \in 1 .. 3 |-> k.threads[d] * k.chunk[d]]
  BY DEF sublen
<1>4. sublen(k)[1] = BLOCK1 /\ sublen(k)[2] = 1 /\ sublen(k)[3] = 1
  BY <1>2, <1>3
<1>5. sublen(k) = <<BLOCK1, 1, 1>>
  BY <1>3, <1>4
<1>6. grid(k)[1] = (len3[1] - 1) \div sublen(k)[1] + 1 /\ grid(k)[2] = (len3[2] - 1) \div sublen(k)[2] + 1
        /\ grid(k)[3] = (len3[3] - 1) \div sublen(k)[3] + 1
  BY DEF grid
<1>7. len3[1] = Length /\ len3[2] = 1 /\ len3[3] = 1
  BY DEF IsRow, len3, Length
<1>8. (1 - 1) \div 1 + 1 = 1
  OBVIOUS
<1>9. grid(k)[1] = Grid /\ grid(k)[2] = 1 /\ grid(k)[3] = 1
  BY <1>4, <1>6, <1>7, <1>8 DEF Grid
<1>10. Grid \in Nat \ {0} /\ Length <= Grid * BLOCK1
  <2> DEFINE q == (Length - 1) \div BLOCK1
             r == (Length - 1) % BLOCK1
  <2>1. Length - 1 \in Nat
    BY <1>1
  <2>2. q \in Nat /\ r \in 0 .. BLOCK1 - 1 /\ Length - 1 = q * BLOCK1 + r
    BY <1>1, <2>1, Division
  <2> HIDE DEF q, r
  <2>3. (q + 1) * BLOCK1 = q * BLOCK1 + BLOCK1 /\ q * BLOCK1 \in Nat
    BY <1>1, <2>2
  <2>4. q + 1 \in Nat \ {0} /\ Length <= (q + 1) * BLOCK1
    BY <1>1, <2>2, <2>3
  <2> QED
    BY <2>4 DEF q, Grid
<1>11. NBlock(k) = Grid
  <2>1. Grid * 1 * 1 = Grid
    BY <1>10
  <2> QED
    BY <1>9, <2>1 DEF NBlock
<1> QED
  BY <1>1, <1>5, <1>9, <1>10, <1>11

\* A kernel runs on a row in blocks of s cells to a thread.
RunsRow(s) == IsRow(field) /\ Fit(s) /\ RowKernel(Running, s) /\ block \in 0 .. Grid - 1
Here       == BLOCK1 * block
Inside(x)  == Here + x < Length

\* The block that runs begins at a multiple of its size.
LEMMA HereIs ==
  ASSUME NEW s, RunsRow(s)
  PROVE  /\ Base(Running, block) = <<Here, 0, 0>> /\ Here \in Nat /\ Length \in Nat \ {0} /\ Here < Length
         /\ block + 1 = Grid => Length <= Here + BLOCK1
<1> DEFINE k == Running
           g == grid(k)
           n == [sublen(k) EXCEPT ![1] = k.room]
<1>0. k = Running
  OBVIOUS
<1> HIDE DEF k
<1>1. IsRow(field) /\ Fit(s) /\ RowKernel(k, s) /\ block \in 0 .. Grid - 1
  BY <1>0 DEF RunsRow
<1>2. sublen(k) = <<BLOCK1, 1, 1>> /\ g[1] = Grid /\ g[2] = 1 /\ Grid \in Nat \ {0} /\ Length <= Grid * BLOCK1 /\ Length \in Nat \ {0}
  BY <1>1, GridIs
<1>3. BLOCK1 \in Nat \ {0} /\ block \in Nat /\ block < Grid
  BY <1>1, <1>2, Positive
<1>4. n[1] = BLOCK1 /\ n[2] = 1 /\ n[3] = 1
  BY <1>1, <1>2 DEF RowKernel
<1>5. block % Grid = block /\ block \div Grid = 0
  <2>1. block \in 0 .. Grid - 1 /\ 0 * Grid + block = block
    BY <1>2, <1>3
  <2>2. 0 \in Nat
    OBVIOUS
  <2>3. (0 * Grid + block) \div Grid = 0 /\ (0 * Grid + block) % Grid = block
    BY <1>2, <2>1, <2>2, DivisionUnique
  <2> QED
    BY <2>1, <2>3
<1>6. 0 % 1 = 0 /\ Grid * 1 = Grid
  BY <1>2
<1>7. Base(k, block) = <<n[1] * (block % g[1]), n[2] * ((block \div g[1]) % g[2]), n[3] * (block \div (g[1] * g[2]))>>
  BY DEF Base
<1> HIDE DEF n, g
<1>8. Base(k, block) = <<BLOCK1 * block, 1 * 0, 1 * 0>>
  BY <1>2, <1>4, <1>5, <1>6, <1>7
<1>9. Base(k, block) = <<Here, 0, 0>>
  BY <1>8 DEF Here
<1>10. Here \in Nat /\ Here < Length
  <2> DEFINE q == (Length - 1) \div BLOCK1
             r == (Length - 1) % BLOCK1
  <2>1. Length - 1 \in Nat
    BY <1>2
  <2>2. q \in Nat /\ r \in 0 .. BLOCK1 - 1 /\ Length - 1 = q * BLOCK1 + r
    BY <1>3, <2>1, Division
  <2>3. block <= q
    BY <1>3, <2>2 DEF Grid
  <2> HIDE DEF q, r
  <2>4. block * BLOCK1 <= q * BLOCK1 /\ block * BLOCK1 \in Nat
    <3>1. CASE block = q
      BY <1>3, <3>1, Products
    <3>2. CASE block < q
      BY <1>3, <2>2, <3>2, ProductOrder
    <3> QED
      BY <1>3, <2>2, <2>3, <3>1, <3>2
  <2>5. BLOCK1 * block = block * BLOCK1
    BY <1>3, Products
  <2>6. q * BLOCK1 \in Nat
    BY <1>3, <2>2, Products
  <2>7. BLOCK1 * block \in Nat /\ BLOCK1 * block < Length
    <3> DEFINE a == q * BLOCK1
               b == block * BLOCK1
    <3>1. b <= a /\ b \in Nat /\ a \in Nat /\ Length - 1 = a + r /\ r \in 0 .. BLOCK1 - 1 /\ Length \in Nat
      BY <1>2, <2>2, <2>4, <2>6
    <3> HIDE DEF a, b
    <3>2. b < Length
      BY <3>1
    <3> QED
      BY <2>5, <3>1, <3>2 DEF b
  <2> QED
    BY <2>7 DEF Here
<1>11. block + 1 = Grid => Length <= Here + BLOCK1
  <2>1. (block + 1) * BLOCK1 = BLOCK1 * block + BLOCK1
    BY <1>3, Products
  <2> QED
    BY <1>2, <2>1 DEF Here
<1> QED
  BY <1>0, <1>2, <1>9, <1>10, <1>11

\* Where an offset's cell is in the row, and whether it is inside.
LEMMA CellAt ==
  ASSUME NEW s, RunsRow(s), NEW x \in Nat
  PROVE  (InRange(C(x)) <=> Inside(x)) /\ Id(C(x)) = Here + x
<1>1. Base(Running, block) = <<Here, 0, 0>> /\ Here \in Nat /\ Length \in Nat
  BY HereIs
<1>2. Global(C(x))[1] = Here + x /\ Global(C(x))[2] = 0 /\ Global(C(x))[3] = 0
  BY <1>1 DEF Global, C
<1>3. len3[1] = Length /\ len3[2] = 1 /\ len3[3] = 1
  BY DEF RunsRow, IsRow, len3, Length
<1>4. InRange(C(x)) <=> Inside(x)
  <2>1. InRange(C(x)) <=> Global(C(x))[1] < len3[1] /\ Global(C(x))[2] < len3[2] /\ Global(C(x))[3] < len3[3]
    BY DEF InRange
  <2> QED
    BY <1>2, <1>3, <2>1 DEF Inside
<1>5. Id(C(x)) = (Here + x) + 0 * Length + 0 * Length * 1
  BY <1>2, <1>3 DEF Id, Id3
<1>6. (Here + x) + 0 * Length + 0 * Length * 1 = Here + x
  BY <1>1
<1> QED
  BY <1>4, <1>5, <1>6

(* The threads of a warp have a stripe and a chunk of the block's cells.    *)
Chunks(s, w)  == {x \in Offsets : ChunkWarp(s, x) = w}
Stripes(s, w) == {x \in Offsets : StripeWarp(s, x) = w}

\* The threads and warps of the block that runs, and a thread's cells.
LEMMA BlockIs ==
  ASSUME NEW s, RunsRow(s)
  PROVE  /\ N = s /\ Warps(Running) = OfWarp(s) /\ NThread(Running) = NT(s) /\ Running.lanes = WARP
         /\ \A w : Threads(w) = {t \in OfThread(s) : t \div WARP = w}
         /\ \A t \in OfThread(s), i \in 1 .. s : Cell(t, i) = C(t * s + i - 1)
<1> DEFINE k == Running
<1>0. k = Running
  OBVIOUS
<1> HIDE DEF k
<1>1. Fit(s) /\ RowKernel(k, s)
  BY <1>0 DEF RunsRow
<1>2. s \in Nat \ {0} /\ NT(s) \in Nat \ {0}
  BY <1>1 DEF Fit
<1>3. k.threads[1] = NT(s) /\ k.threads[2] = 1 /\ k.threads[3] = 1 /\ k.chunk[1] = s /\ k.chunk[2] = 1 /\ k.chunk[3] = 1
        /\ k.lanes = WARP
  BY <1>1 DEF RowKernel
<1>4. NT(s) * 1 * 1 = NT(s) /\ s * 1 * 1 = s /\ NT(s) * 1 = NT(s)
  BY <1>2
<1>5. N = s
  BY <1>0, <1>3, <1>4 DEF N
<1>6. NThread(k) = NT(s)
  BY <1>3, <1>4 DEF NThread
<1>7. Warps(k) = OfWarp(s)
  BY <1>3, <1>6 DEF Warps, OfWarp
<1>8. \A w : Threads(w) = {t \in OfThread(s) : t \div WARP = w}
  BY <1>0, <1>3, <1>6 DEF Threads, OfThread
<1>9. ASSUME NEW t \in OfThread(s), NEW i \in 1 .. s PROVE Cell(t, i) = C(t * s + i - 1)
  <2>1. t \in 0 .. NT(s) - 1 /\ t \in Nat /\ i \in Nat
    BY <1>2 DEF OfThread
  <2>2. t % NT(s) = t /\ t \div NT(s) = 0
    <3>1. 0 * NT(s) + t = t /\ 0 \in Nat
      BY <1>2, <2>1
    <3>2. (0 * NT(s) + t) % NT(s) = t /\ (0 * NT(s) + t) \div NT(s) = 0
      BY <1>2, <2>1, <3>1, DivisionUnique
    <3> QED
      BY <3>1, <3>2
  <2>3. TIX(t) = t /\ TIY(t) = 0 /\ TIZ(t) = 0
    <3>1. 0 % 1 = 0
      OBVIOUS
    <3> QED
      BY <1>0, <1>3, <1>4, <2>2, <3>1 DEF TIX, TIY, TIZ
  <2>4. Along(1, t, i) = t * s + i - 1
    <3>1. CASE s > 1
      BY <1>0, <1>3, <1>5, <3>1 DEF Along
    <3>2. CASE ~(s > 1)
      <4>1. s = 1 /\ i = 1
        BY <1>2, <3>2
      <4>2. t * 1 + 1 - 1 = t
        BY <2>1
      <4> QED
        BY <1>0, <1>3, <3>2, <4>1, <4>2 DEF Along
    <3> QED
      BY <3>1, <3>2
  <2>5. Along(2, 0, i) = 0 /\ Along(3, 0, i) = 0
    BY <1>0, <1>3 DEF Along
  <2> QED
    BY <2>3, <2>4, <2>5 DEF Cell, C
<1> QED
  BY <1>0, <1>3, <1>5, <1>6, <1>7, <1>8, <1>9

\* A thread's cell, by thread and position, and the other way round.
LEMMA ThreadCell ==
  ASSUME NEW s, Fit(s), NEW t \in OfThread(s), NEW i \in 1 .. s
  PROVE  /\ t * s + i - 1 \in Offsets
         /\ (t * s + i - 1) \div s = t /\ (t * s + i - 1) % s = i - 1
<1>1. s \in Nat \ {0} /\ NT(s) \in Nat \ {0} /\ NT(s) * s = BLOCK1 /\ t \in Nat /\ t < NT(s) /\ i - 1 \in 0 .. s - 1
  BY DEF Fit, OfThread
<1>2. (t * s + (i - 1)) \div s = t /\ (t * s + (i - 1)) % s = i - 1
  BY <1>1, DivisionUnique
<1>3. t * s + s <= NT(s) * s /\ t * s \in Nat
  BY <1>1, ProductOrder
<1>4. t * s + i - 1 = t * s + (i - 1)
  BY <1>1, <1>3
<1>5. t * s + (i - 1) \in 0 .. BLOCK1 - 1
  <2> DEFINE a == t * s
             b == NT(s) * s
  <2>1. a + s <= b /\ a \in Nat /\ b = BLOCK1 /\ s \in Nat /\ BLOCK1 \in Nat /\ i - 1 \in 0 .. s - 1
    BY <1>1, <1>3, Positive
  <2> HIDE DEF a, b
  <2>2. a + (i - 1) \in 0 .. BLOCK1 - 1
    BY <2>1
  <2> QED
    BY <2>2 DEF a
<1> QED
  BY <1>2, <1>4, <1>5 DEF Offsets

\* A warp's cells are those of its threads' chunks.
LEMMA CellsIs ==
  ASSUME NEW s, RunsRow(s), NEW w
  PROVE  Cells(w) = {C(x) : x \in Chunks(s, w)}
<1>1. Fit(s) /\ N = s /\ Threads(w) = {t \in OfThread(s) : t \div WARP = w}
        /\ \A t \in OfThread(s), i \in 1 .. s : Cell(t, i) = C(t * s + i - 1)
  BY BlockIs DEF RunsRow
<1>2. Cells(w) = {Cell(t, i) : t \in Threads(w), i \in 1 .. s}
  BY <1>1 DEF Cells
<1>3. ASSUME NEW t \in Threads(w), NEW i \in 1 .. s PROVE \E x \in Chunks(s, w) : Cell(t, i) = C(x)
  <2>1. t \in OfThread(s) /\ t \div WARP = w
    BY <1>1
  <2>2. t * s + i - 1 \in Offsets /\ (t * s + i - 1) \div s = t
    BY <1>1, <2>1, ThreadCell
  <2>3. t * s + i - 1 \in Chunks(s, w)
    BY <2>1, <2>2 DEF Chunks, ChunkWarp
  <2> QED
    BY <1>1, <2>1, <2>3
<1>4. ASSUME NEW x \in Chunks(s, w) PROVE \E t \in Threads(w), i \in 1 .. s : C(x) = Cell(t, i)
  <2>1. x \in Offsets /\ (x \div s) \div WARP = w
    BY DEF Chunks, ChunkWarp
  <2>2. x \div s \in OfThread(s) /\ x % s \in 0 .. s - 1 /\ x = (x \div s) * s + (x % s)
    BY <1>1, <2>1, Offset
  <2> DEFINE t == x \div s
             r == x % s
  <2>3. t \in Threads(w)
    BY <1>1, <2>1, <2>2
  <2>4. r + 1 \in 1 .. s /\ t * s + (r + 1) - 1 = x
    <3>1. s \in Nat \ {0} /\ t \in Nat /\ x = t * s + r /\ r \in 0 .. s - 1 /\ t * s \in Nat
      BY <1>1, <2>2, Products DEF Fit, OfThread
    <3> HIDE DEF t, r
    <3> QED
      BY <3>1
  <2>5. Cell(t, r + 1) = C(x)
    BY <1>1, <2>2, <2>4
  <2> HIDE DEF t, r
  <2> QED
    BY <2>3, <2>4, <2>5
<1>5. \A c : c \in {Cell(t, i) : t \in Threads(w), i \in 1 .. s} <=> c \in {C(x) : x \in Chunks(s, w)}
  BY <1>3, <1>4
<1> DEFINE A == {Cell(t, i) : t \in Threads(w), i \in 1 .. s}
           B == {C(x) : x \in Chunks(s, w)}
<1>6. Cells(w) = A /\ \A c : c \in A <=> c \in B
  BY <1>2, <1>5
<1> HIDE DEF A, B
<1>7. Cells(w) = B
  BY <1>6
<1> QED
  BY <1>7 DEF B

\* A warp's stripe is of the offsets its threads load and store.
LEMMA StripeIs ==
  ASSUME NEW s, RunsRow(s), NEW w
  PROVE  Stripe(w) = {C(x) : x \in Stripes(s, w)}
<1>1. Fit(s) /\ N = s /\ Threads(w) = {t \in OfThread(s) : t \div WARP = w} /\ Running.stride = NT(s)
  BY BlockIs DEF RunsRow, RowKernel
<1>2. s \in Nat \ {0} /\ NT(s) \in Nat \ {0} /\ NT(s) * s = BLOCK1 /\ s * NT(s) = BLOCK1
  BY <1>1, Products DEF Fit
<1>3. Stripe(w) = {C(t + i * NT(s)) : t \in Threads(w), i \in 0 .. s - 1}
  BY <1>1 DEF Stripe, C
<1>4. ASSUME NEW t \in Threads(w), NEW i \in 0 .. s - 1 PROVE t + i * NT(s) \in Stripes(s, w)
  <2>1. t \in 0 .. NT(s) - 1 /\ t \div WARP = w /\ i \in Nat /\ i < s
    BY <1>1, <1>2 DEF OfThread
  <2>2. (i * NT(s) + t) % NT(s) = t
    BY <1>2, <2>1, DivisionUnique
  <2>3. i * NT(s) + NT(s) <= s * NT(s) /\ i * NT(s) \in Nat
    BY <1>2, <2>1, ProductOrder
  <2>4. t + i * NT(s) = i * NT(s) + t /\ t + i * NT(s) \in 0 .. BLOCK1 - 1
    <3> DEFINE a == i * NT(s)
               b == s * NT(s)
    <3>1. a + NT(s) <= b /\ a \in Nat /\ b = BLOCK1 /\ NT(s) \in Nat /\ BLOCK1 \in Nat /\ t \in 0 .. NT(s) - 1
      BY <1>2, <2>1, <2>3, Positive
    <3> HIDE DEF a, b
    <3>2. t + a = a + t /\ t + a \in 0 .. BLOCK1 - 1
      BY <3>1
    <3> QED
      BY <3>2 DEF a
  <2> QED
    BY <2>1, <2>2, <2>4 DEF Stripes, StripeWarp, Offsets
<1>5. ASSUME NEW x \in Stripes(s, w) PROVE \E t \in Threads(w), i \in 0 .. s - 1 : x = t + i * NT(s)
  <2>1. x \in Offsets /\ (x % NT(s)) \div WARP = w
    BY DEF Stripes, StripeWarp
  <2>2. x % NT(s) \in OfThread(s) /\ x \div NT(s) \in 0 .. s - 1 /\ x = (x \div NT(s)) * NT(s) + (x % NT(s))
    BY <1>1, <2>1, Offset
  <2> DEFINE t == x % NT(s)
             i == x \div NT(s)
  <2>3. t \in Threads(w) /\ t \in Nat /\ i \in Nat
    BY <1>1, <1>2, <2>1, <2>2 DEF OfThread
  <2>4. x = i * NT(s) + t /\ i \in 0 .. s - 1
    BY <2>2
  <2> HIDE DEF t, i
  <2>5. x = t + i * NT(s)
    BY <1>2, <2>3, <2>4, Products
  <2> QED
    BY <2>3, <2>4, <2>5
<1>6. \A c : c \in {C(t + i * NT(s)) : t \in Threads(w), i \in 0 .. s - 1} <=> c \in {C(x) : x \in Stripes(s, w)}
  BY <1>4, <1>5
<1>7. \A c : c \in Stripe(w) <=> c \in {C(x) : x \in Stripes(s, w)}
  BY <1>3, <1>6
<1> QED
  BY <1>7

-----------------------------------------------------------------------------
(* The programs of the two kernels.                                         *)
Args   == {"-", "prequant", "prev", "fuse", "dense", "both", "xdata"}
Names  == {"stripe_in", "sync", "take", "quantize_1d", "stripe_out", "scan_warp", "exchange", "propagate", "put_back"}
Lists(s, n) == s \in Seq(Names \X Args) /\ Len(s) = n

\* A stage is a list of one stage.
LEMMA OneStage ==
  ASSUME NEW name \in Names, NEW arg \in Args
  PROVE  Lists(Stage(name, arg), 1) /\ Stage(name, arg)[1] = <<name, arg>>
BY DEF Lists, Stage

\* So is a barrier.
LEMMA OneSync == Lists(sync, 1) /\ sync[1] = <<"sync", "-">>
BY DEF Lists, sync, Names, Args

\* u is t after s.
Glues(u, s, t, n, m) ==
  /\ Lists(u, n + m)
  /\ \A k \in 1 .. n : u[k] = s[k]
  /\ \A k \in 1 .. m : u[n + k] = t[k]

\* Lists of stages joined: the stages of the one, then those of the other.
LEMMA Glued ==
  ASSUME NEW s, NEW t, NEW n \in Nat, NEW m \in Nat, Lists(s, n), Lists(t, m)
  PROVE  Glues(s \o t, s, t, n, m)
<1> DEFINE X == Names \X Args
<1>1. s \in Seq(X) /\ Len(s) = n /\ t \in Seq(X) /\ Len(t) = m
  BY DEF Lists
<1> HIDE DEF X
<1>2. s \o t \in Seq(X) /\ Len(s \o t) = n + m
  BY <1>1
<1>3. \A k \in 1 .. n : (s \o t)[k] = s[k]
  BY <1>1
<1>4. \A k \in 1 .. m : (s \o t)[n + k] = t[k]
  <2>1. ASSUME NEW k \in 1 .. m PROVE (s \o t)[n + k] = t[k]
    <3>1. n + k \in 1 .. Len(s) + Len(t) /\ ~(n + k <= Len(s)) /\ n + k - Len(s) = k
      BY <1>1
    <3> QED
      BY <1>1, <3>1
  <2> QED
    BY <2>1
<1>5. Lists(s \o t, n + m)
  BY <1>2 DEF Lists, X
<1> QED
  BY <1>3, <1>4, <1>5 DEF Glues

CompressProg(p) ==
  /\ Len(p) = 7
  /\ p[1] = <<"stripe_in", "prequant">> /\ p[3] = <<"take", "prev">>
  /\ p[5] = <<"quantize_1d", "dense">> /\ p[7] = <<"stripe_out", "both">>
  /\ \A k \in {2, 4, 6} : p[k] = <<"sync", "-">>

DecompressProg(p) ==
  /\ Len(p) = 13
  /\ p[1] = <<"stripe_in", "fuse">> /\ p[3] = <<"take", "-">> /\ p[5] = <<"scan_warp", "-">>
  /\ p[7] = <<"exchange", "-">> /\ p[9] = <<"propagate", "-">> /\ p[11] = <<"put_back", "-">>
  /\ p[13] = <<"stripe_out", "xdata">>
  /\ \A k \in {2, 4, 6, 8, 10, 12} : p[k] = <<"sync", "-">>

\* A stage, a barrier, a stage, a barrier.
LEMMA Load4 ==
  ASSUME NEW a, NEW b, Lists(a, 1), Lists(b, 1)
  PROVE  LET p == a \o sync \o b \o sync
         IN  Lists(p, 4) /\ p[1] = a[1] /\ p[2] = <<"sync", "-">> /\ p[3] = b[1] /\ p[4] = <<"sync", "-">>
<1> DEFINE p2 == a \o sync
           p3 == p2 \o b
           p4 == p3 \o sync
<1>1. Lists(p2, 2) /\ p2[1] = a[1] /\ p2[2] = <<"sync", "-">>
  <2>1. Glues(p2, a, sync, 1, 1)
    BY OneSync, Glued
  <2> HIDE DEF p2
  <2> QED
    BY <2>1, OneSync DEF Glues
<1>2. Lists(p3, 3) /\ p3[1] = a[1] /\ p3[2] = <<"sync", "-">> /\ p3[3] = b[1]
  <2> HIDE DEF p2
  <2>1. Glues(p3, p2, b, 2, 1)
    BY <1>1, Glued
  <2> HIDE DEF p3
  <2> QED
    BY <1>1, <2>1 DEF Glues
<1>3. Lists(p4, 4) /\ p4[1] = a[1] /\ p4[2] = <<"sync", "-">> /\ p4[3] = b[1] /\ p4[4] = <<"sync", "-">>
  <2> HIDE DEF p3
  <2>1. Glues(p4, p3, sync, 3, 1)
    BY <1>2, OneSync, Glued
  <2> HIDE DEF p4
  <2> QED
    BY <1>2, <2>1, OneSync DEF Glues
<1> QED
  BY <1>3

\* The program of v0_c_1d.
LEMMA CompressIs == CompressProg(v0_c_1d(SEQ).prog) /\ RowKernel(v0_c_1d(SEQ), SEQ)
<1> DEFINE ld == load_prequant_1d
           qt == predict_quantize_1d
           p6 == ld \o qt
           p7 == p6 \o write_1d("both")
<1>1. Lists(ld, 4) /\ ld[1] = <<"stripe_in", "prequant">> /\ ld[2] = <<"sync", "-">>
        /\ ld[3] = <<"take", "prev">> /\ ld[4] = <<"sync", "-">>
  <2>1. Lists(Stage("stripe_in", "prequant"), 1) /\ Stage("stripe_in", "prequant")[1] = <<"stripe_in", "prequant">>
        /\ Lists(Stage("take", "prev"), 1) /\ Stage("take", "prev")[1] = <<"take", "prev">>
    BY OneStage DEF Names, Args
  <2> DEFINE a == Stage("stripe_in", "prequant")
             b == Stage("take", "prev")
             p == a \o sync \o b \o sync
  <2>2. ld = p
    BY DEF load_prequant_1d
  <2>3. Lists(a, 1) /\ Lists(b, 1) /\ a[1] = <<"stripe_in", "prequant">> /\ b[1] = <<"take", "prev">>
    BY <2>1
  <2> HIDE DEF a, b, ld
  <2>4. Lists(p, 4) /\ p[1] = a[1] /\ p[2] = <<"sync", "-">> /\ p[3] = b[1] /\ p[4] = <<"sync", "-">>
    BY <2>3, Load4
  <2> HIDE DEF p
  <2> QED
    BY <2>2, <2>3, <2>4
<1>2. Lists(qt, 2) /\ qt[1] = <<"quantize_1d", "dense">> /\ qt[2] = <<"sync", "-">>
  <2> DEFINE st == Stage("quantize_1d", "dense")
             u == st \o sync
  <2>1. Lists(st, 1) /\ st[1] = <<"quantize_1d", "dense">>
    BY OneStage DEF Names, Args
  <2> HIDE DEF st
  <2>2. Glues(u, st, sync, 1, 1)
    BY <2>1, OneSync, Glued
  <2>3. qt = u
    BY DEF predict_quantize_1d, st
  <2> HIDE DEF u
  <2> QED
    BY <2>1, <2>2, <2>3, OneSync DEF Glues
<1>3. Lists(write_1d("both"), 1) /\ write_1d("both")[1] = <<"stripe_out", "both">>
  BY OneStage DEF write_1d, Names, Args
<1>4. Glues(p6, ld, qt, 4, 2)
  <2> HIDE DEF ld, qt
  <2> QED
    BY <1>1, <1>2, Glued
<1>5. Lists(p6, 6) /\ p6[1] = ld[1] /\ p6[2] = ld[2] /\ p6[3] = ld[3] /\ p6[4] = ld[4] /\ p6[5] = qt[1] /\ p6[6] = qt[2]
  <2> HIDE DEF p6, ld, qt
  <2> QED
    BY <1>4 DEF Glues
<1>6. Glues(p7, p6, write_1d("both"), 6, 1)
  <2> HIDE DEF p6
  <2> QED
    BY <1>3, <1>5, Glued
<1>7. CompressProg(p7)
  <2>1. Len(p7) = 7 /\ (\A k \in 1 .. 6 : p7[k] = p6[k]) /\ p7[7] = <<"stripe_out", "both">>
    <3> HIDE DEF p7, p6
    <3> QED
      BY <1>3, <1>6 DEF Lists, Glues
  <2> HIDE DEF p7, p6, ld, qt
  <2> QED
    BY <1>1, <1>2, <1>5, <2>1 DEF CompressProg
<1>8. v0_c_1d(SEQ) = Launch1(SEQ, p7)
  BY DEF v0_c_1d
<1> HIDE DEF p7
<1>9. v0_c_1d(SEQ).prog = p7
  BY <1>8 DEF Launch1, Kernel
<1>10. Fit(SEQ)
  BY BothFit
<1>11. RowKernel(v0_c_1d(SEQ), SEQ)
  <2>1. NT(SEQ) * 1 * 1 = NT(SEQ) /\ NT(SEQ) * SEQ = BLOCK1
    BY <1>10 DEF Fit
  <2> QED
    BY <1>8, <2>1 DEF Launch1, Kernel, RowKernel, NT
<1> QED
  BY <1>7, <1>9, <1>11

\* The program of v0_x_1d.
LEMMA DecompressIs == DecompressProg(v0_x_1d(XSEQ).prog) /\ RowKernel(v0_x_1d(XSEQ), XSEQ)
<1> DEFINE ld == load_fuse_1d
           ib == intrablock_exclusivescan_1d
           st(name) == Stage(name, "-")
<1>1. Lists(ld, 4) /\ ld[1] = <<"stripe_in", "fuse">> /\ ld[2] = <<"sync", "-">>
        /\ ld[3] = <<"take", "-">> /\ ld[4] = <<"sync", "-">>
  <2>1. Lists(Stage("stripe_in", "fuse"), 1) /\ Stage("stripe_in", "fuse")[1] = <<"stripe_in", "fuse">>
        /\ Lists(Stage("take", "-"), 1) /\ Stage("take", "-")[1] = <<"take", "-">>
    BY OneStage DEF Names, Args
  <2> DEFINE a == Stage("stripe_in", "fuse")
             b == Stage("take", "-")
             p == a \o sync \o b \o sync
  <2>2. ld = p
    BY DEF load_fuse_1d
  <2>3. Lists(a, 1) /\ Lists(b, 1) /\ a[1] = <<"stripe_in", "fuse">> /\ b[1] = <<"take", "-">>
    BY <2>1
  <2> HIDE DEF a, b, ld
  <2>4. Lists(p, 4) /\ p[1] = a[1] /\ p[2] = <<"sync", "-">> /\ p[3] = b[1] /\ p[4] = <<"sync", "-">>
    BY <2>3, Load4
  <2> HIDE DEF p
  <2> QED
    BY <2>2, <2>3, <2>4
<1>2. \A name \in {"scan_warp", "exchange", "propagate", "put_back"} : Lists(st(name), 1) /\ st(name)[1] = <<name, "-">>
  BY OneStage DEF Names, Args
<1>3. Lists(write_1d("xdata"), 1) /\ write_1d("xdata")[1] = <<"stripe_out", "xdata">>
  BY OneStage DEF write_1d, Names, Args
<1>4. Lists(ib, 5) /\ ib[1] = <<"sync", "-">> /\ ib[2] = <<"exchange", "-">> /\ ib[3] = <<"sync", "-">>
        /\ ib[4] = <<"propagate", "-">> /\ ib[5] = <<"sync", "-">>
  <2> DEFINE u2 == sync \o st("exchange")
             u3 == u2 \o sync
             u4 == u3 \o st("propagate")
             u5 == u4 \o sync
  <2> HIDE DEF st
  <2>1. Glues(u2, sync, st("exchange"), 1, 1)
    BY <1>2, OneSync, Glued
  <2>2. Lists(u2, 2) /\ u2[1] = <<"sync", "-">> /\ u2[2] = <<"exchange", "-">>
    <3> HIDE DEF u2
    <3> QED
      BY <1>2, <2>1, OneSync DEF Glues
  <2>3. Glues(u3, u2, sync, 2, 1)
    <3> HIDE DEF u2
    <3> QED
      BY <2>2, OneSync, Glued
  <2>4. Lists(u3, 3) /\ u3[1] = <<"sync", "-">> /\ u3[2] = <<"exchange", "-">> /\ u3[3] = <<"sync", "-">>
    <3> HIDE DEF u2, u3
    <3> QED
      BY <2>2, <2>3, OneSync DEF Glues
  <2>5. Glues(u4, u3, st("propagate"), 3, 1)
    <3> HIDE DEF u3
    <3> QED
      BY <1>2, <2>4, Glued
  <2>6. Lists(u4, 4) /\ u4[1] = <<"sync", "-">> /\ u4[2] = <<"exchange", "-">> /\ u4[3] = <<"sync", "-">>
          /\ u4[4] = <<"propagate", "-">>
    <3> HIDE DEF u3, u4
    <3> QED
      BY <1>2, <2>4, <2>5 DEF Glues
  <2>7. Glues(u5, u4, sync, 4, 1)
    <3> HIDE DEF u4
    <3> QED
      BY <2>6, OneSync, Glued
  <2>8. ib = u5
    BY DEF intrablock_exclusivescan_1d, st
  <2> HIDE DEF u4, u5
  <2> QED
    BY <2>6, <2>7, <2>8, OneSync DEF Glues
<1> DEFINE b6 == st("scan_warp") \o ib
           b7 == b6 \o st("put_back")
           b8 == b7 \o sync
           pC == ld \o b8
           p  == pC \o write_1d("xdata")
<1>5. Glues(b6, st("scan_warp"), ib, 1, 5)
  <2> HIDE DEF ib, st
  <2> QED
    BY <1>2, <1>4, Glued
<1>6. Lists(b6, 6) /\ b6[1] = <<"scan_warp", "-">> /\ b6[2] = ib[1] /\ b6[3] = ib[2] /\ b6[4] = ib[3] /\ b6[5] = ib[4] /\ b6[6] = ib[5]
  <2> HIDE DEF ib, st, b6
  <2> QED
    BY <1>2, <1>5 DEF Glues
<1>7. Glues(b7, b6, st("put_back"), 6, 1)
  <2> HIDE DEF st, b6
  <2> QED
    BY <1>2, <1>6, Glued
<1>8. Lists(b7, 7) /\ (\A k \in 1 .. 6 : b7[k] = b6[k]) /\ b7[7] = <<"put_back", "-">>
  <2> HIDE DEF st, b6, b7
  <2> QED
    BY <1>2, <1>7 DEF Glues
<1>9. Glues(b8, b7, sync, 7, 1)
  <2> HIDE DEF b7
  <2> QED
    BY <1>8, OneSync, Glued
<1>10. Lists(b8, 8) /\ (\A k \in 1 .. 7 : b8[k] = b7[k]) /\ b8[8] = <<"sync", "-">>
  <2> HIDE DEF b7, b8
  <2> QED
    BY <1>9, OneSync DEF Glues
<1>11. Glues(pC, ld, b8, 4, 8)
  <2> HIDE DEF b8, ld
  <2> QED
    BY <1>1, <1>10, Glued
<1>12. Lists(pC, 12) /\ (\A k \in 1 .. 4 : pC[k] = ld[k]) /\ (\A k \in 1 .. 8 : pC[4 + k] = b8[k])
  <2> HIDE DEF b8, ld, pC
  <2> QED
    BY <1>11 DEF Glues
<1>13. Glues(p, pC, write_1d("xdata"), 12, 1)
  <2> HIDE DEF pC
  <2> QED
    BY <1>3, <1>12, Glued
<1>14. DecompressProg(p)
  <2>1. Len(p) = 13 /\ (\A k \in 1 .. 12 : p[k] = pC[k]) /\ p[13] = <<"stripe_out", "xdata">>
    <3> HIDE DEF p, pC
    <3> QED
      BY <1>3, <1>13 DEF Lists, Glues
  <2> HIDE DEF p, pC, b8, b7, b6, ib, ld, st
  <2>2. pC[1] = ld[1] /\ pC[2] = ld[2] /\ pC[3] = ld[3] /\ pC[4] = ld[4]
    BY <1>12
  <2>3. pC[5] = b8[1] /\ pC[6] = b8[2] /\ pC[7] = b8[3] /\ pC[8] = b8[4] /\ pC[9] = b8[5] /\ pC[10] = b8[6] /\ pC[11] = b8[7]
          /\ pC[12] = b8[8]
    <3>1. \A j \in 1 .. 8 : pC[4 + j] = b8[j]
      BY <1>12
    <3> QED
      BY <3>1
  <2>4. b8[1] = b6[1] /\ b8[2] = b6[2] /\ b8[3] = b6[3] /\ b8[4] = b6[4] /\ b8[5] = b6[5] /\ b8[6] = b6[6] /\ b8[7] = <<"put_back", "-">>
    BY <1>8, <1>10
  <2> QED
    BY <1>1, <1>4, <1>6, <1>10, <2>1, <2>2, <2>3, <2>4 DEF DecompressProg
<1>15. v0_x_1d(XSEQ) = Launch1(XSEQ, p)
  BY DEF v0_x_1d, block_scan_1d, intrawarp_inclusivescan_1d
<1> HIDE DEF p
<1>16. v0_x_1d(XSEQ).prog = p
  BY <1>15 DEF Launch1, Kernel
<1>17. Fit(XSEQ)
  BY BothFit
<1>18. RowKernel(v0_x_1d(XSEQ), XSEQ)
  <2>1. NT(XSEQ) * 1 * 1 = NT(XSEQ) /\ NT(XSEQ) * XSEQ = BLOCK1
    BY <1>17 DEF Fit
  <2> QED
    BY <1>15, <2>1 DEF Launch1, Kernel, RowKernel, NT
<1> QED
  BY <1>14, <1>16, <1>18

\* The two kernels of the pair.
LEMMA KernelsAre ==
  ASSUME kernels = launch["lorenzo_1d"]
  PROVE  kernels.c = v0_c_1d(SEQ) /\ kernels.x = v0_x_1d(XSEQ)
<1>1. launch["lorenzo_1d"] = lorenzo(1)
  BY DEF launch
<1>2. compress_predict_lorenzo_i[1] = v0_c_1d(SEQ) /\ decompress_predict_lorenzo_i[1] = v0_x_1d(XSEQ)
  BY DEF compress_predict_lorenzo_i, decompress_predict_lorenzo_i
<1> QED
  BY <1>1, <1>2 DEF lorenzo

-----------------------------------------------------------------------------
(* Shared memory and the arrays, after a write.                             *)
Reads1(f)   == \A c : Read(c)' = IF c \in DOMAIN f THEN f[c] ELSE Read(c)
ShmTypes    == \A c \in DOMAIN shm : shm[c] \in Value
MapTypes(f) == \A c \in DOMAIN f : f[c] \in Value

\* What is read once f has been written over shared memory.
LEMMA ReadOver ==
  ASSUME NEW f, shm' = Over(shm, f)
  PROVE  /\ Reads1(f)
         /\ ShmTypes /\ MapTypes(f) => ShmTypes'
<1>1. DOMAIN shm' = DOMAIN shm \cup DOMAIN f
        /\ \A c \in DOMAIN shm' : shm'[c] = IF c \in DOMAIN f THEN f[c] ELSE shm[c]
  BY DEF Over
<1>2. Reads1(f)
  BY <1>1 DEF Reads1, Read
<1>3. ShmTypes /\ MapTypes(f) => ShmTypes'
  BY <1>1 DEF ShmTypes, MapTypes
<1> QED
  BY <1>2, <1>3

\* What is read when nothing was written.
LEMMA ReadSame ==
  ASSUME UNCHANGED shm
  PROVE  (\A c : Read(c)' = Read(c)) /\ (ShmTypes => ShmTypes')
BY DEF Read, ShmTypes

\* What is read is a value.
LEMMA ReadTyped ==
  ASSUME ShmTypes, NEW c
  PROVE  Read(c) \in Value
BY UndefApart DEF ShmTypes, Read

\* What is read of a cell that was written.
LEMMA ReadThere ==
  ASSUME NEW c, Read(c) \in Int
  PROVE  c \in DOMAIN shm /\ shm[c] = Read(c)
BY UndefApart DEF Read

\* What fits the row is written over what was there.
LEMMA RowFits ==
  ASSUME NEW s, RunsRow(s), NEW f, NEW g, \A c \in DOMAIN f : \E x \in Offsets : c = C(x)
  PROVE  ~Spills(f) /\ IntoRow(g, f) = Over(g, f)
<1>1. Running.room = BLOCK1
  BY DEF RunsRow, RowKernel
<1>2. ASSUME NEW c \in DOMAIN f PROVE ~(c[1] >= BLOCK1)
  <2>1. PICK x \in Offsets : c = C(x)
    OBVIOUS
  <2>2. c[1] = x
    BY <2>1 DEF C
  <2> QED
    BY <2>2, Positive DEF Offsets
<1>3. ~Spills(f)
  BY <1>1, <1>2 DEF Spills
<1> QED
  BY <1>3 DEF IntoRow

\* The cells of some offsets, and what is written of them.
CellsOf(X) == {C(x) : x \in X}

\* Offsets have cells of their own.
LEMMA CellsApart == \A x, y : C(x) = C(y) => x = y
BY DEF C

\* The cells that the launch guards let through are those inside the row.
LEMMA ValidOf ==
  ASSUME NEW s, RunsRow(s), NEW X \in SUBSET Offsets
  PROVE  Valid(CellsOf(X)) = CellsOf({x \in X : Inside(x)})
<1>1. \A x \in X : InRange(C(x)) <=> Inside(x)
  <2>1. ASSUME NEW x \in X PROVE InRange(C(x)) <=> Inside(x)
    <3>1. x \in Nat
      BY Positive DEF Offsets
    <3> QED
      BY <3>1, CellAt
  <2> QED
    BY <2>1
<1>2. \A c : c \in Valid(CellsOf(X)) <=> c \in CellsOf({x \in X : Inside(x)})
  BY <1>1 DEF Valid, CellsOf
<1> QED
  BY <1>2

\* f is what value says of the offsets in X, by index.
Writes(f, X, value) ==
  /\ DOMAIN f = {Here + x : x \in X}
  /\ \A x \in X : f[Here + x] = value[C(x)]

\* What a warp writes of its cells, by index of the row.
LEMMA OutIs ==
  ASSUME NEW s, RunsRow(s), NEW X \in SUBSET Offsets, NEW value
  PROVE  Writes(Out(CellsOf(X), value), X, value)
<1>1. \A x \in X : x \in Nat /\ Id(C(x)) = Here + x
  <2>1. ASSUME NEW x \in X PROVE x \in Nat /\ Id(C(x)) = Here + x
    <3>1. x \in Nat
      BY Positive DEF Offsets
    <3> QED
      BY <3>1, CellAt
  <2> QED
    BY <2>1
<1>2. Here \in Nat
  BY HereIs
<1> DEFINE cells == CellsOf(X)
           ids == {Id(c) : c \in cells}
           f == [id \in ids |-> value[CHOOSE c \in cells : Id(c) = id]]
<1>3. Out(cells, value) = f
  BY DEF Out
<1>4. ids = {Here + x : x \in X}
  <2>1. \A id : id \in ids <=> id \in {Here + x : x \in X}
    BY <1>1 DEF CellsOf
  <2> QED
    BY <2>1
<1>5. ASSUME NEW x \in X PROVE f[Here + x] = value[C(x)]
  <2>1. C(x) \in cells /\ Id(C(x)) = Here + x
    BY <1>1 DEF CellsOf
  <2>2. ASSUME NEW c \in cells, Id(c) = Here + x PROVE c = C(x)
    <3>1. PICK y \in X : c = C(y)
      BY DEF CellsOf
    <3>2. Here + y = Here + x /\ y \in Nat /\ x \in Nat
      BY <1>1, <2>2, <3>1
    <3> QED
      BY <1>2, <3>1, <3>2
  <2>3. (CHOOSE c \in cells : Id(c) = Here + x) = C(x)
    <3> DEFINE d == CHOOSE c \in cells : Id(c) = Here + x
    <3>1. d \in cells /\ Id(d) = Here + x
      BY <2>1
    <3> HIDE DEF d
    <3>2. d = C(x)
      BY <2>2, <3>1
    <3> QED
      BY <3>2 DEF d
  <2>4. Here + x \in ids
    BY <2>1
  <2> QED
    BY <2>3, <2>4
<1> HIDE DEF f, ids
<1>6. DOMAIN f = ids
  BY DEF f
<1> QED
  BY <1>3, <1>4, <1>5, <1>6 DEF Writes

\* An index of the field is that of an offset of this block, of an earlier block or of a later one.
LEMMA IndexOf ==
  ASSUME NEW s, RunsRow(s), NEW x \in Offsets, Inside(x)
  PROVE  Here + x \in 0 .. Length - 1 /\ Here \in Nat /\ x \in Nat /\ Length \in Nat
BY HereIs, Positive DEF Offsets, Inside

-----------------------------------------------------------------------------
(* Differences and codes.                                                   *)
P(id)     == prequant(field.data[id])
Delta(id) == IF id % BLOCK1 = 0 THEN P(id) ELSE P(id) - P(id - 1)
Left(y)   == IF y = 0 THEN 0 ELSE P(Here + y - 1)

\* Division of an integer, which may be negative.
LEMMA IntDivision ==
  ASSUME NEW d \in Nat \ {0}, NEW n \in Int
  PROVE  n \div d \in Int /\ n % d \in 0 .. d - 1 /\ n = (n \div d) * d + (n % d)
OBVIOUS

\* What the error bound is about.
LEMMA Prequantized ==
  ASSUME NEW v \in Int
  PROVE  prequant(v) \in Int /\ prequant(v) * EBX2 \in Int /\ 2 * Abs(prequant(v) * EBX2 - v) <= EBX2
<1>1. EBX2 \in Nat /\ EBX2 > 0
  <2>1. EBX2 \in Nat /\ EBX2 % 2 = 1
    BY LorenzoAssumption
  <2>2. 0 % 2 = 0
    OBVIOUS
  <2> QED
    BY <2>1, <2>2
<1> DEFINE q == (2 * v + EBX2) \div (2 * EBX2)
           r == (2 * v + EBX2) % (2 * EBX2)
<1>2. 2 * EBX2 \in Nat \ {0} /\ 2 * v + EBX2 \in Int
  BY <1>1
<1>3. q \in Int /\ r \in 0 .. 2 * EBX2 - 1 /\ 2 * v + EBX2 = q * (2 * EBX2) + r
  BY <1>2, IntDivision
<1>4. prequant(v) = q
  BY DEF prequant
<1> HIDE DEF q, r
<1> DEFINE a == q * EBX2
<1>5. q * (2 * EBX2) = 2 * a /\ a \in Int
  BY <1>1, <1>3
<1> HIDE DEF a
<1>6. 2 * v + EBX2 = 2 * a + r /\ r \in Int /\ 0 <= r /\ r <= 2 * EBX2 - 1
  BY <1>1, <1>3, <1>5
<1>7. 2 * Abs(a - v) <= EBX2
  BY <1>1, <1>5, <1>6 DEF Abs
<1> QED
  BY <1>3, <1>4, <1>5, <1>7 DEF a

\* A code and an outlier together give the difference back.
LEMMA CodeIs ==
  ASSUME NEW d \in Int
  PROVE  /\ Code("dense", d) \in Int /\ Outlier(d) \in Int
         /\ Plus(Outlier(d), Minus(Code("dense", d), RADIUS)) = d
<1>1. d # Undef /\ RADIUS \in Int /\ Abs(d) \in Int
  BY UndefApart, Positive DEF Abs
<1>2. Code("dense", d) = IF quantizable(d) THEN d + RADIUS ELSE 0
  BY <1>1 DEF Code
<1>3. CASE quantizable(d)
  <2>1. Code("dense", d) = d + RADIUS /\ Outlier(d) = 0 /\ d + RADIUS \in Int
    BY <1>1, <1>2, <1>3 DEF Outlier
  <2>2. Minus(d + RADIUS, RADIUS) = d
    <3>1. Minus(d + RADIUS, RADIUS) = (d + RADIUS) - RADIUS
      BY <1>1, <2>1, IntSum
    <3> QED
      BY <1>1, <3>1
  <2>3. Plus(0, d) = d
    <3>1. Plus(0, d) = 0 + d
      BY IntSum
    <3> QED
      BY <3>1
  <2> QED
    BY <2>1, <2>2, <2>3
<1>4. CASE ~quantizable(d)
  <2>1. Plus(d, RADIUS) = d + RADIUS /\ d + RADIUS \in Int
    BY <1>1, IntSum
  <2>2. Code("dense", d) = 0 /\ Outlier(d) = d + RADIUS
    BY <1>2, <1>4, <2>1 DEF Outlier
  <2>3. Minus(0, RADIUS) = 0 - RADIUS /\ 0 - RADIUS \in Int
    BY <1>1, IntSum
  <2>4. Plus(d + RADIUS, 0 - RADIUS) = (d + RADIUS) + (0 - RADIUS)
    BY <2>1, <2>3, IntSum
  <2>5. (d + RADIUS) + (0 - RADIUS) = d
    BY <1>1
  <2> QED
    BY <2>1, <2>2, <2>3, <2>4, <2>5
<1> QED
  BY <1>3, <1>4

\* The prequantized row and its differences are numbers.
LEMMA DeltaInt ==
  ASSUME IsRow(field), NEW id \in 0 .. Length - 1
  PROVE  P(id) \in Int /\ Delta(id) \in Int /\ field.data[id] \in Int
<1>1. field.data \in [0 .. Length - 1 -> Int] /\ Length \in Nat /\ id \in Nat
  BY DEF IsRow, Length
<1>2. \A i \in 0 .. Length - 1 : P(i) \in Int
  <2>1. ASSUME NEW i \in 0 .. Length - 1 PROVE P(i) \in Int
    <3>1. field.data[i] \in Int
      BY <1>1
    <3> QED
      BY <3>1, Prequantized DEF P
  <2> QED
    BY <2>1
<1>3. CASE id % BLOCK1 = 0
  BY <1>1, <1>2, <1>3 DEF Delta
<1>4. CASE id % BLOCK1 # 0
  <2>1. id # 0
    <3>1. 0 % BLOCK1 = 0
      BY Positive
    <3> QED
      BY <1>4, <3>1
  <2>2. id - 1 \in 0 .. Length - 1
    BY <1>1, <2>1
  <2>3. P(id) \in Int /\ P(id - 1) \in Int
    BY <1>2, <2>2
  <2> QED
    BY <1>1, <1>4, <2>3 DEF Delta
<1> QED
  BY <1>3, <1>4

\* Within the block a difference is that of a cell and the one to its left, which is 0 at the first.
LEMMA LeftIs ==
  ASSUME NEW s, RunsRow(s), NEW x \in Offsets, Inside(x)
  PROVE  /\ Left(x) \in Int /\ Left(x + 1) \in Int
         /\ Left(x + 1) = P(Here + x) /\ Delta(Here + x) = Left(x + 1) - Left(x)
<1>1. IsRow(field) /\ block \in Nat /\ BLOCK1 \in Nat \ {0} /\ x \in 0 .. BLOCK1 - 1 /\ x \in Nat
  <2>1. Grid \in Nat
    BY GridIs DEF RunsRow
  <2> QED
    BY <2>1, Positive DEF RunsRow, Offsets
<1>2. Here + x \in 0 .. Length - 1 /\ Here \in Nat /\ Length \in Nat
  BY IndexOf
<1>3. P(Here + x) \in Int /\ Delta(Here + x) \in Int
  BY <1>1, <1>2, DeltaInt
<1>4. (Here + x) % BLOCK1 = x
  <2>1. (block * BLOCK1 + x) % BLOCK1 = x
    BY <1>1, DivisionUnique
  <2>2. Here = block * BLOCK1
    BY <1>1, Products DEF Here
  <2> QED
    BY <2>1, <2>2
<1>5. Left(x + 1) = P(Here + x)
  <2>1. x + 1 # 0 /\ Here + (x + 1) - 1 = Here + x
    BY <1>1, <1>2
  <2> QED
    BY <2>1 DEF Left
<1>6. CASE x = 0
  <2>1. Left(x) = 0 /\ Delta(Here + x) = P(Here + x)
    BY <1>4, <1>6 DEF Left, Delta
  <2> QED
    BY <1>3, <1>5, <2>1
<1>7. CASE x # 0
  <2>1. Left(x) = P(Here + x - 1) /\ Delta(Here + x) = P(Here + x) - P(Here + x - 1)
    BY <1>1, <1>2, <1>4, <1>7 DEF Left, Delta
  <2>2. Here + x - 1 \in 0 .. Length - 1
    BY <1>1, <1>2, <1>7
  <2>3. P(Here + x - 1) \in Int
    <3> DEFINE id == Here + x - 1
    <3>1. id \in 0 .. Length - 1
      BY <2>2
    <3> HIDE DEF id
    <3>2. P(id) \in Int
      BY <1>1, <3>1, DeltaInt
    <3> QED
      BY <3>2 DEF id
  <2> QED
    BY <1>3, <1>5, <2>1, <2>3
<1> QED
  BY <1>6, <1>7

-----------------------------------------------------------------------------
(* Sums along a row.                                                        *)

\* s sums g as Total does.
Sums(s, n, g) == s = [k \in 0 .. n |-> IF k = 0 THEN 0 ELSE Plus(s[k - 1], g[k])]

\* Values have a recursive sum.
LEMMA SumHas ==
  ASSUME NEW n \in Nat, NEW g, \A k \in 1 .. n : g[k] \in Value
  PROVE  \E s : Sums(s, n, g)
<1>1. PICK h : Adds(h, n, g)
  BY SumsExist
<1>2. h \in [0 .. n -> Value] /\ h[0] = 0 /\ \A k \in 1 .. n : h[k] = Plus(h[k - 1], g[k])
  BY <1>1 DEF Adds
<1>3. Sums(h, n, g)
  BY <1>2 DEF Sums
<1> QED
  BY <1>3

\* A recursive sum is one of the sums above.
LEMMA SumIs ==
  ASSUME NEW n \in Nat, NEW g, \A k \in 1 .. n : g[k] \in Value, NEW s, Sums(s, n, g)
  PROVE  Adds(s, n, g)
<1>1. DOMAIN s = 0 .. n /\ s[0] = 0 /\ (\A k \in 1 .. n : s[k] = Plus(s[k - 1], g[k])) /\ s = [k \in 0 .. n |-> s[k]]
  <2>1. 0 \in 0 .. n /\ \A k \in 1 .. n : k \in 0 .. n /\ k # 0
    OBVIOUS
  <2> QED
    BY <2>1 DEF Sums
<1>2. 0 \in Value
  BY UndefApart
<1> DEFINE S == {m \in 0 .. n : s[m] \notin Value}
<1>3. SUFFICES ASSUME S # {} PROVE FALSE
  <2>1. \A m \in 0 .. n : s[m] \in Value
    OBVIOUS
  <2> QED
    BY <1>1, <2>1 DEF Adds
<1>4. S \in SUBSET Nat
  OBVIOUS
<1> HIDE DEF S
<1>5. PICK m \in S : \A k \in S : m <= k
  BY <1>3, <1>4, Least
<1>6. m \in 0 .. n /\ s[m] \notin Value /\ m # 0
  BY <1>1, <1>2, <1>5 DEF S
<1>7. m - 1 \in 0 .. n /\ m \in 1 .. n /\ m - 1 \notin S
  BY <1>5, <1>6
<1>8. s[m - 1] \in Value /\ g[m] \in Value
  BY <1>7 DEF S
<1> QED
  BY <1>1, <1>6, <1>7, <1>8, ValueSum

\* The register of an offset.
Mine(s, x) == reg[x \div s][(x % s) + 1]
RegTypes(s) == reg \in [OfThread(s) -> [0 .. s -> Value]]

\* A cell's register holds a value.
LEMMA MineTyped ==
  ASSUME NEW s, Fit(s), RegTypes(s), NEW x \in Offsets
  PROVE  Mine(s, x) \in Value
<1>1. x \div s \in OfThread(s) /\ x % s \in 0 .. s - 1 /\ s \in Nat
  BY Offset DEF Fit
<1>2. (x % s) + 1 \in 0 .. s
  BY <1>1
<1> QED
  BY <1>1, <1>2 DEF RegTypes, Mine

(* What a thread has after its warp's sum: the registers from the warp's    *)
(* first, added up in order.                                                *)
LEMMA PrefixIs ==
  ASSUME NEW s, RunsRow(s), RegTypes(s), NEW first \in Nat, NEW x \in Offsets, first * s <= x
  PROVE  \E h : /\ Adds(h, x + 1 - first * s, [k \in 1 .. x + 1 - first * s |-> Mine(s, first * s + (k - 1))])
                /\ Prefix(x \div s, (x % s) + 1, first) = h[x + 1 - first * s]
<1> DEFINE base == first * s
           n == x + 1 - base
           g == [k \in 1 .. n |-> Mine(s, base + (k - 1))]
           e(k) == reg[first + (k - 1) \div s][((k - 1) % s) + 1]
<1>1. Fit(s) /\ N = s /\ s \in Nat \ {0}
  BY BlockIs DEF RunsRow, Fit
<1>2. base \in Nat /\ x \in Nat /\ base <= x /\ x \in 0 .. BLOCK1 - 1 /\ BLOCK1 \in Nat
  BY <1>1, Products, Positive DEF Offsets
<1> HIDE DEF base
<1>3. n \in Nat /\ \A k \in 1 .. n : base + (k - 1) \in Offsets /\ k - 1 \in Nat
  BY <1>2 DEF Offsets
<1>4. ASSUME NEW k \in 1 .. n PROVE g[k] = e(k)
  <2> DEFINE j == k - 1
             q == j \div s
             r == j % s
  <2>1. j \in Nat
    BY <1>3
  <2>2. q \in Nat /\ r \in 0 .. s - 1 /\ j = q * s + r
    BY <1>1, <2>1, Division
  <2> HIDE DEF q, r
  <2>3. (first + q) * s = base + q * s /\ q * s \in Nat /\ first + q \in Nat
    BY <1>1, <2>2 DEF base
  <2>4. base + j = (first + q) * s + r
    BY <1>2, <2>2, <2>3
  <2>5. (base + j) \div s = first + q /\ (base + j) % s = r
    <3> DEFINE f == first + q
    <3>1. f \in Nat /\ base + j = f * s + r
      BY <2>3, <2>4
    <3> HIDE DEF f, j
    <3>2. (f * s + r) \div s = f /\ (f * s + r) % s = r
      BY <1>1, <2>2, <3>1, DivisionUnique
    <3> QED
      BY <3>1, <3>2 DEF f
  <2>6. g[k] = reg[first + q][r + 1]
    BY <2>5 DEF Mine
  <2> QED
    BY <2>6 DEF q, r
<1>5. \A k \in 1 .. n : g[k] \in Value
  BY <1>1, <1>3, MineTyped
<1> DEFINE total == CHOOSE s0 : s0 = [k \in 0 .. n |-> IF k = 0 THEN 0 ELSE Plus(s0[k - 1], e(k))]
<1>6. ASSUME NEW s0 PROVE Sums(s0, n, g) <=> s0 = [k \in 0 .. n |-> IF k = 0 THEN 0 ELSE Plus(s0[k - 1], e(k))]
  <2>1. \A k \in 0 .. n : (IF k = 0 THEN 0 ELSE Plus(s0[k - 1], g[k])) = IF k = 0 THEN 0 ELSE Plus(s0[k - 1], e(k))
    <3>1. ASSUME NEW k \in 0 .. n, k # 0 PROVE g[k] = e(k)
      <4>1. k \in 1 .. n
        BY <1>3, <3>1
      <4> QED
        BY <1>4, <4>1
    <3> HIDE DEF g, e
    <3> QED
      BY <3>1
  <2> HIDE DEF g, e
  <2> QED
    BY <2>1 DEF Sums
<1>7. Sums(total, n, g)
  <2>1. PICK s1 : Sums(s1, n, g)
    BY <1>3, <1>5, SumHas
  <2>2. s1 = [k \in 0 .. n |-> IF k = 0 THEN 0 ELSE Plus(s1[k - 1], e(k))]
    BY <1>6, <2>1
  <2>3. total = [k \in 0 .. n |-> IF k = 0 THEN 0 ELSE Plus(total[k - 1], e(k))]
    <3> HIDE DEF e, n
    <3> QED
      BY <2>2
  <2> HIDE DEF total
  <2> QED
    BY <1>6, <2>3
<1>8. (x \div s - first) * N + ((x % s) + 1) = n
  <2> DEFINE q == x \div s
             r == x % s
  <2>1. q \in Nat /\ r \in 0 .. s - 1 /\ x = q * s + r
    BY <1>1, <1>2, Division
  <2> HIDE DEF q, r
  <2>2. (q - first) * s = q * s - base /\ q * s \in Nat
    BY <1>1, <2>1 DEF base
  <2>3. (q - first) * s + (r + 1) = x + 1 - base
    BY <1>2, <2>1, <2>2
  <2> QED
    BY <1>1, <2>3 DEF q, r
<1>9. Prefix(x \div s, (x % s) + 1, first) = total[n]
  <2> HIDE DEF n
  <2> QED
    BY <1>1, <1>8, ZenonT(40) DEF Prefix, Total
<1>10. Adds(total, n, g)
  BY <1>3, <1>5, <1>7, SumIs
<1> HIDE DEF total
<1> QED
  BY <1>9, <1>10 DEF base

\* A prefix of registers adds up to a value.
LEMMA PrefixTyped ==
  ASSUME NEW s, RunsRow(s), RegTypes(s), NEW first \in Nat, NEW x \in Offsets, first * s <= x
  PROVE  Prefix(x \div s, (x % s) + 1, first) \in Value
<1> DEFINE base == first * s
           n == x + 1 - base
           g == [k \in 1 .. n |-> Mine(s, base + (k - 1))]
<1>1. base \in Nat /\ x \in Nat /\ base <= x
  <2>1. s \in Nat
    BY DEF RunsRow, Fit
  <2> QED
    BY <2>1, Products, Positive DEF Offsets
<1>2. PICK h : Adds(h, n, g) /\ Prefix(x \div s, (x % s) + 1, first) = h[n]
  BY PrefixIs
<1> HIDE DEF base, g
<1>3. n \in 0 .. n
  BY <1>1
<1> HIDE DEF n
<1>4. h[n] \in Value
  BY <1>2, <1>3 DEF Adds
<1> QED
  BY <1>2, <1>4

\* What is to the left of a cell is a number.
LEMMA LeftInt ==
  ASSUME NEW s, RunsRow(s), NEW x \in Offsets, Inside(x), NEW y \in 0 .. x + 1
  PROVE  Left(y) \in Int
<1>1. x \in 0 .. BLOCK1 - 1 /\ x \in Nat /\ BLOCK1 \in Nat /\ Here \in Nat /\ Length \in Nat /\ Here + x < Length
  BY IndexOf, Positive DEF Offsets, Inside
<1>2. CASE y = 0
  BY <1>2 DEF Left
<1>3. CASE y # 0
  <2> DEFINE z == y - 1
  <2>1. z \in 0 .. BLOCK1 - 1 /\ Here + z < Length /\ z + 1 = y
    BY <1>1, <1>3
  <2> HIDE DEF z
  <2>2. z \in Offsets /\ Inside(z)
    BY <2>1 DEF Offsets, Inside
  <2>3. Left(z + 1) \in Int
    BY <2>2, LeftIs
  <2> QED
    BY <2>1, <2>3
<1> QED
  BY <1>2, <1>3

\* The sum of differences from the warp's first cell on is a difference itself.
LEMMA ScanIs ==
  ASSUME NEW s, RunsRow(s), RegTypes(s), NEW first \in Nat, NEW x \in Offsets, Inside(x), first * s <= x,
         \A y \in Offsets : first * s <= y /\ y <= x => Mine(s, y) = Delta(Here + y)
  PROVE  Prefix(x \div s, (x % s) + 1, first) = Left(x + 1) - Left(first * s)
<1> DEFINE base == first * s
           n == x + 1 - base
           g == [k \in 1 .. n |-> Mine(s, base + (k - 1))]
           F == [k \in 0 .. n |-> Left(base + k)]
<1>1. base \in Nat /\ x \in Nat /\ base <= x /\ x \in 0 .. BLOCK1 - 1 /\ BLOCK1 \in Nat /\ Here \in Nat /\ Length \in Nat
  <2>1. s \in Nat
    BY DEF RunsRow, Fit
  <2> QED
    BY <2>1, IndexOf, Products, Positive DEF Offsets
<1>2. PICK h : Adds(h, n, g) /\ Prefix(x \div s, (x % s) + 1, first) = h[n]
  BY PrefixIs
<1>3. \A y \in Offsets : base <= y /\ y <= x => Mine(s, y) = Delta(Here + y)
  OBVIOUS
<1> HIDE DEF base
<1>4. n \in Nat
  BY <1>1
<1>5. ASSUME NEW k \in 0 .. n PROVE F[k] \in Int
  <2>1. base + k \in 0 .. x + 1
    BY <1>1
  <2> HIDE DEF n
  <2> QED
    BY <2>1, LeftInt
<1>6. ASSUME NEW k \in 1 .. n PROVE g[k] = F[k] - F[k - 1]
  <2> DEFINE y == base + (k - 1)
  <2>1. y \in 0 .. BLOCK1 - 1 /\ base <= y /\ y <= x /\ y + 1 = base + k /\ Here + y < Length
    BY <1>1 DEF Inside
  <2>2. k \in 0 .. n /\ k - 1 \in 0 .. n
    BY <1>4
  <2>3. F[k] = Left(y + 1) /\ F[k - 1] = Left(y) /\ g[k] = Mine(s, y)
    BY <2>1, <2>2
  <2> HIDE DEF y, g, F, n
  <2>4. y \in Offsets /\ Inside(y)
    BY <2>1 DEF Offsets, Inside
  <2>5. Mine(s, y) = Delta(Here + y)
    BY <1>3, <2>1, <2>4
  <2>6. Delta(Here + y) = Left(y + 1) - Left(y)
    BY <2>4, LeftIs
  <2> QED
    BY <2>3, <2>5, <2>6
<1>7. F[n] = Left(x + 1) /\ F[0] = Left(base)
  <2>1. base + n = x + 1 /\ base + 0 = base /\ n \in 0 .. n /\ 0 \in 0 .. n
    BY <1>1
  <2> QED
    BY <2>1
<1> HIDE DEF F, g
<1>8. n \in 0 .. n
  BY <1>4
<1> HIDE DEF n
<1>9. h[n] = F[n] - F[0]
  BY <1>2, <1>4, <1>5, <1>6, <1>8, Telescopes
<1> QED
  BY <1>2, <1>7, <1>9 DEF base

-----------------------------------------------------------------------------
(* The warps of a block.                                                    *)
First(s, w) == w * WARP * s                           \* a warp's first offset

\* The threads of a warp; the first and the last of its cells.
LEMMA WarpIs ==
  ASSUME NEW s, Fit(s), NEW x \in Offsets
  PROVE  LET w == ChunkWarp(s, x) IN
         /\ w \in Nat /\ w * WARP \in Nat /\ First(s, w) = (w * WARP) * s /\ First(s, w) \in Nat /\ First(s, w) <= x
         /\ w * WARP <= x \div s
         /\ \A y \in Offsets : First(s, w) <= y /\ y <= x => ChunkWarp(s, y) = w
<1> DEFINE w == ChunkWarp(s, x)
           base == First(s, w)
           t == x \div s
<1>1. s \in Nat \ {0} /\ WARP \in Nat \ {0}
  BY Positive DEF Fit
<1>2. x \in Nat /\ t \in Nat /\ x % s \in 0 .. s - 1 /\ x = t * s + (x % s)
  BY Offset DEF OfThread
<1>3. w \in Nat /\ t % WARP \in 0 .. WARP - 1 /\ t = w * WARP + (t % WARP)
  BY <1>1, <1>2, Division DEF ChunkWarp
<1> HIDE DEF w, t
<1>4. w * WARP \in Nat /\ w * WARP <= t
  BY <1>1, <1>3, Products
<1>5. base = (w * WARP) * s
  BY DEF First
<1> HIDE DEF base
<1>6. (w * WARP) * s <= t * s /\ (w * WARP) * s \in Nat /\ t * s \in Nat
  <2> DEFINE f == w * WARP
  <2>1. f \in Nat /\ f <= t
    BY <1>4
  <2> HIDE DEF f
  <2>2. f * s <= t * s /\ f * s \in Nat /\ t * s \in Nat
    <3>1. CASE f = t
      BY <1>1, <1>2, <3>1, Products
    <3>2. CASE f < t
      BY <1>1, <1>2, <2>1, <3>2, ProductOrder
    <3> QED
      BY <1>2, <2>1, <3>1, <3>2
  <2> QED
    BY <2>2 DEF f
<1>7. base \in Nat /\ base <= x
  BY <1>2, <1>5, <1>6
<1>8. ASSUME NEW y \in Offsets, base <= y, y <= x PROVE ChunkWarp(s, y) = w
  <2> DEFINE u == y \div s
             f == w * WARP
  <2>1. y \in Nat
    BY Positive DEF Offsets
  <2>2. base \div s <= u /\ u <= t
    BY <1>1, <1>2, <1>7, <1>8, <2>1, QuotientOrder DEF t
  <2>3. base \div s = f
    <3>1. f \in Nat /\ 0 \in 0 .. s - 1
      BY <1>1, <1>4
    <3> HIDE DEF f
    <3>2. (f * s + 0) \div s = f
      BY <1>1, <3>1, DivisionUnique
    <3>3. f * s \in Nat
      BY <1>1, <3>1, Products
    <3>4. f * s + 0 = f * s
      BY <3>3
    <3> QED
      BY <1>5, <3>2, <3>4 DEF f
  <2>4. u \in Nat
    BY <1>1, <2>1, Division
  <2> HIDE DEF u
  <2>5. u - f \in 0 .. WARP - 1 /\ f \in Nat
    BY <1>1, <1>2, <1>3, <1>4, <2>2, <2>3, <2>4
  <2>6. u = w * WARP + (u - f)
    BY <2>4, <2>5
  <2>7. (w * WARP + (u - f)) \div WARP = w
    <3> DEFINE r == u - f
    <3>1. r \in 0 .. WARP - 1
      BY <2>5
    <3> HIDE DEF r
    <3>2. (w * WARP + r) \div WARP = w
      BY <1>1, <1>3, <3>1, DivisionUnique
    <3> QED
      BY <3>2 DEF r
  <2>8. u \div WARP = w
    BY <2>6, <2>7
  <2> QED
    BY <2>8 DEF ChunkWarp, u
<1> QED
  BY <1>3, <1>4, <1>5, <1>7, <1>8 DEF w, t, base

\* A warp's last thread: of a warp before the last, the one before the next warp's first.
LEMMA LastIs ==
  ASSUME NEW s, RunsRow(s), NEW w \in OfWarp(s)
  PROVE  \E x \in Offsets :
           /\ LastLane(w) = x \div s /\ s = (x % s) + 1 /\ ChunkWarp(s, x) = w
           /\ w + 1 \in OfWarp(s) => x + 1 = First(s, w + 1)
<1> DEFINE m == NT(s)
           last == IF w + 1 \in OfWarp(s) THEN (w + 1) * WARP - 1 ELSE m - 1
<1>1. Fit(s) /\ s \in Nat \ {0} /\ m \in Nat \ {0} /\ WARP \in Nat \ {0}
  BY Positive DEF RunsRow, Fit
<1>2. OfWarp(s) = 0 .. (m - 1) \div WARP /\ OfThread(s) = 0 .. m - 1
  BY DEF OfWarp, OfThread
<1> DEFINE q == (m - 1) \div WARP
           r == (m - 1) % WARP
<1>3. q \in Nat /\ r \in 0 .. WARP - 1 /\ m - 1 = q * WARP + r /\ m - 1 \in Nat
  <2>1. m - 1 \in Nat
    BY <1>1
  <2> HIDE DEF m
  <2> QED
    BY <1>1, <2>1, Division
<1>4. w \in Nat /\ w <= q /\ OfWarp(s) = 0 .. q
  BY <1>2, <1>3
<1>5. Threads(w) = {t \in OfThread(s) : t \div WARP = w}
  BY BlockIs
<1> HIDE DEF m, q, r
<1>6. last \in OfThread(s) /\ last \div WARP = w /\ (\A t \in OfThread(s) : t \div WARP = w => t <= last)
        /\ (w + 1 \in OfWarp(s) => last + 1 = (w + 1) * WARP)
  <2>1. CASE w + 1 \in OfWarp(s)
    <3>1. w + 1 <= q /\ last = (w + 1) * WARP - 1
      BY <1>3, <1>4, <2>1
    <3>2. (w + 1) * WARP = w * WARP + WARP /\ w * WARP \in Nat /\ (w + 1) * WARP \in Nat
      BY <1>1, <1>4, Products
    <3>3. (w + 1) * WARP <= q * WARP /\ q * WARP \in Nat
      <4> DEFINE v == w + 1
      <4>1. v \in Nat /\ v <= q
        BY <1>4, <3>1
      <4> HIDE DEF v
      <4>2. v * WARP <= q * WARP /\ q * WARP \in Nat
        <5>1. CASE v = q
          BY <1>1, <1>3, <5>1, Products
        <5>2. CASE v < q
          BY <1>1, <1>3, <4>1, <5>2, ProductOrder
        <5> QED
          BY <1>3, <4>1, <5>1, <5>2
      <4> QED
        BY <4>2 DEF v
    <3> HIDE DEF last
    <3> DEFINE a == w * WARP
               b == q * WARP
    <3>4. a \in Nat /\ b \in Nat /\ a + WARP <= b /\ last = a + WARP - 1 /\ m - 1 = b + r /\ (w + 1) * WARP = a + WARP
      BY <1>1, <1>3, <3>1, <3>2, <3>3
    <3>5. (a + (WARP - 1)) \div WARP = w
      <4>1. WARP - 1 \in 0 .. WARP - 1
        BY <1>1
      <4> DEFINE e == WARP - 1
      <4>2. e \in 0 .. WARP - 1
        BY <4>1
      <4> HIDE DEF e
      <4>3. (w * WARP + e) \div WARP = w
        BY <1>1, <1>4, <4>2, DivisionUnique
      <4> QED
        BY <4>3 DEF e
    <3> HIDE DEF a, b
    <3>6. last \in 0 .. m - 1 /\ last = a + (WARP - 1) /\ last + 1 = a + WARP
      BY <1>1, <1>3, <3>4
    <3>7. ASSUME NEW t \in 0 .. m - 1, t \div WARP = w PROVE t <= last
      <4>1. t \in Nat /\ t % WARP \in 0 .. WARP - 1 /\ t = w * WARP + (t % WARP)
        <5>1. t \in Nat
          BY <1>1
        <5> QED
          BY <1>1, <3>7, <5>1, Division
      <4>2. t = a + (t % WARP)
        BY <4>1 DEF a
      <4> QED
        BY <1>1, <3>4, <3>6, <4>1, <4>2
    <3> QED
      BY <1>2, <3>4, <3>5, <3>6, <3>7
  <2>2. CASE w + 1 \notin OfWarp(s)
    <3>1. w = q /\ last = m - 1
      BY <1>3, <1>4, <2>2
    <3> HIDE DEF last
    <3>2. (m - 1) \div WARP = w
      BY <3>1 DEF q
    <3>3. m - 1 \in 0 .. m - 1 /\ \A t \in 0 .. m - 1 : t <= m - 1
      BY <1>1
    <3> QED
      BY <1>2, <2>2, <3>1, <3>2, <3>3
  <2> QED
    BY <2>1, <2>2
<1> HIDE DEF last
<1>7. last \in Threads(w) /\ \A t \in Threads(w) : t <= last /\ t \in OfThread(s)
  BY <1>5, <1>6
<1>8. LastLane(w) = last
  <2> DEFINE l == CHOOSE t \in Threads(w) : \A u \in Threads(w) : u <= t
  <2>1. l \in Threads(w) /\ \A u \in Threads(w) : u <= l
    BY <1>7
  <2>2. LastLane(w) = l
    BY DEF LastLane
  <2> HIDE DEF l
  <2>3. l <= last /\ last <= l /\ l \in Int /\ last \in Int
    BY <1>1, <1>2, <1>6, <1>7, <2>1
  <2> QED
    BY <2>2, <2>3
<1> DEFINE x == last * s + s - 1
<1>9. x \in Offsets /\ x \div s = last /\ x % s = s - 1
  <2>1. s \in 1 .. s
    BY <1>1
  <2> QED
    BY <1>1, <1>6, <2>1, ThreadCell
<1>10. ChunkWarp(s, x) = w
  BY <1>6, <1>9 DEF ChunkWarp
<1>11. w + 1 \in OfWarp(s) => x + 1 = First(s, w + 1)
  <2>1. SUFFICES ASSUME w + 1 \in OfWarp(s) PROVE x + 1 = First(s, w + 1)
    OBVIOUS
  <2>2. last \in Nat /\ last + 1 = (w + 1) * WARP
    BY <1>1, <1>2, <1>6, <2>1
  <2>3. (last + 1) * s = last * s + s /\ last * s \in Nat
    BY <1>1, <2>2, Products
  <2>4. x + 1 = (last + 1) * s
    BY <1>1, <2>3
  <2> QED
    BY <2>2, <2>4 DEF First
<1> HIDE DEF x
<1>12. (s - 1) + 1 = s
  BY <1>1
<1> QED
  BY <1>8, <1>9, <1>10, <1>11, <1>12

\* What the first thread adds up for warp v.
Exchanged(v) == Total(LAMBDA u : Read(In(u - 1)), v)

\* What a warp adds up of the sums of the warps before it.
LEMMA ExchangeIs ==
  ASSUME ShmTypes, NEW v \in Nat
  PROVE  \E h : Adds(h, v, [k \in 1 .. v |-> Read(In(k - 1))]) /\ Exchanged(v) = h[v]
<1> DEFINE e(k) == Read(In(k - 1))
           g == [k \in 1 .. v |-> e(k)]
           total == CHOOSE s : s = [k \in 0 .. v |-> IF k = 0 THEN 0 ELSE Plus(s[k - 1], e(k))]
<1>1. \A k \in 1 .. v : g[k] \in Value
  BY ReadTyped
<1>2. ASSUME NEW s PROVE Sums(s, v, g) <=> s = [k \in 0 .. v |-> IF k = 0 THEN 0 ELSE Plus(s[k - 1], e(k))]
  <2>1. \A k \in 0 .. v : (IF k = 0 THEN 0 ELSE Plus(s[k - 1], g[k])) = IF k = 0 THEN 0 ELSE Plus(s[k - 1], e(k))
    <3>1. ASSUME NEW k \in 0 .. v, k # 0 PROVE g[k] = e(k)
      <4>1. k \in 1 .. v
        BY <3>1
      <4> HIDE DEF e
      <4> QED
        BY <4>1
    <3> HIDE DEF g, e
    <3> QED
      BY <3>1
  <2> HIDE DEF g, e
  <2> QED
    BY <2>1 DEF Sums
<1>3. Sums(total, v, g)
  <2>1. PICK s1 : Sums(s1, v, g)
    <3> HIDE DEF g
    <3> QED
      BY <1>1, SumHas
  <2>2. s1 = [k \in 0 .. v |-> IF k = 0 THEN 0 ELSE Plus(s1[k - 1], e(k))]
    BY <1>2, <2>1
  <2>3. total = [k \in 0 .. v |-> IF k = 0 THEN 0 ELSE Plus(total[k - 1], e(k))]
    <3> HIDE DEF e
    <3> QED
      BY <2>2
  <2> HIDE DEF total
  <2> QED
    BY <1>2, <2>3
<1>4. Exchanged(v) = total[v]
  BY DEF Exchanged, Total
<1>5. Adds(total, v, g)
  <2> HIDE DEF g, total
  <2> QED
    BY <1>1, <1>3, SumIs
<1> HIDE DEF total
<1> QED
  BY <1>4, <1>5

\* That is a value.
LEMMA ExchangeTyped ==
  ASSUME ShmTypes, NEW v \in Nat
  PROVE  Exchanged(v) \in Value
<1> DEFINE g == [k \in 1 .. v |-> Read(In(k - 1))]
<1>1. PICK h : Adds(h, v, g) /\ Exchanged(v) = h[v]
  BY ExchangeIs
<1> HIDE DEF g
<1>2. h \in [0 .. v -> Value] /\ v \in 0 .. v
  BY <1>1 DEF Adds
<1> QED
  BY <1>1, <1>2

\* F[v] where each warp's total is a difference of F.
LEMMA ExchangeSum ==
  ASSUME ShmTypes, NEW v \in Nat, NEW F, \A w \in 0 .. v : F[w] \in Int,
         \A w \in 0 .. v - 1 : Read(In(w)) = F[w + 1] - F[w]
  PROVE  Exchanged(v) = F[v] - F[0]
<1> DEFINE g == [k \in 1 .. v |-> Read(In(k - 1))]
<1>1. PICK h : Adds(h, v, g) /\ Exchanged(v) = h[v]
  BY ExchangeIs
<1>2. \A k \in 1 .. v : g[k] = F[k] - F[k - 1]
  <2>1. ASSUME NEW k \in 1 .. v PROVE g[k] = F[k] - F[k - 1]
    <3>1. k - 1 \in 0 .. v - 1 /\ (k - 1) + 1 = k
      OBVIOUS
    <3>2. Read(In(k - 1)) = F[k] - F[k - 1]
      BY <3>1
    <3> QED
      BY <3>2
  <2> QED
    BY <2>1
<1> HIDE DEF g
<1>3. v \in 0 .. v
  OBVIOUS
<1>4. h[v] = F[v] - F[0]
  BY <1>1, <1>2, <1>3, Telescopes
<1> QED
  BY <1>1, <1>4

-----------------------------------------------------------------------------
(* The invariant.                                                           *)
RowLaunch ==
  /\ field \in Fields /\ IsRow(field)
  /\ pair \in Pairs /\ pair = "lorenzo_1d" /\ next = "none" /\ ti1 = <<>> /\ kernels = launch["lorenzo_1d"]
  /\ ghost = 0
ArrayTypes ==
  /\ DOMAIN quant = 0 .. Length - 1 /\ DOMAIN outlier = 0 .. Length - 1
  /\ \A id \in DOMAIN outlier : outlier[id] \in Value
  /\ DOMAIN list \subseteq DOMAIN outlier /\ \A id \in DOMAIN list : list[id] \in Value
  /\ overtaken = FALSE /\ overrun = FALSE
Idle == DOMAIN at = {} /\ DOMAIN reg = {} /\ DOMAIN shm = {}

\* The warps of a block are between the same two barriers.
Abreast(s)    == \A v, w \in OfWarp(s) : (at[v] - 1) \div 2 = (at[w] - 1) \div 2
AtTypes(s, n) == at \in [OfWarp(s) -> 1 .. n + 1] /\ Abreast(s)
BlockTypes(s, n) == block \in 0 .. Grid - 1 /\ AtTypes(s, n) /\ RegTypes(s) /\ ShmTypes

Coded(id) == quant[id] = Code("dense", Delta(id))
Exact(id) == Coded(id) /\ outlier[id] = Outlier(Delta(id))

AtStripe(s, x) == at[StripeWarp(s, x)]
AtChunk(s, x)  == at[ChunkWarp(s, x)]

\* What has become of a cell of the block that is predicted.
InMemory(x)  == Read(C(x)) = P(Here + x)
InThread(x)  == Mine(SEQ, x) = P(Here + x) /\ reg[x \div SEQ][x % SEQ] = Left(x)
Quantized(x) == /\ C(x) \in DOMAIN sq /\ sq[C(x)] = Code("dense", Delta(Here + x))
                /\ Read(C(x)) = Outlier(Delta(Here + x))
CompressCell(x) ==
  /\ AtStripe(SEQ, x) >= 2 /\ AtChunk(SEQ, x) <= 5 => InMemory(x)
  /\ AtChunk(SEQ, x) >= 4 => InThread(x)
  /\ AtChunk(SEQ, x) >= 6 => Quantized(x)
  /\ AtStripe(SEQ, x) >= 8 => Exact(Here + x)
Compressing ==
  /\ BlockTypes(SEQ, 7)
  /\ \A id \in 0 .. Length - 1 : id < Here => Exact(id)
  /\ \A x \in Offsets : Inside(x) => CompressCell(x)

\* What has become of a cell of the block that is reconstructed; of a warp's sum.
Fused(x)     == Read(C(x)) = Delta(Here + x)
Taken(x)     == Mine(XSEQ, x) = Delta(Here + x)
Scanned(x)   == Mine(XSEQ, x) = Left(x + 1) - Left(First(XSEQ, ChunkWarp(XSEQ, x)))
Summed(x)    == Mine(XSEQ, x) = Left(x + 1)
PutThere(x)  == Read(C(x)) = Left(x + 1) * EBX2
DecompressCell(x) ==
  /\ AtStripe(XSEQ, x) >= 2 /\ AtChunk(XSEQ, x) <= 11 => Fused(x)
  /\ AtChunk(XSEQ, x) \in 4 .. 5 => Taken(x)
  /\ AtChunk(XSEQ, x) \in 6 .. 9 => Scanned(x)
  /\ AtChunk(XSEQ, x) >= 10 => Summed(x)
  /\ AtChunk(XSEQ, x) >= 12 => PutThere(x)
TotalIn(w)   == Read(In(w)) = Left(First(XSEQ, w + 1)) - Left(First(XSEQ, w))
TotalEx(w)   == Read(Ex(w)) = Left(First(XSEQ, w))
DecompressWarp(w) ==
  /\ at[w] >= 6 /\ w + 1 \in OfWarp(XSEQ) /\ Inside(First(XSEQ, w + 1)) => TotalIn(w)
  /\ at[0] >= 8 /\ Inside(First(XSEQ, w)) => TotalEx(w)
Rebuilt(id)  == id < Here \/ \E x \in Offsets : id = Here + x /\ AtStripe(XSEQ, x) = 14
Held(id)     == Coded(id) /\ outlier[id] = IF Rebuilt(id) THEN P(id) * EBX2 ELSE Outlier(Delta(id))
Decompressing ==
  /\ BlockTypes(XSEQ, 13)
  /\ \A id \in 0 .. Length - 1 : Held(id)
  /\ \A x \in Offsets : Inside(x) => DecompressCell(x)
  /\ \A w \in OfWarp(XSEQ) : DecompressWarp(w)

RowInv ==
  /\ RowLaunch /\ ArrayTypes
  /\ \/ phase = "compress" /\ Compressing
     \/ phase = "scatter" /\ Idle /\ \A id \in 0 .. Length - 1 : Exact(id)
     \/ phase = "gathered" /\ Idle /\ \A id \in 0 .. Length - 1 :
          Exact(id) /\ outlier[id] = IF id \in DOMAIN list THEN list[id] ELSE 0
     \/ phase = "decompress" /\ Decompressing
     \/ phase = "done" /\ Idle /\ \A id \in 0 .. Length - 1 : outlier[id] = P(id) * EBX2

-----------------------------------------------------------------------------
(* The block that runs, and what a step leaves alone.                       *)
LEMMA CompressRuns ==
  ASSUME RowLaunch, phase = "compress", block \in 0 .. Grid - 1
  PROVE  RunsRow(SEQ) /\ CompressProg(Running.prog)
<1>1. Running = v0_c_1d(SEQ)
  BY KernelsAre DEF RowLaunch, Running
<1> QED
  BY <1>1, CompressIs, BothFit DEF RunsRow, RowLaunch

\* And in reconstruction.
LEMMA DecompressRuns ==
  ASSUME RowLaunch, phase = "decompress", block \in 0 .. Grid - 1
  PROVE  RunsRow(XSEQ) /\ DecompressProg(Running.prog)
<1>1. Running = v0_x_1d(XSEQ)
  BY KernelsAre DEF RowLaunch, Running
<1> QED
  BY <1>1, DecompressIs, BothFit DEF RunsRow, RowLaunch

\* A step within a block.
Within == UNCHANGED <<launched, phase, block>>

\* Within a block the launch and its geometry stay as they are.
LEMMA Steady ==
  ASSUME Within
  PROVE  /\ Here' = Here /\ Length' = Length /\ Grid' = Grid /\ phase' = phase /\ block' = block
         /\ \A x : Inside(x)' <=> Inside(x)
         /\ (\A id : P(id)' = P(id)) /\ (\A id : Delta(id)' = Delta(id)) /\ \A y : Left(y)' = Left(y)
         /\ RowLaunch => RowLaunch'
<1>1. Here' = Here /\ Length' = Length /\ field' = field /\ phase' = phase /\ block' = block
  BY DEF Within, Here, Length, launched
<1>2. Grid' = Grid
  BY <1>1 DEF Grid
<1>3. \A x : Inside(x)' <=> Inside(x)
  BY <1>1 DEF Inside
<1>4. \A id : P(id)' = P(id)
  BY <1>1 DEF P
<1>5. \A id : Delta(id)' = Delta(id)
  BY <1>4 DEF Delta
<1>6. \A y : Left(y)' = Left(y)
  BY <1>1, <1>4 DEF Left
<1>7. RowLaunch => RowLaunch'
  BY DEF Within, launched, RowLaunch, IsRow
<1> QED
  BY <1>1, <1>2, <1>3, <1>4, <1>5, <1>6, <1>7

\* A warp goes on from a stage that is not a barrier.
Moves(s, w, m) == \A v \in OfWarp(s) : at[v] \in {m, m + 1} /\ at'[v] = IF v = w THEN m + 1 ELSE at[v]

\* A warp that takes a stage, while the others are between the same barriers.
LEMMA AdvancedBy ==
  ASSUME NEW s, NEW n \in Nat, AtTypes(s, n), NEW w \in OfWarp(s), Advance(w),
         NEW k \in Nat, at[w] = 2 * k + 1, at[w] <= n
  PROVE  /\ AtTypes(s, n)' /\ Within
         /\ \A v \in OfWarp(s) : at[v] \in {2 * k + 1, 2 * k + 2} /\ at'[v] = IF v = w THEN 2 * k + 2 ELSE at[v]
<1>1. at \in [OfWarp(s) -> 1 .. n + 1] /\ \A v, u \in OfWarp(s) : (at[v] - 1) \div 2 = (at[u] - 1) \div 2
  BY DEF AtTypes, Abreast
<1>2. at' = [at EXCEPT ![w] = @ + 1] /\ Within
  BY DEF Advance, Within
<1>3. (at[w] - 1) \div 2 = k
  <2>1. at[w] - 1 = 2 * k
    OBVIOUS
  <2>2. (2 * k) \div 2 = k
    OBVIOUS
  <2> QED
    BY <2>1, <2>2
<1>4. ASSUME NEW v \in OfWarp(s) PROVE at[v] \in {2 * k + 1, 2 * k + 2}
  <2> DEFINE a == at[v]
  <2>1. a \in 1 .. n + 1 /\ (a - 1) \div 2 = k
    BY <1>1, <1>3
  <2> HIDE DEF a
  <2>2. a \in {2 * k + 1, 2 * k + 2}
    BY <2>1
  <2> QED
    BY <2>2 DEF a
<1>5. \A v \in OfWarp(s) : at'[v] = IF v = w THEN 2 * k + 2 ELSE at[v]
  <2>1. at[w] + 1 = 2 * k + 2
    OBVIOUS
  <2> QED
    BY <1>1, <1>2, <2>1
<1>6. at' \in [OfWarp(s) -> 1 .. n + 1]
  <2>1. at[w] + 1 \in 1 .. n + 1
    BY <1>1
  <2> QED
    BY <1>1, <1>2, <2>1
<1>7. Abreast(s)'
  <2>1. ASSUME NEW v \in OfWarp(s) PROVE (at'[v] - 1) \div 2 = k
    <3>1. at'[v] \in {2 * k + 1, 2 * k + 2}
      BY <1>4, <1>5
    <3>2. (2 * k + 1 - 1) \div 2 = k /\ (2 * k + 2 - 1) \div 2 = k
      OBVIOUS
    <3> QED
      BY <3>1, <3>2
  <2> QED
    BY <2>1 DEF Abreast
<1> QED
  BY <1>2, <1>4, <1>5, <1>6, <1>7 DEF AtTypes

\* The same for a kernel whose odd stages are those of warps.
LEMMA Advanced ==
  ASSUME NEW s, NEW n \in Nat, AtTypes(s, n), NEW w \in OfWarp(s), Advance(w),
         NEW m \in Nat, at[w] = m, m % 2 = 1, m <= n
  PROVE  AtTypes(s, n)' /\ Within /\ Moves(s, w, m)
<1> DEFINE k == m \div 2
<1>1. k \in Nat /\ m = 2 * k + 1
  OBVIOUS
<1> HIDE DEF k
<1>2. 2 * k + 2 = m + 1
  BY <1>1
<1>3. /\ AtTypes(s, n)' /\ Within
      /\ \A v \in OfWarp(s) : at[v] \in {2 * k + 1, 2 * k + 2} /\ at'[v] = IF v = w THEN 2 * k + 2 ELSE at[v]
  BY <1>1, AdvancedBy
<1> QED
  BY <1>1, <1>2, <1>3 DEF Moves

\* All of them pass a barrier.
LEMMA Synced ==
  ASSUME NEW s, NEW n \in Nat, AtTypes(s, n), OfWarp(s) # {}, Everyone,
         \A v \in OfWarp(s) : at[v] <= n /\ \E j \in Nat : at[v] = 2 * j + 2
  PROVE  /\ AtTypes(s, n)' /\ Within
         /\ \E k \in Nat : \A v \in OfWarp(s) : at[v] = 2 * k + 2 /\ at'[v] = 2 * k + 3
<1>1. at \in [OfWarp(s) -> 1 .. n + 1] /\ \A v, u \in OfWarp(s) : (at[v] - 1) \div 2 = (at[u] - 1) \div 2
  BY DEF AtTypes, Abreast
<1>2. at' = [v \in OfWarp(s) |-> at[v] + 1] /\ Within
  BY <1>1 DEF Everyone, Within
<1>3. PICK u \in OfWarp(s) : TRUE
  OBVIOUS
<1>4. PICK k \in Nat : at[u] = 2 * k + 2
  BY <1>3
<1>5. ASSUME NEW v \in OfWarp(s) PROVE at[v] = 2 * k + 2
  <2>1. PICK j \in Nat : at[v] = 2 * j + 2
    OBVIOUS
  <2>2. (at[v] - 1) \div 2 = (at[u] - 1) \div 2
    BY <1>1, <1>3
  <2>3. (2 * j + 2 - 1) \div 2 = j /\ (2 * k + 2 - 1) \div 2 = k
    OBVIOUS
  <2>4. j = k
    BY <1>4, <2>1, <2>2, <2>3
  <2> QED
    BY <2>1, <2>4
<1>6. ASSUME NEW v \in OfWarp(s) PROVE at'[v] = 2 * k + 3 /\ at'[v] \in 1 .. n + 1
  <2>1. at[v] = 2 * k + 2 /\ at[v] <= n /\ at'[v] = at[v] + 1
    BY <1>2, <1>5
  <2> QED
    BY <2>1
<1>7. at' \in [OfWarp(s) -> 1 .. n + 1]
  BY <1>2, <1>6
<1>8. Abreast(s)'
  <2>1. \A v \in OfWarp(s) : at'[v] = 2 * k + 3
    BY <1>6
  <2> QED
    BY <2>1 DEF Abreast
<1> QED
  BY <1>2, <1>5, <1>6, <1>7, <1>8 DEF AtTypes

\* Some warp runs, the first.
LEMMA FirstWarp ==
  ASSUME NEW s, Fit(s)
  PROVE  0 \in OfWarp(s) /\ OfWarp(s) \subseteq Nat
<1>1. NT(s) - 1 \in Nat
  BY DEF Fit
<1>2. (NT(s) - 1) \div WARP \in Nat
  <2> DEFINE m == NT(s) - 1
  <2>1. m \in Nat /\ WARP \in Nat \ {0}
    BY <1>1, Positive
  <2> HIDE DEF m
  <2>2. m \div WARP \in Nat
    BY <2>1, Division
  <2> QED
    BY <2>2 DEF m
<1> QED
  BY <1>2 DEF OfWarp

-----------------------------------------------------------------------------
(* Which step a warp can take where.                                        *)
OtherStages == {"load", "north", "predict_2d", "quantize", "diff_zx", "diff_y", "tile_in", "tile_or_zero", "predict_tile",
  "sum_seq", "half_out", "half_in", "scan_x", "scan", "transpose", "write", "accumulate", "cub_load", "cub_store",
  "up", "add", "tile_out", "stripe_out_null"}

\* The stages that neither program has are never taken.
LEMMA OtherSteps ==
  ASSUME NEW w, WarpStep(w), \A name \in OtherStages : ~Op(w, name)
  PROVE  StripeIn(w) \/ Take(w) \/ Quantize1d(w) \/ StripeOut(w) \/ ScanWarp(w) \/ Exchange(w) \/ Propagate(w) \/ PutBack(w)
<1>1. ~Load(w)
  BY DEF Load, OtherStages
<1>2. ~North(w)
  BY DEF North, OtherStages
<1>3. ~Predict2d(w)
  BY DEF Predict2d, OtherStages
<1>4. ~Quantize(w)
  BY DEF Quantize, OtherStages
<1>5. ~DiffZXStore(w)
  BY DEF DiffZXStore, OtherStages
<1>6. ~DiffY(w)
  BY DEF DiffY, OtherStages
<1>7. ~TileIn(w)
  BY DEF TileIn, OtherStages
<1>8. ~TileOrZero(w)
  BY DEF TileOrZero, OtherStages
<1>9. ~PredictTile(w)
  BY DEF PredictTile, OtherStages
<1>10. ~SumSeq(w)
  BY DEF SumSeq, OtherStages
<1>11. ~HalfOut(w)
  BY DEF HalfOut, OtherStages
<1>12. ~HalfIn(w)
  BY DEF HalfIn, OtherStages
<1>13. ~ScanX(w)
  BY DEF ScanX, OtherStages
<1>14. ~Scan(w)
  BY DEF Scan, OtherStages
<1>15. ~Transpose(w)
  BY DEF Transpose, OtherStages
<1>16. ~Write(w)
  BY DEF Write, OtherStages
<1>17. ~Accumulate(w)
  BY DEF Accumulate, OtherStages
<1>18. ~CubLoad(w)
  BY DEF CubLoad, OtherStages
<1>19. ~CubStore(w)
  BY DEF CubStore, OtherStages
<1>20. ~Up(w)
  BY DEF Up, OtherStages
<1>21. ~Add(w)
  BY DEF Add, OtherStages
<1>22. ~TileOut(w)
  BY DEF TileOut, OtherStages
<1>23. ~StripeOutNull(w)
  BY DEF StripeOutNull, OtherStages
<1> QED
  BY <1>1, <1>2, <1>3, <1>4, <1>5, <1>6, <1>7, <1>8, <1>9, <1>10, <1>11, <1>12, <1>13, <1>14, <1>15, <1>16, <1>17, <1>18, <1>19, <1>20, <1>21, <1>22, <1>23 DEF WarpStep

\* The stage that a warp of v0_c_1d is at decides its step.
LEMMA CompressOps ==
  ASSUME CompressProg(Running.prog), AtTypes(SEQ, 7), NEW w \in OfWarp(SEQ), NEW name, Op(w, name)
  PROVE  /\ at[w] <= 7
         /\ \/ name = "stripe_in" /\ at[w] = 1 /\ Arg(w) = "prequant"
            \/ name = "take" /\ at[w] = 3 /\ Arg(w) = "prev"
            \/ name = "quantize_1d" /\ at[w] = 5 /\ Arg(w) = "dense"
            \/ name = "stripe_out" /\ at[w] = 7 /\ Arg(w) = "both"
            \/ name = "sync" /\ at[w] \in {2, 4, 6}
<1> DEFINE n == at[w]
           p == Running.prog
<1>1. n \in 1 .. 8 /\ n <= Len(p) /\ p[n][1] = name /\ Arg(w) = p[n][2] /\ CompressProg(p)
  BY DEF AtTypes, Op, Arg
<1> HIDE DEF n, p
<1>2. n \in 1 .. 7
  BY <1>1 DEF CompressProg
<1>3. CASE n \in {1, 3, 5, 7}
  BY <1>1, <1>3 DEF CompressProg, n
<1>4. CASE n \in {2, 4, 6}
  BY <1>1, <1>4 DEF CompressProg, n
<1> QED
  BY <1>2, <1>3, <1>4

\* And that of v0_x_1d.
LEMMA DecompressOps ==
  ASSUME DecompressProg(Running.prog), AtTypes(XSEQ, 13), NEW w \in OfWarp(XSEQ), NEW name, Op(w, name)
  PROVE  /\ at[w] <= 13
         /\ \/ name = "stripe_in" /\ at[w] = 1 /\ Arg(w) = "fuse"
            \/ name = "take" /\ at[w] = 3 /\ Arg(w) = "-"
            \/ name = "scan_warp" /\ at[w] = 5
            \/ name = "exchange" /\ at[w] = 7
            \/ name = "propagate" /\ at[w] = 9
            \/ name = "put_back" /\ at[w] = 11
            \/ name = "stripe_out" /\ at[w] = 13 /\ Arg(w) = "xdata"
            \/ name = "sync" /\ at[w] \in {2, 4, 6, 8, 10, 12}
<1> DEFINE n == at[w]
           p == Running.prog
<1>1. n \in 1 .. 14 /\ n <= Len(p) /\ p[n][1] = name /\ Arg(w) = p[n][2] /\ DecompressProg(p)
  BY DEF AtTypes, Op, Arg
<1> HIDE DEF n, p
<1>2. n \in 1 .. 13
  BY <1>1 DEF DecompressProg
<1>3. CASE n \in {1, 3, 5, 7, 9, 11, 13}
  BY <1>1, <1>3 DEF DecompressProg, n
<1>4. CASE n \in {2, 4, 6, 8, 10, 12}
  BY <1>1, <1>4 DEF DecompressProg, n
<1> QED
  BY <1>2, <1>3, <1>4

-----------------------------------------------------------------------------
(* Prediction, stage by stage.                                              *)
CompressAt(w) ==
  /\ RowLaunch /\ ArrayTypes /\ phase = "compress" /\ Compressing
  /\ RunsRow(SEQ) /\ CompressProg(Running.prog) /\ w \in OfWarp(SEQ)

\* What v0_c_1d loads is the prequantized value.
LEMMA FetchPrequant ==
  ASSUME RowLaunch, NEW id \in 0 .. Length - 1
  PROVE  Fetch("prequant", id) = P(id) /\ P(id) \in Int
<1>1. ~InPlace(pair)
  BY DEF RowLaunch, InPlace
<1>2. field.data[id] \in Int /\ P(id) \in Int
  BY DeltaInt DEF RowLaunch
<1>3. field.data[id] # Undef
  BY <1>2, UndefApart
<1>4. Fetch("prequant", id) = prequant(field.data[id])
  BY <1>1, <1>3 DEF Fetch
<1> QED
  BY <1>2, <1>4 DEF P

\* load_prequant_1d puts its stripe into shared memory.
LEMMA StripeInCompress ==
  ASSUME NEW w, CompressAt(w), StripeIn(w)
  PROVE  Compressing' /\ ArrayTypes' /\ Within
<1>1. at[w] = 1 /\ Arg(w) = "prequant" /\ at[w] <= 7 /\ AtTypes(SEQ, 7) /\ w \in OfWarp(SEQ) /\ Op(w, "stripe_in") /\ Advance(w)
  BY CompressOps DEF CompressAt, Compressing, BlockTypes, StripeIn
<1>2. /\ AtTypes(SEQ, 7)' /\ Within
      /\ \A v \in OfWarp(SEQ) : at[v] \in {1, 2} /\ at'[v] = IF v = w THEN 2 ELSE at[v]
  <2>1. AtTypes(SEQ, 7)' /\ Within /\ Moves(SEQ, w, 1)
    BY <1>1, Advanced
  <2> QED
    BY <2>1 DEF Moves
<1> DEFINE X == {x \in Stripes(SEQ, w) : Inside(x)}
           f == [c \in Valid(Stripe(w)) |-> Fetch("prequant", Id(c))]
<1>3. Valid(Stripe(w)) = CellsOf(X)
  <2>1. Stripe(w) = CellsOf(Stripes(SEQ, w)) /\ Stripes(SEQ, w) \in SUBSET Offsets
    BY StripeIs DEF CellsOf, CompressAt, Stripes
  <2> QED
    BY <2>1, ValidOf DEF CompressAt
<1>4. shm' = IntoRow(shm, f) /\ overrun' = (overrun \/ Spills(f))
        /\ UNCHANGED <<reg, sq, quant, outlier, xdata, list, count, overtaken>>
  BY <1>1 DEF StripeIn
<1>5. DOMAIN f = CellsOf(X) /\ \A x \in X : f[C(x)] = P(Here + x) /\ P(Here + x) \in Int
  <2>1. DOMAIN f = CellsOf(X)
    BY <1>3
  <2>2. ASSUME NEW x \in X PROVE f[C(x)] = P(Here + x) /\ P(Here + x) \in Int
    <3>1. x \in Offsets /\ Inside(x) /\ RunsRow(SEQ) /\ RowLaunch
      BY DEF Stripes, CompressAt
    <3>2. Here + x \in 0 .. Length - 1 /\ x \in Nat
      BY <3>1, IndexOf
    <3>3. Id(C(x)) = Here + x
      BY <3>1, <3>2, CellAt
    <3>4. Fetch("prequant", Here + x) = P(Here + x) /\ P(Here + x) \in Int
      BY <3>1, <3>2, FetchPrequant
    <3>5. C(x) \in CellsOf(X)
      BY DEF CellsOf
    <3> QED
      BY <1>3, <3>3, <3>4, <3>5
  <2> QED
    BY <2>1, <2>2
<1> HIDE DEF f, X
<1>6. \A c \in DOMAIN f : \E x \in X : c = C(x)
  BY <1>5 DEF CellsOf
<1>7. X \subseteq Offsets
  BY DEF X, Stripes
<1>8. ~Spills(f) /\ shm' = Over(shm, f)
  BY <1>4, <1>6, <1>7, RowFits DEF CompressAt
<1>9. Reads1(f) /\ ShmTypes'
  <2>1. MapTypes(f)
    BY <1>5, <1>6, UndefApart DEF MapTypes
  <2> QED
    BY <1>8, <2>1, ReadOver DEF CompressAt, Compressing, BlockTypes
<1>10. /\ Here' = Here /\ Length' = Length /\ Grid' = Grid
       /\ (\A x : Inside(x)' <=> Inside(x)) /\ (\A id : P(id)' = P(id)) /\ \A id : Delta(id)' = Delta(id)
  BY <1>2, Steady
<1>11. ASSUME NEW x \in Offsets, Inside(x) PROVE CompressCell(x)'
  <2>1. StripeWarp(SEQ, x) \in OfWarp(SEQ) /\ ChunkWarp(SEQ, x) \in OfWarp(SEQ)
    BY Offset DEF CompressAt, RunsRow
  <2>2. AtStripe(SEQ, x) \in {1, 2} /\ AtChunk(SEQ, x) \in {1, 2}
          /\ AtStripe(SEQ, x)' = (IF StripeWarp(SEQ, x) = w THEN 2 ELSE AtStripe(SEQ, x)) /\ AtChunk(SEQ, x)' \in {1, 2}
    BY <1>2, <2>1 DEF AtStripe, AtChunk
  <2>3. ASSUME AtStripe(SEQ, x)' >= 2 PROVE InMemory(x)'
    <3>1. CASE StripeWarp(SEQ, x) = w
      <4>1. x \in X
        BY <1>11, <3>1 DEF X, Stripes
      <4>2. C(x) \in DOMAIN f /\ f[C(x)] = P(Here + x)
        BY <1>5, <4>1 DEF CellsOf
      <4>3. Read(C(x))' = P(Here + x)
        BY <1>9, <4>2 DEF Reads1
      <4> QED
        BY <1>10, <4>3 DEF InMemory
    <3>2. CASE StripeWarp(SEQ, x) # w
      <4>1. InMemory(x)
        <5>1. CompressCell(x)
          BY <1>11 DEF CompressAt, Compressing
        <5> QED
          BY <2>2, <2>3, <3>2, <5>1 DEF CompressCell
      <4>2. C(x) \notin DOMAIN f
        <5>1. ASSUME NEW y \in X, C(x) = C(y) PROVE FALSE
          <6>1. x = y
            BY <5>1, CellsApart
          <6> QED
            BY <3>2, <6>1 DEF X, Stripes
        <5> QED
          BY <1>6, <5>1
      <4>3. Read(C(x))' = Read(C(x))
        BY <1>9, <4>2 DEF Reads1
      <4> QED
        BY <1>10, <4>1, <4>3 DEF InMemory
    <3> QED
      BY <3>1, <3>2
  <2> QED
    BY <2>2, <2>3 DEF CompressCell
<1>12. BlockTypes(SEQ, 7)'
  <2>1. RegTypes(SEQ)' /\ (block \in 0 .. Grid - 1)'
    BY <1>2, <1>4, <1>10 DEF RegTypes, CompressAt, Compressing, BlockTypes, Within
  <2> QED
    BY <1>2, <1>9, <2>1 DEF BlockTypes
<1>13. \A id \in 0 .. Length - 1 : id < Here => Exact(id)'
  BY <1>4, <1>10 DEF CompressAt, Compressing, Exact, Coded
<1>14. ArrayTypes'
  BY <1>4, <1>8, <1>10 DEF ArrayTypes, CompressAt
<1> QED
  BY <1>2, <1>10, <1>11, <1>12, <1>13, <1>14 DEF Compressing

\* How the cells' warps move, and what stays.
CellMoves(s, w, m) ==
  \A x \in Offsets :
    /\ AtStripe(s, x) \in {m, m + 1} /\ AtStripe(s, x)' = IF StripeWarp(s, x) = w THEN m + 1 ELSE AtStripe(s, x)
    /\ AtChunk(s, x) \in {m, m + 1} /\ AtChunk(s, x)' = IF ChunkWarp(s, x) = w THEN m + 1 ELSE AtChunk(s, x)
Stays ==
  /\ Here' = Here /\ Length' = Length /\ Grid' = Grid /\ block' = block
  /\ (\A x : Inside(x)' <=> Inside(x)) /\ (\A id : P(id)' = P(id)) /\ (\A id : Delta(id)' = Delta(id))
  /\ \A y : Left(y)' = Left(y)

\* Where the warps of a cell's stripe and chunk are, after one of them took a stage.
LEMMA CellsMove ==
  ASSUME NEW s, RunsRow(s), NEW w, NEW m, Moves(s, w, m)
  PROVE  CellMoves(s, w, m)
<1>1. ASSUME NEW x \in Offsets PROVE StripeWarp(s, x) \in OfWarp(s) /\ ChunkWarp(s, x) \in OfWarp(s)
  BY Offset DEF RunsRow
<1> QED
  BY <1>1 DEF Moves, CellMoves, AtStripe, AtChunk

\* What stays within a block.
LEMMA Staying == ASSUME Within PROVE Stays
BY Steady DEF Stays

\* A step of v0_c_1d, once its own cells are seen to.
LEMMA CompressMove ==
  ASSUME NEW w, CompressAt(w), Advance(w), NEW m \in Nat, at[w] = m, m % 2 = 1, m <= 7
  PROVE  AtTypes(SEQ, 7)' /\ Within /\ CellMoves(SEQ, w, m) /\ Stays /\ (block \in 0 .. Grid - 1)'
<1>1. AtTypes(SEQ, 7) /\ w \in OfWarp(SEQ) /\ RunsRow(SEQ) /\ block \in 0 .. Grid - 1
  BY DEF CompressAt, Compressing, BlockTypes
<1>2. AtTypes(SEQ, 7)' /\ Within /\ Moves(SEQ, w, m)
  BY <1>1, Advanced
<1>3. CellMoves(SEQ, w, m) /\ Stays
  BY <1>1, <1>2, CellsMove, Staying
<1> QED
  BY <1>1, <1>2, <1>3 DEF Stays

\* A thread takes its cells, and the one before them, into registers.
LEMMA TakeCompress ==
  ASSUME NEW w, CompressAt(w), Take(w)
  PROVE  Compressing' /\ ArrayTypes' /\ Within
<1>0. Op(w, "take") /\ Advance(w) /\ AtTypes(SEQ, 7) /\ w \in OfWarp(SEQ) /\ CompressProg(Running.prog) /\ RunsRow(SEQ)
        /\ RegTypes(SEQ) /\ ShmTypes
  BY DEF CompressAt, Compressing, BlockTypes, Take
<1>1. at[w] = 3 /\ Arg(w) = "prev"
  BY <1>0, CompressOps
<1>2. AtTypes(SEQ, 7)' /\ Within /\ CellMoves(SEQ, w, 3) /\ Stays /\ (block \in 0 .. Grid - 1)'
  BY <1>0, <1>1, CompressMove
<1>3. UNCHANGED <<shm, sq, quant, outlier, xdata, list, count, overrun, overtaken>>
  BY DEF Take, codes
<1> DEFINE V(t, i) == IF i > 0 THEN Read(Cell(t, i)) ELSE IF t > 0 THEN Read(C(t * SEQ - 1)) ELSE 0
<1>4. reg' = [t \in OfThread(SEQ) |-> IF t \div WARP = w THEN [i \in 0 .. SEQ |-> V(t, i)] ELSE reg[t]]
  <2>1. N = SEQ /\ DOMAIN reg = OfThread(SEQ) /\ Threads(w) = {t \in OfThread(SEQ) : t \div WARP = w}
    BY <1>0, BlockIs DEF RegTypes
  <2>2. reg' = [t \in DOMAIN reg |-> IF t \in Threads(w)
                  THEN [i \in 0 .. N |-> IF i > 0 THEN Read(Cell(t, i))
                          ELSE IF Arg(w) = "prev" /\ t > 0 THEN Read(<<t * N - 1, 0, 0>>) ELSE 0]
                  ELSE reg[t]]
    BY DEF Take, Regs
  <2>3. \A t \in OfThread(SEQ) : t \in Threads(w) <=> t \div WARP = w
    BY <2>1
  <2> HIDE DEF V
  <2>4. \A t, i : V(t, i) = IF i > 0 THEN Read(Cell(t, i)) ELSE IF Arg(w) = "prev" /\ t > 0 THEN Read(<<t * N - 1, 0, 0>>) ELSE 0
    BY <1>1, <2>1 DEF V, C
  <2> QED
    BY <2>1, <2>2, <2>3, <2>4
<1>5. \A t, i : V(t, i) \in Value
  BY <1>0, ReadTyped, UndefApart
<1>6. RegTypes(SEQ)'
  <2> HIDE DEF V
  <2> QED
    BY <1>0, <1>4, <1>5 DEF RegTypes
<1>7. ShmTypes' /\ \A c : Read(c)' = Read(c)
  BY <1>0, <1>3, ReadSame
<1>8. ASSUME NEW x \in Offsets, Inside(x) PROVE CompressCell(x)'
  <2>1. /\ AtStripe(SEQ, x) \in {3, 4} /\ AtStripe(SEQ, x)' \in {3, 4}
        /\ AtChunk(SEQ, x) \in {3, 4} /\ AtChunk(SEQ, x)' = IF ChunkWarp(SEQ, x) = w THEN 4 ELSE AtChunk(SEQ, x)
    BY <1>2, <1>8 DEF CellMoves
  <2>2. CompressCell(x)
    BY <1>8 DEF CompressAt, Compressing
  <2>3. InMemory(x) /\ InMemory(x)'
    <3>1. InMemory(x)
      BY <2>1, <2>2 DEF CompressCell
    <3> QED
      BY <1>2, <1>7, <3>1 DEF InMemory, Stays
  <2> DEFINE t == x \div SEQ
             r == x % SEQ
  <2>4. t \in OfThread(SEQ) /\ t \in Nat /\ r \in 0 .. SEQ - 1 /\ x = t * SEQ + r /\ SEQ \in Nat \ {0} /\ x \in Nat /\ Fit(SEQ)
    BY <1>0, <1>8, Offset DEF RunsRow, Fit, OfThread
  <2>5. ASSUME ChunkWarp(SEQ, x) = w PROVE InThread(x)'
    <3>1. t \div WARP = w
      BY <2>5 DEF ChunkWarp
    <3>2. \A i \in 0 .. SEQ : reg'[t][i] = V(t, i)
      <4> HIDE DEF V, t
      <4> QED
        BY <1>4, <2>4, <3>1
    <3>3. r + 1 \in 0 .. SEQ /\ r \in 0 .. SEQ /\ r + 1 \in 1 .. SEQ
      <4> HIDE DEF r
      <4> QED
        BY <2>4
    <3>4. \A i \in 1 .. SEQ : Cell(t, i) = C(t * SEQ + i - 1)
      <4> HIDE DEF t
      <4> QED
        BY <1>0, <2>4, BlockIs
    <3>5. reg'[t][r + 1] = P(Here + x)
      <4>1. V(t, r + 1) = Read(Cell(t, r + 1))
        BY <2>4
      <4>2. Cell(t, r + 1) = C(x)
        <5>1. t * SEQ + (r + 1) - 1 = x
          <6>1. t * SEQ \in Nat
            BY <2>4, Products
          <6> HIDE DEF t, r
          <6> QED
            BY <2>4, <6>1
        <5> HIDE DEF t, r
        <5> QED
          BY <3>3, <3>4, <5>1
      <4> HIDE DEF V, t, r
      <4> QED
        BY <2>3, <3>2, <3>3, <4>1, <4>2 DEF InMemory
    <3>6. reg'[t][r] = Left(x)
      <4>1. CASE x = 0
        <5>1. t = 0 /\ r = 0
          <6>1. 0 \div SEQ = 0 /\ 0 % SEQ = 0
            <7>1. 0 \in Nat /\ 0 \in 0 .. SEQ - 1 /\ 0 * SEQ + 0 = 0
              BY <2>4
            <7>2. (0 * SEQ + 0) \div SEQ = 0 /\ (0 * SEQ + 0) % SEQ = 0
              BY <2>4, <7>1, DivisionUnique
            <7> QED
              BY <7>1, <7>2
          <6> QED
            BY <4>1, <6>1
        <5>2. V(t, r) = 0
          BY <5>1
        <5> HIDE DEF V, t, r
        <5> QED
          BY <3>2, <3>3, <4>1, <5>2 DEF Left
      <4>2. CASE x # 0
        <5> DEFINE y == x - 1
        <5>1. y \in Offsets /\ Inside(y) /\ y + 1 = x
          BY <1>8, <2>4, <4>2, HereIs, <1>0, Positive DEF Offsets, Inside
        <5> HIDE DEF y
        <5>2. Read(C(y)) = P(Here + y) /\ Left(x) = P(Here + y)
          <6>1. AtStripe(SEQ, y) \in {3, 4} /\ AtChunk(SEQ, y) \in {3, 4}
            BY <1>2, <5>1 DEF CellMoves
          <6>2. CompressCell(y)
            BY <5>1 DEF CompressAt, Compressing
          <6>3. InMemory(y)
            BY <6>1, <6>2 DEF CompressCell
          <6>4. Left(y + 1) = P(Here + y)
            BY <1>0, <5>1, LeftIs
          <6> QED
            BY <5>1, <6>3, <6>4 DEF InMemory
        <5>3. V(t, r) = Read(C(y))
          <6>1. t * SEQ \in Nat
            BY <2>4, Products
          <6>2. CASE r > 0
            <7>1. r \in 1 .. SEQ /\ t * SEQ + r - 1 = y
              <8> HIDE DEF t, r
              <8> QED
                BY <2>4, <5>1, <6>1, <6>2 DEF y
            <7>2. Cell(t, r) = C(y)
              <8> HIDE DEF t, r
              <8> QED
                BY <3>4, <7>1
            <7> QED
              BY <6>2, <7>2
          <6>3. CASE ~(r > 0)
            <7>1. r = 0 /\ t * SEQ = x
              <8> HIDE DEF t, r
              <8> QED
                BY <2>4, <6>1, <6>3
            <7>2. t > 0 /\ t * SEQ - 1 = y
              <8>1. t # 0
                <9>1. t = 0 => t * SEQ = 0
                  <10> HIDE DEF t
                  <10> QED
                    BY <2>4
                <9> QED
                  BY <4>2, <7>1, <9>1
              <8> HIDE DEF t
              <8> QED
                BY <2>4, <7>1, <8>1 DEF y
            <7> HIDE DEF t, r
            <7> QED
              BY <7>1, <7>2
          <6> QED
            BY <6>2, <6>3
        <5> HIDE DEF V, t, r
        <5> QED
          BY <3>2, <3>3, <5>2, <5>3
      <4> QED
        BY <4>1, <4>2
    <3> HIDE DEF V
    <3> QED
      BY <1>2, <3>5, <3>6 DEF InThread, Mine, Stays
  <2>6. ASSUME ChunkWarp(SEQ, x) # w, AtChunk(SEQ, x)' >= 4 PROVE InThread(x)'
    <3>1. InThread(x)
      BY <2>1, <2>2, <2>6 DEF CompressCell
    <3>2. t \div WARP # w
      BY <2>6 DEF ChunkWarp
    <3>3. reg'[t] = reg[t]
      <4> HIDE DEF V, t
      <4> QED
        BY <1>4, <2>4, <3>2
    <3> HIDE DEF V
    <3> QED
      BY <1>2, <3>1, <3>3 DEF InThread, Mine, Stays
  <2> HIDE DEF V
  <2> QED
    BY <2>1, <2>3, <2>5, <2>6 DEF CompressCell
<1> HIDE DEF V
<1>9. BlockTypes(SEQ, 7)'
  BY <1>2, <1>6, <1>7 DEF BlockTypes
<1>10. \A id \in 0 .. Length - 1 : id < Here => Exact(id)'
  BY <1>2, <1>3 DEF CompressAt, Compressing, Exact, Coded, Stays
<1>11. ArrayTypes'
  BY <1>2, <1>3 DEF ArrayTypes, CompressAt, Stays
<1> QED
  BY <1>2, <1>8, <1>9, <1>10, <1>11 DEF Compressing, Stays

\* predict_quantize_1d leaves the code and the outlier of each difference.
LEMMA QuantizeCompress ==
  ASSUME NEW w, CompressAt(w), Quantize1d(w)
  PROVE  Compressing' /\ ArrayTypes' /\ Within
<1>0. Op(w, "quantize_1d") /\ Advance(w) /\ AtTypes(SEQ, 7) /\ w \in OfWarp(SEQ) /\ CompressProg(Running.prog) /\ RunsRow(SEQ)
        /\ RegTypes(SEQ) /\ ShmTypes /\ Fit(SEQ)
  BY BothFit DEF CompressAt, Compressing, BlockTypes, Quantize1d
<1>1. at[w] = 5 /\ Arg(w) = "dense"
  BY <1>0, CompressOps
<1>2. AtTypes(SEQ, 7)' /\ Within /\ CellMoves(SEQ, w, 5) /\ Stays /\ (block \in 0 .. Grid - 1)'
  BY <1>0, <1>1, CompressMove
<1> DEFINE X == Chunks(SEQ, w)
           D == [c \in CellsOf(X) |-> Minus(reg[c[1] \div SEQ][(c[1] % SEQ) + 1], reg[c[1] \div SEQ][((c[1] % SEQ) + 1) - 1])]
           fq == [c \in CellsOf(X) |-> Code("dense", D[c])]
           fo == [c \in CellsOf(X) |-> Outlier(D[c])]
<1>3. Cells(w) = CellsOf(X) /\ X \subseteq Offsets /\ N = SEQ
  BY <1>0, CellsIs, BlockIs DEF CellsOf, Chunks
<1>4. /\ sq' = IntoRow(sq, fq) /\ overrun' = (overrun \/ Spills(D)) /\ shm' = Over(shm, fo)
      /\ UNCHANGED <<reg, quant, outlier, xdata, list, count, overtaken>>
  <2>1. /\ sq' = IntoRow(sq, [c \in DOMAIN D |-> Code("dense", D[c])]) /\ overrun' = (overrun \/ Spills(D))
        /\ shm' = Over(shm, [c \in DOMAIN D |-> Outlier(D[c])])
        /\ UNCHANGED <<list, count>> /\ UNCHANGED <<reg, quant, outlier, xdata, overtaken>>
    <3> DEFINE D0 == [c \in Cells(w) |-> LET t == c[1] \div N
                                             i == (c[1] % N) + 1
                                         IN  Minus(reg[t][i], reg[t][i - 1])]
    <3>1. /\ sq' = IntoRow(sq, [c \in DOMAIN D0 |-> Code(Arg(w), D0[c])]) /\ overrun' = (overrun \/ Spills(D0))
          /\ shm' = (IF Arg(w) = "dense" THEN Over(shm, [c \in DOMAIN D0 |-> Outlier(D0[c])]) ELSE shm)
          /\ (IF Arg(w) = "compact" THEN Compact("compact", D0, Guarded(D0)) ELSE UNCHANGED <<list, count>>)
          /\ UNCHANGED <<reg, quant, outlier, xdata, overtaken>>
      BY DEF Quantize1d
    <3>2. D0 = D
      <4> DEFINE e0(c) == Minus(reg[c[1] \div N][(c[1] % N) + 1], reg[c[1] \div N][((c[1] % N) + 1) - 1])
                 e1(c) == Minus(reg[c[1] \div SEQ][(c[1] % SEQ) + 1], reg[c[1] \div SEQ][((c[1] % SEQ) + 1) - 1])
      <4> HIDE DEF X
      <4>1. \A c : e0(c) = e1(c)
        BY <1>3
      <4>2. D0 = [c \in Cells(w) |-> e0(c)] /\ D = [c \in CellsOf(X) |-> e1(c)]
        BY Zenon
      <4> HIDE DEF e0, e1, D0, D
      <4> QED
        BY <1>3, <4>1, <4>2
    <3> HIDE DEF D0, D
    <3> QED
      BY <1>1, <3>1, <3>2, ZenonT(30)
  <2>2. DOMAIN D = CellsOf(X)
    OBVIOUS
  <2> HIDE DEF D, X
  <2> QED
    BY <2>1, <2>2
<1>5. \A c \in CellsOf(X) : \E x \in X : c = C(x)
  BY DEF CellsOf
<1>6. DOMAIN D = CellsOf(X) /\ DOMAIN fq = CellsOf(X) /\ DOMAIN fo = CellsOf(X)
  OBVIOUS
<1>7. ASSUME NEW x \in X PROVE D[C(x)] = Minus(Mine(SEQ, x), reg[x \div SEQ][x % SEQ]) /\ C(x) \in CellsOf(X)
                               /\ D[C(x)] \in Value
  <2>1. C(x) \in CellsOf(X) /\ C(x)[1] = x
    BY DEF CellsOf, C
  <2>2. x \div SEQ \in OfThread(SEQ) /\ x % SEQ \in 0 .. SEQ - 1 /\ SEQ \in Nat
    BY <1>0, <1>3, Offset DEF Fit
  <2>3. ((x % SEQ) + 1) - 1 = x % SEQ /\ (x % SEQ) + 1 \in 0 .. SEQ /\ x % SEQ \in 0 .. SEQ
    BY <2>2
  <2>4. D[C(x)] = Minus(reg[x \div SEQ][(x % SEQ) + 1], reg[x \div SEQ][x % SEQ])
    BY <2>1, <2>3
  <2>5. reg[x \div SEQ][(x % SEQ) + 1] \in Value /\ reg[x \div SEQ][x % SEQ] \in Value
    BY <1>0, <2>2, <2>3 DEF RegTypes
  <2> HIDE DEF D
  <2> QED
    BY <2>1, <2>4, <2>5, ValueSum DEF Mine
<1> HIDE DEF D, X
<1>8. ~Spills(D) /\ ~Spills(fq) /\ sq' = Over(sq, fq)
  <2>1. (\A c \in DOMAIN D : \E x \in Offsets : c = C(x)) /\ \A c \in DOMAIN fq : \E x \in Offsets : c = C(x)
    BY <1>3, <1>5, <1>6
  <2> HIDE DEF fq
  <2> QED
    BY <1>0, <1>4, <2>1, RowFits
<1>9. \A c \in CellsOf(X) : D[c] \in Value /\ fo[c] \in Value
  <2>1. ASSUME NEW c \in CellsOf(X) PROVE D[c] \in Value /\ Outlier(D[c]) \in Value
    <3>1. D[c] \in Value
      BY <1>5, <1>7
    <3>2. RADIUS \in Value /\ 0 \in Value
      BY Positive, UndefApart
    <3>3. Plus(D[c], RADIUS) \in Value
      BY <3>1, <3>2, ValueSum
    <3> QED
      BY <3>1, <3>2, <3>3 DEF Outlier
  <2> QED
    BY <2>1
<1>10. Reads1(fo) /\ ShmTypes'
  <2>1. MapTypes(fo)
    BY <1>6, <1>9 DEF MapTypes
  <2> HIDE DEF fo
  <2> QED
    BY <1>0, <1>4, <2>1, ReadOver
<1>11. ASSUME NEW x \in Offsets, Inside(x) PROVE CompressCell(x)'
  <2>1. /\ AtStripe(SEQ, x) \in {5, 6} /\ AtStripe(SEQ, x)' \in {5, 6}
        /\ AtChunk(SEQ, x) \in {5, 6} /\ AtChunk(SEQ, x)' = IF ChunkWarp(SEQ, x) = w THEN 6 ELSE AtChunk(SEQ, x)
    BY <1>2, <1>11 DEF CellMoves
  <2>2. CompressCell(x)
    BY <1>11 DEF CompressAt, Compressing
  <2>3. InThread(x) /\ InThread(x)'
    <3>1. InThread(x)
      BY <2>1, <2>2 DEF CompressCell
    <3> QED
      BY <1>2, <1>4, <3>1 DEF InThread, Mine, Stays
  <2>4. ASSUME ChunkWarp(SEQ, x) = w PROVE Quantized(x)'
    <3>1. x \in X
      BY <2>4 DEF X, Chunks
    <3>2. Left(x) \in Int /\ Left(x + 1) \in Int /\ Left(x + 1) = P(Here + x) /\ Delta(Here + x) = Left(x + 1) - Left(x)
      BY <1>0, <1>11, LeftIs
    <3>3. D[C(x)] = Delta(Here + x) /\ C(x) \in CellsOf(X)
      <4>1. D[C(x)] = Minus(Left(x + 1), Left(x)) /\ C(x) \in CellsOf(X)
        BY <1>7, <2>3, <3>1, <3>2 DEF InThread
      <4>2. Minus(Left(x + 1), Left(x)) = Left(x + 1) - Left(x)
        BY <3>2, IntSum
      <4> QED
        BY <3>2, <4>1, <4>2
    <3>4. fq[C(x)] = Code("dense", Delta(Here + x)) /\ fo[C(x)] = Outlier(Delta(Here + x))
      BY <3>3
    <3>5. C(x) \in DOMAIN sq' /\ sq'[C(x)] = fq[C(x)]
      <4>1. C(x) \in DOMAIN fq
        BY <1>6, <3>3
      <4> HIDE DEF fq
      <4> QED
        BY <1>8, <4>1 DEF Over
    <3>6. Read(C(x))' = fo[C(x)]
      <4>1. C(x) \in DOMAIN fo
        BY <1>6, <3>3
      <4> HIDE DEF fo
      <4> QED
        BY <1>10, <4>1 DEF Reads1
    <3>7. Delta(Here + x)' = Delta(Here + x)
      BY <1>2 DEF Stays
    <3> HIDE DEF fq, fo
    <3> QED
      BY <3>4, <3>5, <3>6, <3>7 DEF Quantized
  <2>5. ASSUME ChunkWarp(SEQ, x) # w PROVE Read(C(x))' = Read(C(x)) /\ (C(x) \in DOMAIN sq => C(x) \in DOMAIN sq' /\ sq'[C(x)] = sq[C(x)])
    <3>1. C(x) \notin CellsOf(X)
      <4>1. ASSUME NEW y \in X, C(x) = C(y) PROVE FALSE
        <5>1. x = y
          BY <4>1, CellsApart
        <5> QED
          BY <2>5, <5>1 DEF X, Chunks
      <4> QED
        BY <1>5, <4>1
    <3>2. C(x) \notin DOMAIN fo /\ C(x) \notin DOMAIN fq
      BY <1>6, <3>1
    <3> HIDE DEF fo, fq
    <3> QED
      BY <1>8, <1>10, <3>2 DEF Reads1, Over
  <2>6. ASSUME ChunkWarp(SEQ, x) # w PROVE (InMemory(x) => InMemory(x)') /\ (Quantized(x) => Quantized(x)')
    BY <1>2, <2>5, <2>6 DEF InMemory, Quantized, Stays
  <2> HIDE DEF fo, fq
  <2> QED
    BY <2>1, <2>2, <2>3, <2>4, <2>6 DEF CompressCell
<1> HIDE DEF fo, fq
<1>12. BlockTypes(SEQ, 7)'
  <2>1. RegTypes(SEQ)'
    BY <1>0, <1>4 DEF RegTypes
  <2> QED
    BY <1>2, <1>10, <2>1 DEF BlockTypes
<1>13. \A id \in 0 .. Length - 1 : id < Here => Exact(id)'
  BY <1>2, <1>4 DEF CompressAt, Compressing, Exact, Coded, Stays
<1>14. ArrayTypes'
  BY <1>2, <1>4, <1>8 DEF ArrayTypes, CompressAt, Stays
<1>15. (\A id \in 0 .. Length - 1 : id < Here => Exact(id))'
  BY <1>2, <1>13 DEF Stays
<1>16. (\A x \in Offsets : Inside(x) => CompressCell(x))'
  BY <1>2, <1>11 DEF Stays, Offsets
<1> QED
  BY <1>2, <1>12, <1>14, <1>15, <1>16, ZenonT(30) DEF Compressing

\* write_1d writes both to the arrays.
LEMMA StripeOutCompress ==
  ASSUME NEW w, CompressAt(w), StripeOut(w)
  PROVE  Compressing' /\ ArrayTypes' /\ Within
<1>0. Op(w, "stripe_out") /\ Advance(w) /\ AtTypes(SEQ, 7) /\ w \in OfWarp(SEQ) /\ CompressProg(Running.prog) /\ RunsRow(SEQ)
        /\ RegTypes(SEQ) /\ ShmTypes /\ ArrayTypes /\ IsRow(field)
  BY DEF CompressAt, Compressing, BlockTypes, StripeOut, RowLaunch
<1>1. at[w] = 7 /\ Arg(w) = "both"
  BY <1>0, CompressOps
<1>2. AtTypes(SEQ, 7)' /\ Within /\ CellMoves(SEQ, w, 7) /\ Stays /\ (block \in 0 .. Grid - 1)'
  BY <1>0, <1>1, CompressMove
<1> DEFINE X == {x \in Stripes(SEQ, w) : Inside(x)}
           q == Out(Stored(w), sq)
           o == Out(Stored(w), shm)
<1>3. Stored(w) = CellsOf(X) /\ X \in SUBSET Offsets
  <2>1. Stripe(w) = CellsOf(Stripes(SEQ, w)) /\ Stripes(SEQ, w) \in SUBSET Offsets
    BY <1>0, StripeIs DEF CellsOf, Stripes
  <2>2. Valid(CellsOf(Stripes(SEQ, w))) = CellsOf(X)
    BY <1>0, <2>1, ValidOf
  <2>3. X \subseteq Stripes(SEQ, w)
    OBVIOUS
  <2> QED
    BY <2>1, <2>2, <2>3 DEF Stored
<1>4. /\ quant' = Into(quant, q) /\ outlier' = Into(outlier, o) /\ overrun' = (overrun \/ ~(DOMAIN q \subseteq DOMAIN quant))
      /\ UNCHANGED <<xdata, list, count, reg, shm, sq, overtaken>>
  <2>1. "both" # "xdata"
    OBVIOUS
  <2> HIDE DEF X
  <2> QED
    BY <1>1, <2>1 DEF StripeOut, Noted
<1> HIDE DEF X
<1>5. Writes(q, X, sq) /\ Writes(o, X, shm)
  BY <1>0, <1>3, OutIs
<1> HIDE DEF q, o
<1>6. \A x \in X : x \in Offsets /\ Inside(x) /\ Here + x \in 0 .. Length - 1 /\ x \in Nat /\ Here \in Nat
  <2>1. ASSUME NEW x \in X PROVE x \in Offsets /\ Inside(x)
    BY DEF X, Stripes
  <2> QED
    BY <1>0, <2>1, IndexOf
<1>7. DOMAIN q \subseteq DOMAIN quant /\ overrun' = overrun /\ DOMAIN q = DOMAIN o
  BY <1>0, <1>4, <1>5, <1>6 DEF Writes, ArrayTypes
<1>8. \A x \in X : Quantized(x)
  <2>1. ASSUME NEW x \in X PROVE Quantized(x)
    <3>1. CompressCell(x)
      BY <1>6 DEF CompressAt, Compressing
    <3>2. AtChunk(SEQ, x) \in {7, 8}
      BY <1>2, <1>6 DEF CellMoves
    <3> QED
      BY <3>1, <3>2 DEF CompressCell
  <2> QED
    BY <2>1
<1>9. ASSUME NEW x \in X PROVE quant'[Here + x] = Code("dense", Delta(Here + x)) /\ outlier'[Here + x] = Outlier(Delta(Here + x))
                               /\ Outlier(Delta(Here + x)) \in Int
  <2>1. Here + x \in DOMAIN q /\ Here + x \in DOMAIN o /\ Here + x \in 0 .. Length - 1
    BY <1>5, <1>6 DEF Writes
  <2>2. quant'[Here + x] = q[Here + x] /\ outlier'[Here + x] = o[Here + x]
    BY <1>0, <1>4, <2>1 DEF Into, ArrayTypes
  <2>3. q[Here + x] = sq[C(x)] /\ o[Here + x] = shm[C(x)]
    BY <1>5 DEF Writes
  <2>4. Delta(Here + x) \in Int
    BY <1>0, <2>1, DeltaInt
  <2>5. Outlier(Delta(Here + x)) \in Int
    BY <2>4, CodeIs
  <2>6. sq[C(x)] = Code("dense", Delta(Here + x)) /\ Read(C(x)) = Outlier(Delta(Here + x))
    BY <1>8 DEF Quantized
  <2>7. shm[C(x)] = Outlier(Delta(Here + x))
    BY <2>5, <2>6, ReadThere
  <2> QED
    BY <2>2, <2>3, <2>5, <2>6, <2>7
<1>10. ASSUME NEW id \in 0 .. Length - 1, \A x \in X : id # Here + x PROVE quant'[id] = quant[id] /\ outlier'[id] = outlier[id]
  <2>1. id \notin DOMAIN q /\ id \notin DOMAIN o
    BY <1>5, <1>10 DEF Writes
  <2> QED
    BY <1>0, <1>4, <2>1 DEF Into, ArrayTypes
<1>11. ASSUME NEW id \in 0 .. Length - 1, Exact(id) PROVE Exact(id)'
  <2>1. Delta(id)' = Delta(id)
    BY <1>2 DEF Stays
  <2>2. CASE \E x \in X : id = Here + x
    BY <1>9, <2>1, <2>2 DEF Exact, Coded
  <2>3. CASE \A x \in X : id # Here + x
    BY <1>10, <1>11, <2>1, <2>3 DEF Exact, Coded
  <2> QED
    BY <2>2, <2>3
<1>12. \A id \in 0 .. Length - 1 : outlier'[id] \in Value
  <2>1. ASSUME NEW id \in 0 .. Length - 1 PROVE outlier'[id] \in Value
    <3>1. CASE \E x \in X : id = Here + x
      BY <1>9, <3>1, UndefApart
    <3>2. CASE \A x \in X : id # Here + x
      BY <1>0, <1>10, <3>2 DEF ArrayTypes
    <3> QED
      BY <3>1, <3>2
  <2> QED
    BY <2>1
<1>13. ASSUME NEW x \in Offsets, Inside(x) PROVE CompressCell(x)'
  <2>1. /\ AtStripe(SEQ, x) \in {7, 8} /\ AtStripe(SEQ, x)' = (IF StripeWarp(SEQ, x) = w THEN 8 ELSE AtStripe(SEQ, x))
        /\ AtChunk(SEQ, x) \in {7, 8} /\ AtChunk(SEQ, x)' \in {7, 8}
    BY <1>2, <1>13 DEF CellMoves
  <2>2. CompressCell(x)
    BY <1>13 DEF CompressAt, Compressing
  <2>3. InThread(x)' /\ Quantized(x)'
    <3>1. InThread(x) /\ Quantized(x)
      BY <2>1, <2>2 DEF CompressCell
    <3>2. Read(C(x))' = Read(C(x))
      BY <1>4, ReadSame
    <3> QED
      BY <1>2, <1>4, <3>1, <3>2 DEF InThread, Quantized, Mine, Stays
  <2>4. ASSUME AtStripe(SEQ, x)' >= 8 PROVE Exact(Here + x)'
    <3>1. Here + x \in 0 .. Length - 1 /\ Here' = Here
      BY <1>0, <1>2, <1>13, IndexOf DEF Stays
    <3>2. CASE StripeWarp(SEQ, x) = w
      <4>1. x \in X
        BY <1>13, <3>2 DEF X, Stripes
      <4>2. Delta(Here + x)' = Delta(Here + x)
        BY <1>2 DEF Stays
      <4> QED
        BY <1>9, <3>1, <4>1, <4>2 DEF Exact, Coded
    <3>3. CASE StripeWarp(SEQ, x) # w
      <4>1. Exact(Here + x)
        BY <2>1, <2>2, <2>4, <3>3 DEF CompressCell
      <4>2. \A id \in 0 .. Length - 1 : Exact(id) => Exact(id)'
        BY <1>11
      <4>3. quant'[Here + x] = Code("dense", Delta(Here + x)') /\ outlier'[Here + x] = Outlier(Delta(Here + x)')
        <5> DEFINE id == Here + x
        <5>1. Exact(id) /\ id \in 0 .. Length - 1 /\ Delta(id)' = Delta(id)
          BY <1>2, <3>1, <4>1 DEF Stays
        <5> HIDE DEF id
        <5>2. quant'[id] = Code("dense", Delta(id)) /\ outlier'[id] = Outlier(Delta(id))
          <6>1. CASE \E y \in X : id = Here + y
            BY <1>9, <6>1
          <6>2. CASE \A y \in X : id # Here + y
            BY <1>10, <5>1, <6>2 DEF Exact, Coded
          <6> QED
            BY <6>1, <6>2
        <5> QED
          BY <1>2, <5>1, <5>2 DEF id, Stays
      <4> QED
        BY <3>1, <4>3 DEF Exact, Coded
    <3> QED
      BY <3>2, <3>3
  <2> QED
    BY <2>1, <2>3, <2>4 DEF CompressCell
<1>14. BlockTypes(SEQ, 7)'
  <2>1. RegTypes(SEQ)' /\ ShmTypes'
    BY <1>0, <1>4 DEF RegTypes, ShmTypes
  <2> QED
    BY <1>2, <2>1 DEF BlockTypes
<1>15. \A id \in 0 .. Length - 1 : id < Here => Exact(id)'
  BY <1>11 DEF CompressAt, Compressing
<1>16. ArrayTypes'
  <2>1. DOMAIN quant' = DOMAIN quant /\ DOMAIN outlier' = DOMAIN outlier
    BY <1>4 DEF Into
  <2> QED
    BY <1>0, <1>2, <1>4, <1>7, <1>12, <2>1 DEF ArrayTypes, Stays
<1> QED
  BY <1>2, <1>13, <1>14, <1>15, <1>16 DEF Compressing, Stays

\* A barrier of v0_c_1d.
LEMMA SyncCompress ==
  ASSUME NEW w, CompressAt(w), Sync
  PROVE  Compressing' /\ ArrayTypes' /\ Within
<1>0. /\ AtTypes(SEQ, 7) /\ CompressProg(Running.prog) /\ RunsRow(SEQ) /\ RegTypes(SEQ) /\ ShmTypes /\ Fit(SEQ)
      /\ block \in 0 .. Grid - 1 /\ AllAt("sync") /\ Everyone
      /\ UNCHANGED <<reg, shm, sq, quant, outlier, xdata, list, count, overrun, overtaken>>
  BY BothFit DEF CompressAt, Compressing, BlockTypes, Sync, codes
<1>1. ASSUME NEW v \in OfWarp(SEQ) PROVE at[v] \in {2, 4, 6} /\ at[v] <= 7 /\ \E j \in Nat : at[v] = 2 * j + 2
  <2>1. DOMAIN at = OfWarp(SEQ)
    BY <1>0 DEF AtTypes
  <2>2. Op(v, "sync")
    BY <1>0, <2>1 DEF AllAt
  <2>3. at[v] \in {2, 4, 6}
    BY <1>0, <2>2, CompressOps
  <2>4. 2 = 2 * 0 + 2 /\ 4 = 2 * 1 + 2 /\ 6 = 2 * 2 + 2
    OBVIOUS
  <2>5. \E j \in Nat : at[v] = 2 * j + 2
    BY <2>3, <2>4
  <2> QED
    BY <2>3, <2>5
<1>2. AtTypes(SEQ, 7)' /\ Within /\ \A v \in OfWarp(SEQ) : at'[v] = at[v] + 1
  <2>1. OfWarp(SEQ) # {}
    BY <1>0, FirstWarp
  <2>2. /\ AtTypes(SEQ, 7)' /\ Within
        /\ \E k \in Nat : \A v \in OfWarp(SEQ) : at[v] = 2 * k + 2 /\ at'[v] = 2 * k + 3
    BY <1>0, <1>1, <2>1, Synced
  <2> QED
    BY <2>2
<1>3. Stays
  BY <1>2, Staying
<1>4. ShmTypes' /\ \A c : Read(c)' = Read(c)
  BY <1>0, ReadSame
<1>5. ASSUME NEW x \in Offsets, Inside(x) PROVE CompressCell(x)'
  <2>1. StripeWarp(SEQ, x) \in OfWarp(SEQ) /\ ChunkWarp(SEQ, x) \in OfWarp(SEQ)
    BY <1>0, Offset
  <2>2. /\ AtStripe(SEQ, x) \in {2, 4, 6} /\ AtStripe(SEQ, x)' = AtStripe(SEQ, x) + 1
        /\ AtChunk(SEQ, x) \in {2, 4, 6} /\ AtChunk(SEQ, x)' = AtChunk(SEQ, x) + 1
    BY <1>1, <1>2, <2>1 DEF AtStripe, AtChunk
  <2>3. CompressCell(x)
    BY <1>5 DEF CompressAt, Compressing
  <2>4. (InMemory(x) => InMemory(x)') /\ (InThread(x) => InThread(x)') /\ (Quantized(x) => Quantized(x)')
    BY <1>0, <1>3, <1>4 DEF InMemory, InThread, Quantized, Mine, Stays
  <2> QED
    BY <2>2, <2>3, <2>4 DEF CompressCell
<1>6. BlockTypes(SEQ, 7)'
  <2>1. RegTypes(SEQ)' /\ (block \in 0 .. Grid - 1)'
    BY <1>0, <1>3 DEF RegTypes, Stays
  <2> QED
    BY <1>2, <1>4, <2>1 DEF BlockTypes
<1>7. \A id \in 0 .. Length - 1 : id < Here => Exact(id)'
  BY <1>0, <1>3 DEF CompressAt, Compressing, Exact, Coded, Stays
<1>8. ArrayTypes'
  BY <1>0, <1>3 DEF ArrayTypes, CompressAt, Stays
<1> QED
  BY <1>2, <1>3, <1>5, <1>6, <1>7, <1>8 DEF Compressing, Stays

-----------------------------------------------------------------------------
(* From block to block.                                                     *)

\* A block that begins.
LEMMA Begins ==
  ASSUME NEW s, Fit(s), NEW k, RowKernel(k, s), Fresh(k), NEW n \in Nat
  PROVE  /\ AtTypes(s, n)' /\ RegTypes(s)' /\ ShmTypes'
         /\ \A v \in OfWarp(s) : at'[v] = 1
<1>1. s \in Nat \ {0} /\ NT(s) \in Nat \ {0}
  BY DEF Fit
<1>2. NT(s) * 1 * 1 = NT(s) /\ s * 1 * 1 = s
  BY <1>1
<1>3. NThread(k) = NT(s) /\ k.lanes = WARP /\ k.chunk[1] * k.chunk[2] * k.chunk[3] = s
  BY <1>2 DEF RowKernel, NThread
<1>4. Warps(k) = OfWarp(s)
  BY <1>3 DEF Warps, OfWarp
<1>5. at' = [w \in OfWarp(s) |-> 1] /\ reg' = [t \in OfThread(s) |-> [i \in 0 .. s |-> 0]] /\ shm' = <<>>
  BY <1>3, <1>4 DEF Fresh, OfThread
<1>6. 1 \in 1 .. n + 1
  OBVIOUS
<1>7. AtTypes(s, n)'
  <2>1. at' \in [OfWarp(s) -> 1 .. n + 1] /\ \A v, w \in OfWarp(s) : at'[v] = at'[w]
    BY <1>5, <1>6
  <2> QED
    BY <2>1 DEF AtTypes, Abreast
<1>8. RegTypes(s)'
  BY <1>5, UndefApart DEF RegTypes
<1>9. ShmTypes'
  BY <1>5 DEF ShmTypes
<1> QED
  BY <1>5, <1>7, <1>8, <1>9

\* The blocks of the launch.
LEMMA NBlockIs ==
  ASSUME NEW s, RunsRow(s)
  PROVE  NBlock(Running) = Grid /\ Grid \in Nat \ {0} /\ Length <= Grid * BLOCK1
BY GridIs DEF RunsRow

\* An index of an earlier block, or of this one.
LEMMA EarlierOrHere ==
  ASSUME NEW s, RunsRow(s), NEW id \in 0 .. Length - 1, id < Here + BLOCK1
  PROVE  id < Here \/ \E x \in Offsets : Inside(x) /\ id = Here + x
<1>1. Here \in Nat /\ Length \in Nat /\ BLOCK1 \in Nat /\ id \in Nat
  BY HereIs, Positive
<1>2. CASE ~(id < Here)
  <2> DEFINE x == id - Here
  <2>1. x \in 0 .. BLOCK1 - 1 /\ id = Here + x /\ Here + x < Length
    BY <1>1, <1>2
  <2> HIDE DEF x
  <2> QED
    BY <2>1 DEF Offsets, Inside
<1> QED
  BY <1>2

\* The field is the same, whichever block runs.
FieldStays == Length' = Length /\ Grid' = Grid /\ (\A id : P(id)' = P(id)) /\ \A id : Delta(id)' = Delta(id)

\* The row and its differences stay.
LEMMA FieldStaying ==
  ASSUME UNCHANGED field
  PROVE  FieldStays
<1>1. Length' = Length /\ Grid' = Grid /\ \A id : P(id)' = P(id)
  BY DEF Length, Grid, P
<1>2. \A id : Delta(id)' = Delta(id)
  BY <1>1 DEF Delta
<1> QED
  BY <1>1, <1>2 DEF FieldStays

\* All that a launch has done when its last block is over.
LEMMA CompressOver ==
  ASSUME NEW w, CompressAt(w), Over1
  PROVE  \A id \in 0 .. Length - 1 : id < Here + BLOCK1 => Exact(id)
<1>0. AtTypes(SEQ, 7) /\ CompressProg(Running.prog) /\ RunsRow(SEQ) /\ Fit(SEQ)
  BY BothFit DEF CompressAt, Compressing, BlockTypes
<1>1. \A v \in OfWarp(SEQ) : at[v] = 8
  <2>1. DOMAIN at = OfWarp(SEQ) /\ Len(Running.prog) = 7
    BY <1>0 DEF AtTypes, CompressProg
  <2> QED
    BY <2>1 DEF Over1
<1>2. ASSUME NEW id \in 0 .. Length - 1, id < Here + BLOCK1 PROVE Exact(id)
  <2>1. CASE id < Here
    BY <2>1 DEF CompressAt, Compressing
  <2>2. CASE \E x \in Offsets : Inside(x) /\ id = Here + x
    <3>1. PICK x \in Offsets : Inside(x) /\ id = Here + x
      BY <2>2
    <3>2. StripeWarp(SEQ, x) \in OfWarp(SEQ)
      BY <1>0, <3>1, Offset
    <3>3. AtStripe(SEQ, x) = 8
      BY <1>1, <3>2 DEF AtStripe
    <3>4. CompressCell(x)
      BY <3>1 DEF CompressAt, Compressing
    <3> QED
      BY <3>1, <3>3, <3>4 DEF CompressCell
  <2> QED
    BY <1>0, <1>2, <2>1, <2>2, EarlierOrHere
<1> QED
  BY <1>2

\* The next block begins with what was written before it.
LEMMA NextCompress ==
  ASSUME NEW w, CompressAt(w), NextBlock
  PROVE  RowInv'
<1>0. /\ RunsRow(SEQ) /\ RowLaunch /\ ArrayTypes /\ block \in 0 .. Grid - 1 /\ phase = "compress" /\ Fit(SEQ)
      /\ RowKernel(Running, SEQ)
  BY BothFit DEF CompressAt, Compressing, BlockTypes, RunsRow
<1>1. /\ Over1 /\ block + 1 < NBlock(Running) /\ block' = block + 1 /\ Fresh(Running)
      /\ UNCHANGED <<field, pair, kernels, next, ti1, ghost, phase, quant, outlier, xdata, list, count, overrun, overtaken>>
  BY DEF NextBlock, launched, codes
<1>2. \A id \in 0 .. Length - 1 : id < Here + BLOCK1 => Exact(id)
  BY <1>1, CompressOver
<1>3. AtTypes(SEQ, 7)' /\ RegTypes(SEQ)' /\ ShmTypes' /\ \A v \in OfWarp(SEQ) : at'[v] = 1
  BY <1>0, <1>1, Begins
<1>4. FieldStays
  BY <1>1, FieldStaying
<1>5. Here' = Here + BLOCK1 /\ Here \in Nat
  <2>1. Here' = BLOCK1 * (block + 1)
    BY <1>1 DEF Here
  <2>2. block \in Nat /\ BLOCK1 \in Nat
    BY <1>0, Positive, NBlockIs
  <2>3. BLOCK1 * (block + 1) = BLOCK1 * block + BLOCK1
    BY <2>2
  <2> QED
    BY <1>0, <2>1, <2>3, HereIs DEF Here
<1>6. \A id \in 0 .. Length - 1 : id < Here' => Exact(id)'
  BY <1>1, <1>2, <1>4, <1>5 DEF Exact, Coded, FieldStays
<1>7. ASSUME NEW x \in Offsets PROVE CompressCell(x)'
  <2>1. StripeWarp(SEQ, x) \in OfWarp(SEQ) /\ ChunkWarp(SEQ, x) \in OfWarp(SEQ)
    BY <1>0, Offset
  <2>2. AtStripe(SEQ, x)' = 1 /\ AtChunk(SEQ, x)' = 1
    BY <1>3, <2>1 DEF AtStripe, AtChunk
  <2> QED
    BY <2>2 DEF CompressCell
<1>8. (block \in 0 .. Grid - 1)'
  <2>1. NBlock(Running) = Grid /\ Grid \in Nat
    BY <1>0, NBlockIs
  <2> QED
    BY <1>0, <1>1, <1>4, <2>1 DEF FieldStays
<1>9. Compressing'
  BY <1>3, <1>4, <1>6, <1>7, <1>8 DEF Compressing, BlockTypes, FieldStays
<1>10. RowLaunch' /\ ArrayTypes'
  BY <1>0, <1>1, <1>4 DEF RowLaunch, IsRow, ArrayTypes, FieldStays
<1> QED
  BY <1>0, <1>1, <1>9, <1>10 DEF RowInv

\* After the last block every cell is exact.
LEMMA FinishCompress ==
  ASSUME NEW w, CompressAt(w), Finish
  PROVE  RowInv'
<1>0. RunsRow(SEQ) /\ RowLaunch /\ ArrayTypes /\ phase = "compress"
  BY DEF CompressAt
<1>1. /\ Over1 /\ block + 1 = NBlock(Running) /\ phase' = "scatter" /\ at' = <<>> /\ reg' = <<>> /\ shm' = <<>>
      /\ UNCHANGED <<field, pair, kernels, next, ti1, ghost, block, quant, outlier, xdata, list, count, overrun, overtaken>>
  BY <1>0 DEF Finish, launched, codes
<1>2. Length <= Here + BLOCK1 /\ Here \in Nat /\ Length \in Nat
  BY <1>0, <1>1, NBlockIs, HereIs
<1>3. \A id \in 0 .. Length - 1 : Exact(id)
  <2>1. \A id \in 0 .. Length - 1 : id < Here + BLOCK1 => Exact(id)
    BY <1>1, CompressOver
  <2>2. \A id \in 0 .. Length - 1 : id < Here + BLOCK1
    BY <1>2, Positive
  <2> QED
    BY <2>1, <2>2
<1>4. FieldStays
  BY <1>1, FieldStaying
<1>5. \A id \in 0 .. Length - 1 : Exact(id)'
  BY <1>1, <1>3, <1>4 DEF Exact, Coded, FieldStays
<1>6. RowLaunch' /\ ArrayTypes' /\ Idle'
  BY <1>0, <1>1, <1>4 DEF RowLaunch, IsRow, ArrayTypes, FieldStays, Idle
<1> QED
  BY <1>1, <1>4, <1>5, <1>6 DEF RowInv, FieldStays

-----------------------------------------------------------------------------
(* Reconstruction, stage by stage.                                          *)
DecompressAt(w) ==
  /\ RowLaunch /\ ArrayTypes /\ phase = "decompress" /\ Decompressing
  /\ RunsRow(XSEQ) /\ DecompressProg(Running.prog) /\ w \in OfWarp(XSEQ)

\* A step of v0_x_1d, once its own cells and its warp's sums are seen to.
LEMMA DecompressMove ==
  ASSUME NEW w, DecompressAt(w), Advance(w), NEW m \in Nat, at[w] = m, m % 2 = 1, m <= 13
  PROVE  /\ AtTypes(XSEQ, 13)' /\ Within /\ CellMoves(XSEQ, w, m) /\ Moves(XSEQ, w, m) /\ Stays
         /\ (block \in 0 .. Grid - 1)'
<1>1. AtTypes(XSEQ, 13) /\ w \in OfWarp(XSEQ) /\ RunsRow(XSEQ) /\ block \in 0 .. Grid - 1
  BY DEF DecompressAt, Decompressing, BlockTypes
<1>2. AtTypes(XSEQ, 13)' /\ Within /\ Moves(XSEQ, w, m)
  BY <1>1, Advanced
<1>3. CellMoves(XSEQ, w, m) /\ Stays
  BY <1>1, <1>2, CellsMove, Staying
<1> QED
  BY <1>1, <1>2, <1>3 DEF Stays

\* No warp has finished the block, and the arrays are left alone.
Unfinished == \A x \in Offsets : AtStripe(XSEQ, x) # 14 /\ AtStripe(XSEQ, x)' # 14

\* A step that writes nothing to the arrays keeps what they hold.
LEMMA DecompressKeeps ==
  ASSUME NEW w, DecompressAt(w), Stays, UNCHANGED <<quant, outlier, list, overrun, overtaken>>, Unfinished
  PROVE  (\A id \in 0 .. Length - 1 : Held(id)') /\ ArrayTypes'
<1>1. \A id : Rebuilt(id)' <=> Rebuilt(id)
  BY DEF Unfinished, Rebuilt, Stays
<1>2. \A id \in 0 .. Length - 1 : Held(id)'
  BY <1>1 DEF DecompressAt, Decompressing, Held, Coded, Stays
<1>3. ArrayTypes'
  BY DEF ArrayTypes, DecompressAt, Stays
<1> QED
  BY <1>2, <1>3

\* The places of shared memory.
LEMMA PlacesApart ==
  /\ \A x, v : C(x) # In(v) /\ C(x) # Ex(v)
  /\ \A u, v : In(u) # Ex(v) /\ (In(u) = In(v) => u = v) /\ (Ex(u) = Ex(v) => u = v)
BY DEF C, In, Ex

\* What v0_x_1d loads is the difference, of a code and an outlier.
LEMMA FetchFuse ==
  ASSUME NEW w, DecompressAt(w), NEW x \in Offsets, Inside(x), AtStripe(XSEQ, x) # 14
  PROVE  Fetch("fuse", Here + x) = Delta(Here + x) /\ Delta(Here + x) \in Int
<1> DEFINE id == Here + x
<1>1. id \in 0 .. Length - 1 /\ Here \in Nat /\ x \in Nat
  BY IndexOf DEF DecompressAt
<1>2. ~Rebuilt(id)
  <2>1. ASSUME NEW y \in Offsets, Here + x = Here + y PROVE x = y
    <3>1. y \in Nat
      BY Positive DEF Offsets
    <3> QED
      BY <1>1, <2>1, <3>1
  <2>2. ~(Here + x < Here)
    BY <1>1
  <2> QED
    BY <2>1, <2>2 DEF Rebuilt
<1>3. quant[id] = Code("dense", Delta(id)) /\ outlier[id] = Outlier(Delta(id))
  BY <1>1, <1>2 DEF DecompressAt, Decompressing, Held, Coded
<1> HIDE DEF id
<1>4. Delta(id) \in Int
  BY <1>1, DeltaInt DEF DecompressAt, RowLaunch
<1>5. Plus(Outlier(Delta(id)), Minus(Code("dense", Delta(id)), RADIUS)) = Delta(id)
  BY <1>4, CodeIs
<1>6. Fetch("fuse", id) = Plus(outlier[id], Minus(quant[id], RADIUS))
  BY DEF Fetch
<1>7. Fetch("fuse", id) = Delta(id)
  BY <1>3, <1>5, <1>6
<1> QED
  BY <1>4, <1>7 DEF id

\* load_fuse_1d puts its stripe into shared memory.
LEMMA StripeInDecompress ==
  ASSUME NEW w, DecompressAt(w), StripeIn(w)
  PROVE  Decompressing' /\ ArrayTypes' /\ Within
<1>0. Op(w, "stripe_in") /\ Advance(w) /\ AtTypes(XSEQ, 13) /\ w \in OfWarp(XSEQ) /\ DecompressProg(Running.prog) /\ RunsRow(XSEQ)
        /\ RegTypes(XSEQ) /\ ShmTypes /\ Fit(XSEQ)
  BY BothFit DEF DecompressAt, Decompressing, BlockTypes, StripeIn
<1>1. at[w] = 1 /\ Arg(w) = "fuse"
  BY <1>0, DecompressOps
<1>2. /\ AtTypes(XSEQ, 13)' /\ Within /\ CellMoves(XSEQ, w, 1) /\ Moves(XSEQ, w, 1) /\ Stays
      /\ (block \in 0 .. Grid - 1)'
  BY <1>0, <1>1, DecompressMove
<1> DEFINE X == {x \in Stripes(XSEQ, w) : Inside(x)}
           f == [c \in Valid(Stripe(w)) |-> Fetch("fuse", Id(c))]
<1>3. Valid(Stripe(w)) = CellsOf(X)
  <2>1. Stripe(w) = CellsOf(Stripes(XSEQ, w)) /\ Stripes(XSEQ, w) \in SUBSET Offsets
    BY <1>0, StripeIs DEF CellsOf, Stripes
  <2> QED
    BY <1>0, <2>1, ValidOf
<1>4. shm' = IntoRow(shm, f) /\ overrun' = (overrun \/ Spills(f))
        /\ UNCHANGED <<reg, sq, quant, outlier, xdata, list, count, overtaken>>
  BY <1>1 DEF StripeIn
<1>5. DOMAIN f = CellsOf(X) /\ \A x \in X : f[C(x)] = Delta(Here + x) /\ Delta(Here + x) \in Int
  <2>1. DOMAIN f = CellsOf(X)
    BY <1>3
  <2>2. ASSUME NEW x \in X PROVE f[C(x)] = Delta(Here + x) /\ Delta(Here + x) \in Int
    <3>1. x \in Offsets /\ Inside(x) /\ x \in Nat
      BY Positive DEF Stripes, Offsets
    <3>2. AtStripe(XSEQ, x) # 14
      BY <1>2, <3>1 DEF CellMoves
    <3>3. Id(C(x)) = Here + x
      BY <1>0, <3>1, CellAt
    <3>4. Fetch("fuse", Here + x) = Delta(Here + x) /\ Delta(Here + x) \in Int
      BY <3>1, <3>2, FetchFuse
    <3>5. C(x) \in CellsOf(X)
      BY DEF CellsOf
    <3> QED
      BY <1>3, <3>3, <3>4, <3>5
  <2> QED
    BY <2>1, <2>2
<1> HIDE DEF f, X
<1>6. \A c \in DOMAIN f : \E x \in X : c = C(x)
  BY <1>5 DEF CellsOf
<1>7. X \subseteq Offsets
  BY DEF X, Stripes
<1>8. ~Spills(f) /\ shm' = Over(shm, f)
  BY <1>0, <1>4, <1>6, <1>7, RowFits
<1>9. Reads1(f) /\ ShmTypes'
  <2>1. MapTypes(f)
    BY <1>5, <1>6, UndefApart DEF MapTypes
  <2> QED
    BY <1>0, <1>8, <2>1, ReadOver
<1>10. ASSUME NEW x \in Offsets, Inside(x) PROVE DecompressCell(x)'
  <2>2. AtStripe(XSEQ, x) \in {1, 2} /\ AtChunk(XSEQ, x) \in {1, 2}
          /\ AtStripe(XSEQ, x)' = (IF StripeWarp(XSEQ, x) = w THEN 2 ELSE AtStripe(XSEQ, x)) /\ AtChunk(XSEQ, x)' \in {1, 2}
    BY <1>2, <1>10 DEF CellMoves
  <2>3. ASSUME AtStripe(XSEQ, x)' >= 2 PROVE Fused(x)'
    <3>1. CASE StripeWarp(XSEQ, x) = w
      <4>1. x \in X
        BY <1>10, <3>1 DEF X, Stripes
      <4>2. C(x) \in DOMAIN f /\ f[C(x)] = Delta(Here + x)
        BY <1>5, <4>1 DEF CellsOf
      <4>3. Read(C(x))' = Delta(Here + x)
        BY <1>9, <4>2 DEF Reads1
      <4> QED
        BY <1>2, <4>3 DEF Fused, Stays
    <3>2. CASE StripeWarp(XSEQ, x) # w
      <4>1. Fused(x)
        <5>1. DecompressCell(x)
          BY <1>10 DEF DecompressAt, Decompressing
        <5> QED
          BY <2>2, <2>3, <3>2, <5>1 DEF DecompressCell
      <4>2. C(x) \notin DOMAIN f
        <5>1. ASSUME NEW y \in X, C(x) = C(y) PROVE FALSE
          <6>1. x = y
            BY <5>1, CellsApart
          <6> QED
            BY <3>2, <6>1 DEF X, Stripes
        <5> QED
          BY <1>6, <5>1
      <4>3. Read(C(x))' = Read(C(x))
        BY <1>9, <4>2 DEF Reads1
      <4> QED
        BY <1>2, <4>1, <4>3 DEF Fused, Stays
    <3> QED
      BY <3>1, <3>2
  <2> QED
    BY <2>2, <2>3 DEF DecompressCell
<1>11. \A v \in OfWarp(XSEQ) : DecompressWarp(v)'
  <2>1. \A v \in OfWarp(XSEQ) : at'[v] \in {1, 2}
    BY <1>2 DEF Moves
  <2>2. 0 \in OfWarp(XSEQ)
    BY <1>0, FirstWarp
  <2> QED
    BY <2>1, <2>2 DEF DecompressWarp
<1>12. BlockTypes(XSEQ, 13)'
  <2>1. RegTypes(XSEQ)'
    BY <1>0, <1>4 DEF RegTypes
  <2> QED
    BY <1>2, <1>9, <2>1 DEF BlockTypes
<1>13. (\A id \in 0 .. Length - 1 : Held(id)') /\ ArrayTypes'
  <2>1. Unfinished
    BY <1>2 DEF CellMoves, Unfinished
  <2>2. UNCHANGED <<quant, outlier, list, overrun, overtaken>>
    <3>1. overrun = FALSE
      BY DEF DecompressAt, ArrayTypes
    <3> QED
      BY <1>4, <1>8, <3>1
  <2> QED
    BY <1>2, <2>1, <2>2, DecompressKeeps
<1> QED
  BY <1>2, <1>10, <1>11, <1>12, <1>13 DEF Decompressing, Stays

\* A thread takes its cells into registers.
LEMMA TakeDecompress ==
  ASSUME NEW w, DecompressAt(w), Take(w)
  PROVE  Decompressing' /\ ArrayTypes' /\ Within
<1>0. Op(w, "take") /\ Advance(w) /\ AtTypes(XSEQ, 13) /\ w \in OfWarp(XSEQ) /\ DecompressProg(Running.prog) /\ RunsRow(XSEQ)
        /\ RegTypes(XSEQ) /\ ShmTypes /\ Fit(XSEQ)
  BY BothFit DEF DecompressAt, Decompressing, BlockTypes, Take
<1>1. at[w] = 3 /\ Arg(w) = "-"
  BY <1>0, DecompressOps
<1>2. /\ AtTypes(XSEQ, 13)' /\ Within /\ CellMoves(XSEQ, w, 3) /\ Moves(XSEQ, w, 3) /\ Stays
      /\ (block \in 0 .. Grid - 1)'
  BY <1>0, <1>1, DecompressMove
<1>3. UNCHANGED <<shm, sq, quant, outlier, xdata, list, count, overrun, overtaken>>
  BY DEF Take, codes
<1> DEFINE V(t, i) == IF i > 0 THEN Read(Cell(t, i)) ELSE 0
<1>4. reg' = [t \in OfThread(XSEQ) |-> IF t \div WARP = w THEN [i \in 0 .. XSEQ |-> V(t, i)] ELSE reg[t]]
  <2>1. N = XSEQ /\ DOMAIN reg = OfThread(XSEQ) /\ Threads(w) = {t \in OfThread(XSEQ) : t \div WARP = w}
    BY <1>0, BlockIs DEF RegTypes
  <2>2. reg' = [t \in DOMAIN reg |-> IF t \in Threads(w)
                  THEN [i \in 0 .. N |-> IF i > 0 THEN Read(Cell(t, i))
                          ELSE IF Arg(w) = "prev" /\ t > 0 THEN Read(<<t * N - 1, 0, 0>>) ELSE 0]
                  ELSE reg[t]]
    BY DEF Take, Regs
  <2>3. \A t \in OfThread(XSEQ) : t \in Threads(w) <=> t \div WARP = w
    BY <2>1
  <2> HIDE DEF V
  <2>4. \A t, i : V(t, i) = IF i > 0 THEN Read(Cell(t, i)) ELSE IF Arg(w) = "prev" /\ t > 0 THEN Read(<<t * N - 1, 0, 0>>) ELSE 0
    BY <1>1 DEF V
  <2> QED
    BY <2>1, <2>2, <2>3, <2>4
<1>5. \A t, i : V(t, i) \in Value
  BY <1>0, ReadTyped, UndefApart
<1>6. RegTypes(XSEQ)'
  <2> HIDE DEF V
  <2> QED
    BY <1>0, <1>4, <1>5 DEF RegTypes
<1>7. ShmTypes' /\ \A c : Read(c)' = Read(c)
  BY <1>0, <1>3, ReadSame
<1>8. ASSUME NEW x \in Offsets, Inside(x) PROVE DecompressCell(x)'
  <2>1. /\ AtStripe(XSEQ, x) \in {3, 4} /\ AtStripe(XSEQ, x)' \in {3, 4}
        /\ AtChunk(XSEQ, x) \in {3, 4} /\ AtChunk(XSEQ, x)' = IF ChunkWarp(XSEQ, x) = w THEN 4 ELSE AtChunk(XSEQ, x)
    BY <1>2, <1>8 DEF CellMoves
  <2>2. DecompressCell(x)
    BY <1>8 DEF DecompressAt, Decompressing
  <2>3. Fused(x) /\ Fused(x)'
    <3>1. Fused(x)
      BY <2>1, <2>2 DEF DecompressCell
    <3> QED
      BY <1>2, <1>7, <3>1 DEF Fused, Stays
  <2> DEFINE t == x \div XSEQ
             r == x % XSEQ
  <2>4. t \in OfThread(XSEQ) /\ t \in Nat /\ r \in 0 .. XSEQ - 1 /\ x = t * XSEQ + r /\ XSEQ \in Nat \ {0} /\ x \in Nat
    BY <1>0, <1>8, Offset DEF Fit, OfThread
  <2>5. ASSUME ChunkWarp(XSEQ, x) = w PROVE Taken(x)'
    <3>1. t \div WARP = w
      BY <2>5 DEF ChunkWarp
    <3>2. r + 1 \in 0 .. XSEQ /\ r + 1 \in 1 .. XSEQ
      <4> HIDE DEF r
      <4> QED
        BY <2>4
    <3>3. reg'[t][r + 1] = V(t, r + 1)
      <4> HIDE DEF V, t, r
      <4> QED
        BY <1>4, <2>4, <3>1, <3>2
    <3>4. Cell(t, r + 1) = C(x)
      <4>1. \A i \in 1 .. XSEQ : Cell(t, i) = C(t * XSEQ + i - 1)
        <5> HIDE DEF t
        <5> QED
          BY <1>0, <2>4, BlockIs
      <4>2. t * XSEQ + (r + 1) - 1 = x
        <5>1. t * XSEQ \in Nat
          BY <2>4, Products
        <5> HIDE DEF t, r
        <5> QED
          BY <2>4, <5>1
      <4> HIDE DEF t, r
      <4> QED
        BY <3>2, <4>1, <4>2
    <3>5. V(t, r + 1) = Read(C(x))
      <4>1. r + 1 > 0
        <5> HIDE DEF r
        <5> QED
          BY <3>2
      <4> HIDE DEF t, r
      <4> QED
        BY <3>4, <4>1
    <3> HIDE DEF V
    <3> QED
      BY <1>2, <2>3, <3>3, <3>5 DEF Taken, Fused, Mine, Stays
  <2>6. ASSUME ChunkWarp(XSEQ, x) # w, AtChunk(XSEQ, x)' = 4 PROVE Taken(x)'
    <3>1. Taken(x)
      BY <2>1, <2>2, <2>6 DEF DecompressCell
    <3>2. t \div WARP # w
      BY <2>6 DEF ChunkWarp
    <3>3. reg'[t] = reg[t]
      <4> HIDE DEF V, t
      <4> QED
        BY <1>4, <2>4, <3>2
    <3> HIDE DEF V
    <3> QED
      BY <1>2, <3>1, <3>3 DEF Taken, Mine, Stays
  <2> HIDE DEF V
  <2> QED
    BY <2>1, <2>3, <2>5, <2>6 DEF DecompressCell
<1> HIDE DEF V
<1>9. BlockTypes(XSEQ, 13)'
  BY <1>2, <1>6, <1>7 DEF BlockTypes
<1>10. \A v \in OfWarp(XSEQ) : DecompressWarp(v)'
  <2>1. \A v \in OfWarp(XSEQ) : at'[v] \in {3, 4}
    BY <1>2 DEF Moves
  <2>2. 0 \in OfWarp(XSEQ)
    BY <1>0, FirstWarp
  <2> QED
    BY <2>1, <2>2 DEF DecompressWarp
<1>11. (\A id \in 0 .. Length - 1 : Held(id)') /\ ArrayTypes'
  <2>1. Unfinished
    BY <1>2 DEF CellMoves, Unfinished
  <2> QED
    BY <1>2, <1>3, <2>1, DecompressKeeps
<1> QED
  BY <1>2, <1>8, <1>9, <1>10, <1>11 DEF Decompressing, Stays

\* The sums of a warp.
LEMMA WarpPrefix ==
  ASSUME NEW s, RunsRow(s), RegTypes(s), NEW w, NEW x \in Offsets, ChunkWarp(s, x) = w
  PROVE  /\ Prefix(x \div s, (x % s) + 1, w * WARP) \in Value
         /\ Inside(x) /\ (\A y \in Offsets : ChunkWarp(s, y) = w /\ y <= x => Mine(s, y) = Delta(Here + y))
              => Prefix(x \div s, (x % s) + 1, w * WARP) = Left(x + 1) - Left(First(s, w))
<1> DEFINE first == w * WARP
<1>1. first \in Nat /\ First(s, w) = first * s /\ first * s <= x
        /\ \A y \in Offsets : First(s, w) <= y /\ y <= x => ChunkWarp(s, y) = w
  BY WarpIs DEF RunsRow
<1> HIDE DEF first
<1>2. Prefix(x \div s, (x % s) + 1, first) \in Value
  BY <1>1, PrefixTyped
<1>3. ASSUME Inside(x), \A y \in Offsets : ChunkWarp(s, y) = w /\ y <= x => Mine(s, y) = Delta(Here + y)
      PROVE  Prefix(x \div s, (x % s) + 1, first) = Left(x + 1) - Left(first * s)
  <2>1. \A y \in Offsets : first * s <= y /\ y <= x => Mine(s, y) = Delta(Here + y)
    BY <1>1, <1>3
  <2> QED
    BY <1>1, <1>3, <2>1, ScanIs
<1> QED
  BY <1>1, <1>2, <1>3 DEF first

\* The registers of a warp's threads, all the others' being left.
LEMMA OthersRegisters ==
  ASSUME NEW s, Fit(s), NEW w, \A t \in OfThread(s) : t \div WARP # w => reg'[t] = reg[t],
         NEW x \in Offsets, ChunkWarp(s, x) # w
  PROVE  Mine(s, x)' = Mine(s, x)
<1> DEFINE t == x \div s
<1>1. t \in OfThread(s) /\ t \div WARP # w
  BY Offset DEF ChunkWarp
<1> HIDE DEF t
<1>2. reg'[t] = reg[t]
  BY <1>1
<1> QED
  BY <1>2 DEF Mine, t

\* intrawarp_inclusivescan_1d: a cell's sum from its warp's first cell on.
LEMMA ScanDecompress ==
  ASSUME NEW w, DecompressAt(w), ScanWarp(w)
  PROVE  Decompressing' /\ ArrayTypes' /\ Within
<1>0. Op(w, "scan_warp") /\ Advance(w) /\ AtTypes(XSEQ, 13) /\ w \in OfWarp(XSEQ) /\ DecompressProg(Running.prog) /\ RunsRow(XSEQ)
        /\ RegTypes(XSEQ) /\ ShmTypes /\ Fit(XSEQ)
  BY BothFit DEF DecompressAt, Decompressing, BlockTypes, ScanWarp
<1>1. at[w] = 5
  BY <1>0, DecompressOps
<1>2. /\ AtTypes(XSEQ, 13)' /\ Within /\ CellMoves(XSEQ, w, 5) /\ Moves(XSEQ, w, 5) /\ Stays
      /\ (block \in 0 .. Grid - 1)'
  BY <1>0, <1>1, DecompressMove
<1>3. UNCHANGED <<sq, quant, outlier, xdata, list, count, overrun, overtaken>>
  BY DEF ScanWarp, codes
<1> DEFINE V(t, i) == IF i = 0 THEN 0 ELSE Prefix(t, i, w * WARP)
           f == [c \in {In(w)} |-> Prefix(LastLane(w), N, w * WARP)]
<1>4. /\ reg' = [t \in OfThread(XSEQ) |-> IF t \div WARP = w THEN [i \in 0 .. XSEQ |-> V(t, i)] ELSE reg[t]]
      /\ shm' = Over(shm, f) /\ N = XSEQ
  <2>1. N = XSEQ /\ DOMAIN reg = OfThread(XSEQ) /\ Threads(w) = {t \in OfThread(XSEQ) : t \div WARP = w} /\ Running.lanes = WARP
    BY <1>0, BlockIs DEF RegTypes
  <2>2. FirstLane(w) = w * WARP
    BY <2>1 DEF FirstLane
  <2>3. /\ reg' = [t \in DOMAIN reg |-> IF t \in Threads(w)
                    THEN [i \in 0 .. N |-> IF i = 0 THEN 0 ELSE Prefix(t, i, FirstLane(w))] ELSE reg[t]]
        /\ shm' = Over(shm, [c \in {In(w)} |-> Prefix(LastLane(w), N, FirstLane(w))])
    BY DEF ScanWarp, Regs
  <2>4. \A t \in OfThread(XSEQ) : t \in Threads(w) <=> t \div WARP = w
    BY <2>1
  <2> HIDE DEF V
  <2>5. \A t, i : V(t, i) = IF i = 0 THEN 0 ELSE Prefix(t, i, FirstLane(w))
    BY <2>2 DEF V
  <2>6. reg' = [t \in OfThread(XSEQ) |-> IF t \div WARP = w THEN [i \in 0 .. XSEQ |-> V(t, i)] ELSE reg[t]]
    BY <2>1, <2>3, <2>4, <2>5
  <2>7. shm' = Over(shm, f)
    BY <2>2, <2>3
  <2> QED
    BY <2>1, <2>6, <2>7
<1>5. ASSUME NEW x \in Offsets, ChunkWarp(XSEQ, x) = w
      PROVE  /\ Mine(XSEQ, x)' = Prefix(x \div XSEQ, (x % XSEQ) + 1, w * WARP)
             /\ Prefix(x \div XSEQ, (x % XSEQ) + 1, w * WARP) \in Value
             /\ Inside(x) => Prefix(x \div XSEQ, (x % XSEQ) + 1, w * WARP) = Left(x + 1) - Left(First(XSEQ, w))
  <2> DEFINE t == x \div XSEQ
             r == x % XSEQ
  <2>1. t \in OfThread(XSEQ) /\ t \div WARP = w /\ r \in 0 .. XSEQ - 1 /\ XSEQ \in Nat
    BY <1>0, <1>5, Offset DEF Fit, ChunkWarp
  <2> HIDE DEF t, r
  <2>2. r + 1 \in 0 .. XSEQ /\ r + 1 # 0
    BY <2>1
  <2>3. reg'[t][r + 1] = Prefix(t, r + 1, w * WARP)
    <3>1. reg'[t][r + 1] = V(t, r + 1)
      <4> HIDE DEF V
      <4> QED
        BY <1>4, <2>1, <2>2
    <3> QED
      BY <2>2, <3>1
  <2>4. Mine(XSEQ, x)' = Prefix(x \div XSEQ, (x % XSEQ) + 1, w * WARP)
    BY <2>3 DEF Mine, t, r
  <2>5. Prefix(x \div XSEQ, (x % XSEQ) + 1, w * WARP) \in Value
    BY <1>0, <1>5, WarpPrefix
  <2>6. ASSUME Inside(x)
        PROVE  Prefix(x \div XSEQ, (x % XSEQ) + 1, w * WARP) = Left(x + 1) - Left(First(XSEQ, w))
    <3>1. ASSUME NEW y \in Offsets, ChunkWarp(XSEQ, y) = w, y <= x PROVE Mine(XSEQ, y) = Delta(Here + y)
      <4>1. Inside(y)
        BY <1>0, <1>5, <2>6, <3>1, HereIs, Positive DEF Inside, Offsets
      <4>2. AtChunk(XSEQ, y) = 5
        BY <1>1, <3>1 DEF AtChunk
      <4>3. DecompressCell(y)
        BY <4>1 DEF DecompressAt, Decompressing
      <4> QED
        BY <4>2, <4>3 DEF DecompressCell, Taken
    <3> QED
      BY <1>0, <1>5, <2>6, <3>1, WarpPrefix
  <2> QED
    BY <2>4, <2>5, <2>6
<1>6. PICK z \in Offsets : /\ LastLane(w) = z \div XSEQ /\ XSEQ = (z % XSEQ) + 1 /\ ChunkWarp(XSEQ, z) = w
                           /\ w + 1 \in OfWarp(XSEQ) => z + 1 = First(XSEQ, w + 1)
  BY <1>0, LastIs
<1>7. f[In(w)] = Prefix(z \div XSEQ, (z % XSEQ) + 1, w * WARP) /\ DOMAIN f = {In(w)} /\ f[In(w)] \in Value
  <2>1. f[In(w)] = Prefix(LastLane(w), N, w * WARP) /\ DOMAIN f = {In(w)}
    OBVIOUS
  <2>2. Prefix(LastLane(w), N, w * WARP) = Prefix(z \div XSEQ, (z % XSEQ) + 1, w * WARP)
    BY <1>4, <1>6
  <2> HIDE DEF f
  <2> QED
    BY <1>5, <1>6, <2>1, <2>2
<1>8. RegTypes(XSEQ)'
  <2>1. ASSUME NEW t \in OfThread(XSEQ), t \div WARP = w, NEW i \in 0 .. XSEQ PROVE V(t, i) \in Value
    <3>1. CASE i = 0
      BY <3>1, UndefApart
    <3>2. CASE i # 0
      <4> DEFINE x == t * XSEQ + i - 1
      <4>1. i \in 1 .. XSEQ /\ XSEQ \in Nat
        BY <1>0, <3>2 DEF Fit
      <4>2. x \in Offsets /\ x \div XSEQ = t /\ x % XSEQ = i - 1
        BY <1>0, <4>1, ThreadCell
      <4> HIDE DEF x
      <4>3. (x % XSEQ) + 1 = i /\ ChunkWarp(XSEQ, x) = w
        BY <2>1, <4>1, <4>2 DEF ChunkWarp
      <4>4. Prefix(t, i, w * WARP) \in Value
        BY <1>5, <4>2, <4>3
      <4> QED
        BY <3>2, <4>4
    <3> QED
      BY <3>1, <3>2
  <2> HIDE DEF V
  <2> QED
    BY <1>0, <1>4, <2>1 DEF RegTypes
<1> HIDE DEF f
<1>9. Reads1(f) /\ ShmTypes'
  <2>1. MapTypes(f)
    BY <1>7 DEF MapTypes
  <2> QED
    BY <1>0, <1>4, <2>1, ReadOver
<1>10. \A t \in OfThread(XSEQ) : t \div WARP # w => reg'[t] = reg[t]
  <2> HIDE DEF V
  <2> QED
    BY <1>4
<1> HIDE DEF V
<1>11. ASSUME NEW x \in Offsets, Inside(x) PROVE DecompressCell(x)'
  <2>1. /\ AtStripe(XSEQ, x) \in {5, 6} /\ AtStripe(XSEQ, x)' \in {5, 6}
        /\ AtChunk(XSEQ, x) \in {5, 6} /\ AtChunk(XSEQ, x)' = IF ChunkWarp(XSEQ, x) = w THEN 6 ELSE AtChunk(XSEQ, x)
    BY <1>2, <1>11 DEF CellMoves
  <2>2. DecompressCell(x)
    BY <1>11 DEF DecompressAt, Decompressing
  <2>3. Fused(x)'
    <3>1. Fused(x)
      BY <2>1, <2>2 DEF DecompressCell
    <3>2. Read(C(x))' = Read(C(x))
      BY <1>7, <1>9, PlacesApart DEF Reads1
    <3> QED
      BY <1>2, <3>1, <3>2 DEF Fused, Stays
  <2>4. ASSUME ChunkWarp(XSEQ, x) = w PROVE Scanned(x)'
    BY <1>2, <1>5, <1>11, <2>4 DEF Scanned, Stays
  <2>5. ASSUME ChunkWarp(XSEQ, x) # w PROVE (Taken(x) => Taken(x)') /\ (Scanned(x) => Scanned(x)')
    <3>1. Mine(XSEQ, x)' = Mine(XSEQ, x)
      BY <1>0, <1>10, <2>5, OthersRegisters
    <3> QED
      BY <1>2, <3>1 DEF Taken, Scanned, Stays
  <2> QED
    BY <2>1, <2>2, <2>3, <2>4, <2>5 DEF DecompressCell
<1>12. BlockTypes(XSEQ, 13)'
  BY <1>2, <1>8, <1>9 DEF BlockTypes
<1>13. ASSUME NEW v \in OfWarp(XSEQ) PROVE DecompressWarp(v)'
  <2>1. at[v] \in {5, 6} /\ at'[v] = (IF v = w THEN 6 ELSE at[v]) /\ at'[0] \in {5, 6}
    <3>1. 0 \in OfWarp(XSEQ)
      BY <1>0, FirstWarp
    <3> QED
      BY <1>2, <3>1 DEF Moves
  <2>2. ASSUME v = w, w + 1 \in OfWarp(XSEQ), Inside(First(XSEQ, w + 1)) PROVE TotalIn(w)'
    <3>1. Inside(z)
      <4>1. Inside(z + 1)
        BY <1>6, <2>2
      <4>2. z \in Nat /\ Here \in Nat /\ Length \in Nat
        BY <1>0, HereIs, Positive DEF Offsets
      <4> QED
        BY <4>1, <4>2 DEF Inside
    <3>2. f[In(w)] = Left(z + 1) - Left(First(XSEQ, w))
      BY <1>5, <1>6, <1>7, <3>1
    <3>3. Read(In(w))' = f[In(w)]
      BY <1>7, <1>9 DEF Reads1
    <3>4. z + 1 = First(XSEQ, w + 1)
      BY <1>6, <2>2
    <3> QED
      BY <1>2, <3>2, <3>3, <3>4 DEF TotalIn, Stays
  <2>3. ASSUME v # w, TotalIn(v) PROVE TotalIn(v)'
    <3>1. Read(In(v))' = Read(In(v))
      BY <1>7, <1>9, <2>3, PlacesApart DEF Reads1
    <3> QED
      BY <1>2, <2>3, <3>1 DEF TotalIn, Stays
  <2>4. DecompressWarp(v)
    BY DEF DecompressAt, Decompressing
  <2>5. Inside(First(XSEQ, v + 1))' <=> Inside(First(XSEQ, v + 1))
    BY <1>2 DEF Stays
  <2> QED
    BY <2>1, <2>2, <2>3, <2>4, <2>5 DEF DecompressWarp
<1>14. (\A id \in 0 .. Length - 1 : Held(id)') /\ ArrayTypes'
  <2>1. Unfinished
    BY <1>2 DEF CellMoves, Unfinished
  <2> QED
    BY <1>2, <1>3, <2>1, DecompressKeeps
<1> QED
  BY <1>2, <1>11, <1>12, <1>13, <1>14 DEF Decompressing, Stays

\* The first offsets of the warps, in their order.
LEMMA FirstOrder ==
  ASSUME NEW s, Fit(s), NEW v \in OfWarp(s), NEW u \in 0 .. v
  PROVE  /\ First(s, u) \in Nat /\ First(s, u) <= First(s, v) /\ First(s, v) \in Offsets
         /\ First(s, 0) = 0
<1>1. s \in Nat \ {0} /\ NT(s) \in Nat \ {0} /\ NT(s) * s = BLOCK1 /\ WARP \in Nat \ {0} /\ BLOCK1 \in Nat
  BY Positive DEF Fit
<1> DEFINE m == NT(s) - 1
           q == m \div WARP
<1>2. m \in Nat /\ q \in Nat /\ m % WARP \in Nat /\ m = q * WARP + (m % WARP)
  <2>1. m \in Nat
    BY <1>1
  <2> HIDE DEF m
  <2>2. m \div WARP \in Nat /\ m % WARP \in 0 .. WARP - 1 /\ m = (m \div WARP) * WARP + (m % WARP)
    BY <1>1, <2>1, Division
  <2>3. m % WARP \in Nat
    BY <1>1, <2>2
  <2> QED
    BY <2>1, <2>2, <2>3
<1>3. v \in 0 .. q /\ v \in Nat /\ u \in Nat /\ u <= v
  <2>1. v \in 0 .. q
    BY DEF OfWarp
  <2> HIDE DEF q, m
  <2> QED
    BY <1>2, <2>1
<1> DEFINE a == u * WARP
           b == v * WARP
           c == q * WARP
<1>4. a \in Nat /\ b \in Nat /\ c \in Nat /\ a <= b /\ b <= c
  <2> HIDE DEF q, m
  <2>1. u < v => a < b
    BY <1>1, <1>3, ProductOrder
  <2>2. v < q => b < c
    BY <1>1, <1>2, <1>3, ProductOrder
  <2>3. a \in Nat /\ b \in Nat /\ c \in Nat
    BY <1>1, <1>2, <1>3, Products
  <2>4. (u = v => a = b) /\ (v = q => b = c)
    OBVIOUS
  <2> HIDE DEF a, b, c
  <2> QED
    BY <1>2, <1>3, <2>1, <2>2, <2>3, <2>4
<1>5. b < NT(s) /\ b \in Nat /\ NT(s) \in Nat
  <2>1. m = c + (m % WARP)
    BY <1>2
  <2>2. b <= m
    <3> HIDE DEF m, b, c, q
    <3> QED
      BY <1>2, <1>4, <2>1
  <2> HIDE DEF b, c, q
  <2> QED
    BY <1>1, <1>4, <2>2
<1> HIDE DEF m, q, c
<1>6. First(s, u) = a * s /\ First(s, v) = b * s
  BY DEF First
<1> HIDE DEF a, b
<1>7. a * s \in Nat /\ b * s \in Nat /\ a * s <= b * s
  <2>1. a < b => a * s < b * s
    BY <1>1, <1>4, ProductOrder
  <2>2. a * s \in Nat /\ b * s \in Nat
    BY <1>1, <1>4, Products
  <2>3. a = b => a * s = b * s
    OBVIOUS
  <2> QED
    BY <1>4, <2>1, <2>2, <2>3
<1>8. b * s + s <= BLOCK1
  BY <1>1, <1>5, ProductOrder
<1>9. b * s \in Offsets
  <2> DEFINE d == b * s
  <2>1. d \in Nat /\ d + s <= BLOCK1
    BY <1>7, <1>8
  <2> HIDE DEF d
  <2>2. d \in 0 .. BLOCK1 - 1
    BY <1>1, <2>1
  <2> QED
    BY <2>2 DEF d, Offsets
<1>10. First(s, 0) = 0
  <2>1. 0 * WARP * s = 0
    BY <1>1
  <2> QED
    BY <2>1 DEF First
<1> QED
  BY <1>6, <1>7, <1>9, <1>10

\* What the first thread leaves for a warp: the differences up to its first offset.
LEMMA ExchangedIs ==
  ASSUME NEW s, RunsRow(s), ShmTypes, NEW v \in OfWarp(s), Inside(First(s, v)),
         \A u \in OfWarp(s) : u + 1 \in OfWarp(s) /\ Inside(First(s, u + 1))
            => Read(In(u)) = Left(First(s, u + 1)) - Left(First(s, u))
  PROVE  Exchanged(v) = Left(First(s, v))
<1> DEFINE F == [u \in 0 .. v |-> Left(First(s, u))]
<1>1. Fit(s) /\ v \in Nat /\ \A u \in 0 .. v : u \in OfWarp(s)
  <2>1. Fit(s) /\ v \in Nat
    BY FirstWarp DEF RunsRow
  <2> DEFINE k == (NT(s) - 1) \div WARP
  <2>2. OfWarp(s) = 0 .. k
    BY DEF OfWarp
  <2>3. k \in Nat
    <3> DEFINE m == NT(s) - 1
    <3>1. m \in Nat /\ WARP \in Nat \ {0}
      BY <2>1, Positive DEF Fit
    <3> HIDE DEF m
    <3>2. m \div WARP \in Nat
      BY <3>1, Division
    <3> QED
      BY <3>2 DEF m
  <2> HIDE DEF k
  <2>4. \A u \in 0 .. v : u \in OfWarp(s)
    BY <2>1, <2>2, <2>3
  <2> QED
    BY <2>1, <2>4
<1>2. ASSUME NEW u \in 0 .. v PROVE F[u] \in Int /\ Inside(First(s, u))
  <2> DEFINE x == First(s, v)
             y == First(s, u)
  <2>1. y \in Nat /\ y <= x /\ x \in Offsets /\ x \in Nat /\ Inside(x)
    BY <1>1, FirstOrder, Positive DEF Offsets
  <2> HIDE DEF x, y
  <2>2. y \in 0 .. x + 1
    BY <2>1
  <2>3. Left(y) \in Int
    BY <2>1, <2>2, LeftInt
  <2>4. Inside(y)
    BY <2>1, HereIs DEF Inside
  <2> QED
    BY <2>3, <2>4 DEF y
<1>3. ASSUME NEW u \in 0 .. v - 1 PROVE Read(In(u)) = F[u + 1] - F[u]
  <2>1. u \in 0 .. v /\ u + 1 \in 0 .. v
    BY <1>1
  <2>2. u \in OfWarp(s) /\ u + 1 \in OfWarp(s) /\ Inside(First(s, u + 1))
    BY <1>1, <1>2, <2>1
  <2> QED
    BY <2>1, <2>2
<1>4. F[0] = 0 /\ F[v] = Left(First(s, v))
  <2>1. First(s, 0) = 0 /\ 0 \in 0 .. v /\ v \in 0 .. v
    BY <1>1, FirstOrder
  <2>2. Left(0) = 0
    BY DEF Left
  <2> QED
    BY <2>1, <2>2
<1>5. \A u \in 0 .. v : F[u] \in Int
  BY <1>2
<1>6. v \in 0 .. v
  BY <1>1
<1> HIDE DEF F
<1>7. Exchanged(v) = F[v] - F[0]
  BY <1>1, <1>3, <1>5, ExchangeSum
<1>8. F[v] \in Int
  BY <1>5, <1>6
<1> QED
  BY <1>4, <1>7, <1>8

\* The first warp adds up what every warp came to.
LEMMA ExchangeDecompress ==
  ASSUME NEW w, DecompressAt(w), Exchange(w)
  PROVE  Decompressing' /\ ArrayTypes' /\ Within
<1>0. Op(w, "exchange") /\ Advance(w) /\ AtTypes(XSEQ, 13) /\ w \in OfWarp(XSEQ) /\ DecompressProg(Running.prog) /\ RunsRow(XSEQ)
        /\ RegTypes(XSEQ) /\ ShmTypes /\ Fit(XSEQ)
  BY BothFit DEF DecompressAt, Decompressing, BlockTypes, Exchange
<1>1. at[w] = 7
  BY <1>0, DecompressOps
<1>2. /\ AtTypes(XSEQ, 13)' /\ Within /\ CellMoves(XSEQ, w, 7) /\ Moves(XSEQ, w, 7) /\ Stays
      /\ (block \in 0 .. Grid - 1)'
  BY <1>0, <1>1, DecompressMove
<1>3. UNCHANGED <<reg, sq, quant, outlier, xdata, list, count, overrun, overtaken>>
  BY DEF Exchange, codes
<1> DEFINE f == [c \in {Ex(v) : v \in OfWarp(XSEQ)} |-> Exchanged(c[1])]
<1>4. shm' = IF w # 0 THEN shm ELSE Over(shm, f)
  <2>1. Warps(Running) = OfWarp(XSEQ)
    BY <1>0, BlockIs
  <2>2. w = 0 => shm' = Over(shm, [c \in {Ex(v) : v \in Warps(Running)} |-> Exchanged(c[1])])
    BY DEF Exchange, Exchanged
  <2>3. w # 0 => shm' = shm
    BY DEF Exchange
  <2> QED
    BY <2>1, <2>2, <2>3
<1>5. 0 \in OfWarp(XSEQ) /\ OfWarp(XSEQ) \subseteq Nat
  BY <1>0, FirstWarp
<1>6. /\ \A c \in DOMAIN f : \E v \in OfWarp(XSEQ) : c = Ex(v)
      /\ \A v \in OfWarp(XSEQ) : Ex(v) \in DOMAIN f /\ f[Ex(v)] = Exchanged(v) /\ Exchanged(v) \in Value
  <2>1. \A v \in OfWarp(XSEQ) : Exchanged(v) \in Value
    BY <1>0, <1>5, ExchangeTyped
  <2>2. \A v : Ex(v)[1] = v
    BY DEF Ex
  <2> QED
    BY <2>1, <2>2
<1> HIDE DEF f
<1>7. ShmTypes' /\ (\A x : Read(C(x))' = Read(C(x))) /\ (\A v : Read(In(v))' = Read(In(v)))
        /\ (w # 0 => \A v : Read(Ex(v))' = Read(Ex(v)))
        /\ (w = 0 => \A v \in OfWarp(XSEQ) : Read(Ex(v))' = Exchanged(v))
  <2>1. CASE w # 0
    BY <1>0, <1>4, <2>1, ReadSame
  <2>2. CASE w = 0
    <3>1. MapTypes(f)
      BY <1>6 DEF MapTypes
    <3>2. Reads1(f) /\ ShmTypes'
      BY <1>0, <1>4, <2>2, <3>1, ReadOver
    <3>3. (\A x : C(x) \notin DOMAIN f) /\ \A v : In(v) \notin DOMAIN f
      BY <1>6, PlacesApart
    <3> QED
      BY <1>6, <2>2, <3>2, <3>3 DEF Reads1
  <2> QED
    BY <2>1, <2>2
<1>8. ASSUME NEW x \in Offsets, Inside(x) PROVE DecompressCell(x)'
  <2>1. /\ AtStripe(XSEQ, x) \in {7, 8} /\ AtStripe(XSEQ, x)' \in {7, 8}
        /\ AtChunk(XSEQ, x) \in {7, 8} /\ AtChunk(XSEQ, x)' \in {7, 8}
    BY <1>2, <1>8 DEF CellMoves
  <2>2. DecompressCell(x)
    BY <1>8 DEF DecompressAt, Decompressing
  <2>3. Fused(x) /\ Scanned(x)
    BY <2>1, <2>2 DEF DecompressCell
  <2>4. Fused(x)' /\ Scanned(x)'
    BY <1>2, <1>3, <1>7, <2>3 DEF Fused, Scanned, Mine, Stays
  <2> QED
    BY <2>1, <2>4 DEF DecompressCell
<1>9. BlockTypes(XSEQ, 13)'
  <2>1. RegTypes(XSEQ)'
    BY <1>0, <1>3 DEF RegTypes
  <2> QED
    BY <1>2, <1>7, <2>1 DEF BlockTypes
<1>10. \A v \in OfWarp(XSEQ) : at[v] \in {7, 8} /\ at'[v] = (IF v = w THEN 8 ELSE at[v]) /\ DecompressWarp(v)
  BY <1>2 DEF Moves, DecompressAt, Decompressing
<1>11. ASSUME NEW v \in OfWarp(XSEQ) PROVE DecompressWarp(v)'
  <2>1. /\ Inside(First(XSEQ, v + 1))' <=> Inside(First(XSEQ, v + 1))
        /\ Inside(First(XSEQ, v))' <=> Inside(First(XSEQ, v))
    BY <1>2 DEF Stays
  <2>2. TotalIn(v) => TotalIn(v)'
    BY <1>2, <1>7 DEF TotalIn, Stays
  <2>3. ASSUME w = 0, Inside(First(XSEQ, v)) PROVE TotalEx(v)'
    <3>1. \A u \in OfWarp(XSEQ) : u + 1 \in OfWarp(XSEQ) /\ Inside(First(XSEQ, u + 1))
            => Read(In(u)) = Left(First(XSEQ, u + 1)) - Left(First(XSEQ, u))
      <4>1. ASSUME NEW u \in OfWarp(XSEQ), u + 1 \in OfWarp(XSEQ), Inside(First(XSEQ, u + 1))
            PROVE  Read(In(u)) = Left(First(XSEQ, u + 1)) - Left(First(XSEQ, u))
        <5>1. at[u] >= 6 /\ DecompressWarp(u)
          BY <1>10
        <5> QED
          BY <4>1, <5>1 DEF DecompressWarp, TotalIn
      <4> QED
        BY <4>1
    <3>2. Exchanged(v) = Left(First(XSEQ, v))
      BY <1>0, <2>3, <3>1, ExchangedIs
    <3> QED
      BY <1>2, <1>7, <2>3, <3>2 DEF TotalEx, Stays
  <2>4. ASSUME w # 0, TotalEx(v) PROVE TotalEx(v)'
    BY <1>2, <1>7, <2>4 DEF TotalEx, Stays
  <2>5. at'[v] \in {7, 8} /\ at[v] \in {7, 8} /\ DecompressWarp(v)
    BY <1>10
  <2>6. w # 0 => at'[0] = at[0]
    BY <1>5, <1>10
  <2> QED
    BY <2>1, <2>2, <2>3, <2>4, <2>5, <2>6 DEF DecompressWarp
<1>12. (\A id \in 0 .. Length - 1 : Held(id)') /\ ArrayTypes'
  <2>1. Unfinished
    BY <1>2 DEF CellMoves, Unfinished
  <2> QED
    BY <1>2, <1>3, <2>1, DecompressKeeps
<1> QED
  BY <1>2, <1>8, <1>9, <1>11, <1>12 DEF Decompressing, Stays

\* Each warp adds what those before it came to: the sum from the block on.
LEMMA PropagateDecompress ==
  ASSUME NEW w, DecompressAt(w), Propagate(w)
  PROVE  Decompressing' /\ ArrayTypes' /\ Within
<1>0. Op(w, "propagate") /\ Advance(w) /\ AtTypes(XSEQ, 13) /\ w \in OfWarp(XSEQ) /\ DecompressProg(Running.prog) /\ RunsRow(XSEQ)
        /\ RegTypes(XSEQ) /\ ShmTypes /\ Fit(XSEQ)
  BY BothFit DEF DecompressAt, Decompressing, BlockTypes, Propagate
<1>1. at[w] = 9
  BY <1>0, DecompressOps
<1>2. /\ AtTypes(XSEQ, 13)' /\ Within /\ CellMoves(XSEQ, w, 9) /\ Moves(XSEQ, w, 9) /\ Stays
      /\ (block \in 0 .. Grid - 1)'
  BY <1>0, <1>1, DecompressMove
<1>3. UNCHANGED <<shm, sq, quant, outlier, xdata, list, count, overrun, overtaken>>
  BY DEF Propagate, codes
<1> DEFINE V(t, i) == IF i = 0 THEN 0 ELSE Plus(reg[t][i], Read(Ex(w)))
<1>4. reg' = [t \in OfThread(XSEQ) |-> IF t \div WARP = w THEN [i \in 0 .. XSEQ |-> V(t, i)] ELSE reg[t]]
  <2>1. N = XSEQ /\ DOMAIN reg = OfThread(XSEQ) /\ Threads(w) = {t \in OfThread(XSEQ) : t \div WARP = w}
    BY <1>0, BlockIs DEF RegTypes
  <2>2. reg' = [t \in DOMAIN reg |-> IF t \in Threads(w) THEN [i \in 0 .. N |-> V(t, i)] ELSE reg[t]]
    BY DEF Propagate, Regs
  <2>3. \A t \in OfThread(XSEQ) : t \in Threads(w) <=> t \div WARP = w
    BY <2>1
  <2> HIDE DEF V
  <2> QED
    BY <2>1, <2>2, <2>3
<1>5. \A t \in OfThread(XSEQ), i \in 0 .. XSEQ : V(t, i) \in Value
  <2>1. ASSUME NEW t \in OfThread(XSEQ), NEW i \in 0 .. XSEQ PROVE V(t, i) \in Value
    <3>1. reg[t][i] \in Value /\ Read(Ex(w)) \in Value /\ 0 \in Value
      <4>1. reg[t][i] \in Value
        BY <1>0 DEF RegTypes
      <4>2. Read(Ex(w)) \in Value
        BY <1>0, ReadTyped
      <4> QED
        BY <4>1, <4>2, UndefApart
    <3>2. Plus(reg[t][i], Read(Ex(w))) \in Value
      BY <3>1, ValueSum
    <3> QED
      BY <3>1, <3>2
  <2> QED
    BY <2>1
<1>6. RegTypes(XSEQ)'
  <2> HIDE DEF V
  <2> QED
    BY <1>0, <1>4, <1>5 DEF RegTypes
<1>7. ShmTypes' /\ \A c : Read(c)' = Read(c)
  BY <1>0, <1>3, ReadSame
<1>8. \A t \in OfThread(XSEQ) : t \div WARP # w => reg'[t] = reg[t]
  <2> HIDE DEF V
  <2> QED
    BY <1>4
<1>9. ASSUME NEW x \in Offsets, Inside(x), ChunkWarp(XSEQ, x) = w, Scanned(x) PROVE Mine(XSEQ, x)' = Left(x + 1)
  <2> DEFINE t == x \div XSEQ
             r == x % XSEQ
  <2>1. t \in OfThread(XSEQ) /\ t \div WARP = w /\ r \in 0 .. XSEQ - 1 /\ XSEQ \in Nat
    BY <1>0, <1>9, Offset DEF Fit, ChunkWarp
  <2> HIDE DEF t, r
  <2>2. r + 1 \in 0 .. XSEQ /\ r + 1 # 0
    BY <2>1
  <2>3. reg'[t][r + 1] = Plus(reg[t][r + 1], Read(Ex(w)))
    <3>1. reg'[t][r + 1] = V(t, r + 1)
      <4> HIDE DEF V
      <4> QED
        BY <1>4, <2>1, <2>2
    <3> QED
      BY <2>2, <3>1
  <2>4. Mine(XSEQ, x)' = Plus(Mine(XSEQ, x), Read(Ex(w)))
    BY <2>3 DEF Mine, t, r
  <2> DEFINE y == First(XSEQ, w)
  <2>5. y \in Nat /\ y <= x /\ x \in Nat
    BY <1>0, <1>9, WarpIs, Positive DEF Offsets
  <2>6. Inside(y) /\ y \in 0 .. x + 1
    <3> HIDE DEF y
    <3> QED
      BY <1>0, <1>9, <2>5, HereIs DEF Inside
  <2>7. Read(Ex(w)) = Left(y)
    <3>1. at[0] \in {9, 10}
      BY <1>0, <1>2, FirstWarp DEF Moves
    <3>2. DecompressWarp(w)
      BY <1>0 DEF DecompressAt, Decompressing
    <3> QED
      BY <2>6, <3>1, <3>2 DEF DecompressWarp, TotalEx
  <2>8. Mine(XSEQ, x) = Left(x + 1) - Left(y)
    BY <1>9 DEF Scanned
  <2> HIDE DEF y
  <2>9. Left(x + 1) \in Int /\ Left(y) \in Int
    BY <1>0, <1>9, <2>6, LeftIs, LeftInt
  <2>10. Plus(Left(x + 1) - Left(y), Left(y)) = Left(x + 1)
    <3>1. Left(x + 1) - Left(y) \in Int /\ (Left(x + 1) - Left(y)) + Left(y) = Left(x + 1)
      BY <2>9
    <3> QED
      BY <2>9, <3>1, IntSum
  <2> QED
    BY <2>4, <2>7, <2>8, <2>10
<1> HIDE DEF V
<1>10. ASSUME NEW x \in Offsets, Inside(x) PROVE DecompressCell(x)'
  <2>1. /\ AtStripe(XSEQ, x) \in {9, 10} /\ AtStripe(XSEQ, x)' \in {9, 10}
        /\ AtChunk(XSEQ, x) \in {9, 10} /\ AtChunk(XSEQ, x)' = IF ChunkWarp(XSEQ, x) = w THEN 10 ELSE AtChunk(XSEQ, x)
    BY <1>2, <1>10 DEF CellMoves
  <2>2. DecompressCell(x)
    BY <1>10 DEF DecompressAt, Decompressing
  <2>3. Fused(x)'
    <3>1. Fused(x)
      BY <2>1, <2>2 DEF DecompressCell
    <3> QED
      BY <1>2, <1>7, <3>1 DEF Fused, Stays
  <2>4. ASSUME ChunkWarp(XSEQ, x) = w PROVE Summed(x)'
    <3>1. Scanned(x)
      <4>1. AtChunk(XSEQ, x) = 9
        BY <1>1, <2>4 DEF AtChunk
      <4> QED
        BY <2>2, <4>1 DEF DecompressCell
    <3> QED
      BY <1>2, <1>9, <1>10, <2>4, <3>1 DEF Summed, Stays
  <2>5. ASSUME ChunkWarp(XSEQ, x) # w PROVE (Scanned(x) => Scanned(x)') /\ (Summed(x) => Summed(x)')
    <3>1. Mine(XSEQ, x)' = Mine(XSEQ, x)
      BY <1>0, <1>8, <2>5, OthersRegisters
    <3> QED
      BY <1>2, <3>1 DEF Summed, Scanned, Stays
  <2> QED
    BY <2>1, <2>2, <2>3, <2>4, <2>5 DEF DecompressCell
<1>11. BlockTypes(XSEQ, 13)'
  BY <1>2, <1>6, <1>7 DEF BlockTypes
<1>12. ASSUME NEW v \in OfWarp(XSEQ) PROVE DecompressWarp(v)'
  <2>1. at[v] \in {9, 10} /\ at[0] \in {9, 10}
    BY <1>0, <1>2, FirstWarp DEF Moves
  <2>2. DecompressWarp(v)
    BY DEF DecompressAt, Decompressing
  <2> QED
    BY <1>2, <1>7, <2>1, <2>2 DEF DecompressWarp, TotalIn, TotalEx, Stays
<1>13. (\A id \in 0 .. Length - 1 : Held(id)') /\ ArrayTypes'
  <2>1. Unfinished
    BY <1>2 DEF CellMoves, Unfinished
  <2> QED
    BY <1>2, <1>3, <2>1, DecompressKeeps
<1> QED
  BY <1>2, <1>10, <1>11, <1>12, <1>13 DEF Decompressing, Stays

\* A number times the error bound.
LEMMA ScaledIs ==
  /\ \A a \in Value : Scaled(a) \in Value
  /\ \A a \in Int : Scaled(a) = a * EBX2
<1>1. \A a \in Int : a # Undef /\ a * EBX2 \in Int
  BY UndefApart, LorenzoAssumption
<1>2. \A a \in Int : Scaled(a) = a * EBX2
  BY <1>1 DEF Scaled
<1>3. ASSUME NEW a \in Value PROVE Scaled(a) \in Value
  <2>1. CASE a = Undef
    BY <2>1, UndefApart DEF Scaled
  <2>2. CASE a # Undef
    BY <1>1, <1>2, <2>2, UndefApart
  <2> QED
    BY <2>1, <2>2
<1> QED
  BY <1>2, <1>3

\* The sums go back to shared memory, scaled.
LEMMA PutBackDecompress ==
  ASSUME NEW w, DecompressAt(w), PutBack(w)
  PROVE  Decompressing' /\ ArrayTypes' /\ Within
<1>0. Op(w, "put_back") /\ Advance(w) /\ AtTypes(XSEQ, 13) /\ w \in OfWarp(XSEQ) /\ DecompressProg(Running.prog) /\ RunsRow(XSEQ)
        /\ RegTypes(XSEQ) /\ ShmTypes /\ Fit(XSEQ)
  BY BothFit DEF DecompressAt, Decompressing, BlockTypes, PutBack
<1>1. at[w] = 11
  BY <1>0, DecompressOps
<1>2. /\ AtTypes(XSEQ, 13)' /\ Within /\ CellMoves(XSEQ, w, 11) /\ Moves(XSEQ, w, 11) /\ Stays
      /\ (block \in 0 .. Grid - 1)'
  BY <1>0, <1>1, DecompressMove
<1>3. UNCHANGED <<reg, sq, quant, outlier, xdata, list, count, overrun, overtaken>>
  BY DEF PutBack, codes
<1> DEFINE X == Chunks(XSEQ, w)
           f == [c \in CellsOf(X) |-> Scaled(reg[c[1] \div XSEQ][(c[1] % XSEQ) + 1])]
<1>4. shm' = Over(shm, f)
  <2>1. Cells(w) = CellsOf(X) /\ N = XSEQ
    BY <1>0, CellsIs, BlockIs DEF CellsOf, Chunks
  <2>2. shm' = Over(shm, [c \in Cells(w) |-> Scaled(reg[c[1] \div N][(c[1] % N) + 1])])
    BY DEF PutBack
  <2> HIDE DEF X
  <2> QED
    BY <2>1, <2>2
<1>5. (\A c \in DOMAIN f : \E x \in X : c = C(x)) /\ X \subseteq Offsets
  BY DEF CellsOf, Chunks
<1>6. ASSUME NEW x \in X PROVE C(x) \in DOMAIN f /\ f[C(x)] = Scaled(Mine(XSEQ, x)) /\ Scaled(Mine(XSEQ, x)) \in Value
  <2>1. C(x) \in CellsOf(X) /\ C(x)[1] = x
    BY DEF CellsOf, C
  <2>2. f[C(x)] = Scaled(reg[x \div XSEQ][(x % XSEQ) + 1]) /\ C(x) \in DOMAIN f
    <3> HIDE DEF X
    <3> QED
      BY <2>1
  <2>3. Mine(XSEQ, x) \in Value
    BY <1>0, <1>5, MineTyped
  <2> HIDE DEF f
  <2> QED
    BY <2>2, <2>3, ScaledIs DEF Mine
<1> HIDE DEF f, X
<1>7. Reads1(f) /\ ShmTypes'
  <2>1. MapTypes(f)
    BY <1>5, <1>6 DEF MapTypes
  <2> QED
    BY <1>0, <1>4, <2>1, ReadOver
<1>8. ASSUME NEW x \in Offsets, Inside(x) PROVE DecompressCell(x)'
  <2>1. /\ AtStripe(XSEQ, x) \in {11, 12} /\ AtStripe(XSEQ, x)' \in {11, 12}
        /\ AtChunk(XSEQ, x) \in {11, 12} /\ AtChunk(XSEQ, x)' = IF ChunkWarp(XSEQ, x) = w THEN 12 ELSE AtChunk(XSEQ, x)
    BY <1>2, <1>8 DEF CellMoves
  <2>2. DecompressCell(x)
    BY <1>8 DEF DecompressAt, Decompressing
  <2>3. Summed(x) /\ Summed(x)'
    <3>1. Summed(x)
      BY <2>1, <2>2 DEF DecompressCell
    <3> QED
      BY <1>2, <1>3, <3>1 DEF Summed, Mine, Stays
  <2>4. ASSUME ChunkWarp(XSEQ, x) = w PROVE PutThere(x)'
    <3>1. x \in X
      BY <2>4 DEF X, Chunks
    <3>2. Left(x + 1) \in Int
      BY <1>0, <1>8, LeftIs
    <3>3. f[C(x)] = Left(x + 1) * EBX2 /\ C(x) \in DOMAIN f
      BY <1>6, <2>3, <3>1, <3>2, ScaledIs DEF Summed
    <3>4. Read(C(x))' = f[C(x)]
      BY <1>7, <3>3 DEF Reads1
    <3> QED
      BY <1>2, <3>3, <3>4 DEF PutThere, Stays
  <2>5. ASSUME ChunkWarp(XSEQ, x) # w PROVE (Fused(x) => Fused(x)') /\ (PutThere(x) => PutThere(x)')
    <3>1. C(x) \notin DOMAIN f
      <4>1. ASSUME NEW y \in X, C(x) = C(y) PROVE FALSE
        <5>1. x = y
          BY <4>1, CellsApart
        <5> QED
          BY <2>5, <5>1 DEF X, Chunks
      <4> QED
        BY <1>5, <4>1
    <3>2. Read(C(x))' = Read(C(x))
      BY <1>7, <3>1 DEF Reads1
    <3> QED
      BY <1>2, <3>2 DEF Fused, PutThere, Stays
  <2> QED
    BY <2>1, <2>2, <2>3, <2>4, <2>5 DEF DecompressCell
<1>9. BlockTypes(XSEQ, 13)'
  <2>1. RegTypes(XSEQ)'
    BY <1>0, <1>3 DEF RegTypes
  <2> QED
    BY <1>2, <1>7, <2>1 DEF BlockTypes
<1>10. ASSUME NEW v \in OfWarp(XSEQ) PROVE DecompressWarp(v)'
  <2>1. at[v] \in {11, 12} /\ at[0] \in {11, 12}
    BY <1>0, <1>2, FirstWarp DEF Moves
  <2>2. DecompressWarp(v)
    BY DEF DecompressAt, Decompressing
  <2>3. In(v) \notin DOMAIN f /\ Ex(v) \notin DOMAIN f
    BY <1>5, PlacesApart
  <2>4. Read(In(v))' = Read(In(v)) /\ Read(Ex(v))' = Read(Ex(v))
    BY <1>7, <2>3 DEF Reads1
  <2> QED
    BY <1>2, <2>1, <2>2, <2>4 DEF DecompressWarp, TotalIn, TotalEx, Stays
<1>11. (\A id \in 0 .. Length - 1 : Held(id)') /\ ArrayTypes'
  <2>1. Unfinished
    BY <1>2 DEF CellMoves, Unfinished
  <2> QED
    BY <1>2, <1>3, <2>1, DecompressKeeps
<1> QED
  BY <1>2, <1>8, <1>9, <1>10, <1>11 DEF Decompressing, Stays

\* write_1d overwrites the outliers with the result.
LEMMA StripeOutDecompress ==
  ASSUME NEW w, DecompressAt(w), StripeOut(w)
  PROVE  Decompressing' /\ ArrayTypes' /\ Within
<1>0. Op(w, "stripe_out") /\ Advance(w) /\ AtTypes(XSEQ, 13) /\ w \in OfWarp(XSEQ) /\ DecompressProg(Running.prog) /\ RunsRow(XSEQ)
        /\ RegTypes(XSEQ) /\ ShmTypes /\ ArrayTypes /\ IsRow(field) /\ Fit(XSEQ)
  BY BothFit DEF DecompressAt, Decompressing, BlockTypes, StripeOut, RowLaunch
<1>1. at[w] = 13 /\ Arg(w) = "xdata"
  BY <1>0, DecompressOps
<1>2. /\ AtTypes(XSEQ, 13)' /\ Within /\ CellMoves(XSEQ, w, 13) /\ Moves(XSEQ, w, 13) /\ Stays
      /\ (block \in 0 .. Grid - 1)'
  BY <1>0, <1>1, DecompressMove
<1> DEFINE X == {x \in Stripes(XSEQ, w) : Inside(x)}
           o == Out(Stored(w), shm)
<1>3. Stored(w) = CellsOf(X) /\ X \in SUBSET Offsets
  <2>1. Stripe(w) = CellsOf(Stripes(XSEQ, w)) /\ Stripes(XSEQ, w) \in SUBSET Offsets
    BY <1>0, StripeIs DEF CellsOf, Stripes
  <2>2. Valid(CellsOf(Stripes(XSEQ, w))) = CellsOf(X)
    BY <1>0, <2>1, ValidOf
  <2>3. X \subseteq Stripes(XSEQ, w)
    OBVIOUS
  <2> QED
    BY <2>1, <2>2, <2>3 DEF Stored
<1>4. /\ outlier' = Into(outlier, o) /\ overrun' = (overrun \/ ~(DOMAIN o \subseteq DOMAIN quant))
      /\ UNCHANGED <<quant, xdata, list, count, reg, shm, sq, overtaken>>
  <2>1. ~Testing
    BY DEF DecompressAt, RowLaunch, Testing
  <2> HIDE DEF X
  <2>2. WriteData(o) /\ UNCHANGED <<reg, shm, sq, overtaken>>
    BY <1>1 DEF StripeOut
  <2> HIDE DEF o
  <2> QED
    BY <2>1, <2>2 DEF WriteData, Noted
<1> HIDE DEF X
<1>5. Writes(o, X, shm)
  BY <1>0, <1>3, OutIs
<1> HIDE DEF o
<1>6. \A x \in X : x \in Offsets /\ Inside(x) /\ Here + x \in 0 .. Length - 1 /\ x \in Nat /\ Here \in Nat
                     /\ StripeWarp(XSEQ, x) = w
  <2>1. ASSUME NEW x \in X PROVE x \in Offsets /\ Inside(x) /\ StripeWarp(XSEQ, x) = w
    BY DEF X, Stripes
  <2> QED
    BY <1>0, <2>1, IndexOf
<1>7. DOMAIN o \subseteq DOMAIN quant /\ overrun' = overrun
  BY <1>0, <1>4, <1>5, <1>6 DEF Writes, ArrayTypes
<1>8. ASSUME NEW x \in X PROVE outlier'[Here + x] = P(Here + x) * EBX2 /\ P(Here + x) * EBX2 \in Int
  <2>1. Here + x \in DOMAIN o /\ Here + x \in 0 .. Length - 1 /\ o[Here + x] = shm[C(x)]
    BY <1>5, <1>6 DEF Writes
  <2>2. outlier'[Here + x] = o[Here + x]
    BY <1>0, <1>4, <2>1 DEF Into, ArrayTypes
  <2>3. PutThere(x)
    <3>1. DecompressCell(x)
      BY <1>6 DEF DecompressAt, Decompressing
    <3>2. AtChunk(XSEQ, x) \in {13, 14}
      BY <1>2, <1>6 DEF CellMoves
    <3> QED
      BY <3>1, <3>2 DEF DecompressCell
  <2>4. Left(x + 1) = P(Here + x)
    BY <1>0, <1>6, LeftIs
  <2>5. P(Here + x) * EBX2 \in Int
    <3>1. P(Here + x) \in Int
      BY <1>0, <2>1, DeltaInt
    <3>2. EBX2 \in Int
      BY LorenzoAssumption
    <3> HIDE DEF P
    <3> QED
      BY <3>1, <3>2
  <2>6. Read(C(x)) = P(Here + x) * EBX2
    BY <2>3, <2>4 DEF PutThere
  <2>7. shm[C(x)] = P(Here + x) * EBX2
    BY <2>5, <2>6, ReadThere
  <2> QED
    BY <2>1, <2>2, <2>5, <2>7
<1>9. ASSUME NEW id \in 0 .. Length - 1, \A x \in X : id # Here + x PROVE outlier'[id] = outlier[id]
  <2>1. id \notin DOMAIN o
    BY <1>5, <1>9 DEF Writes
  <2> QED
    BY <1>0, <1>4, <2>1 DEF Into, ArrayTypes
<1>10. ASSUME NEW id \in 0 .. Length - 1 PROVE Held(id)'
  <2>1. Delta(id)' = Delta(id) /\ P(id)' = P(id) /\ Here' = Here
    BY <1>2 DEF Stays
  <2>2. Held(id)
    BY DEF DecompressAt, Decompressing
  <2>3. CASE \E x \in X : id = Here + x
    <3>1. PICK x \in X : id = Here + x
      BY <2>3
    <3>2. AtStripe(XSEQ, x)' = 14 /\ x \in Offsets
      BY <1>2, <1>6 DEF CellMoves
    <3>3. Rebuilt(id)'
      BY <2>1, <3>1, <3>2 DEF Rebuilt
    <3>4. outlier'[id] = P(id) * EBX2
      BY <1>8, <3>1
    <3> QED
      BY <1>4, <2>1, <2>2, <3>3, <3>4 DEF Held, Coded
  <2>4. CASE \A x \in X : id # Here + x
    <3>1. Here \in Nat /\ Length \in Nat
      BY <1>0, HereIs
    <3>2. ASSUME NEW x \in Offsets, id = Here + x
          PROVE  AtStripe(XSEQ, x)' = 14 <=> AtStripe(XSEQ, x) = 14
      <4>1. StripeWarp(XSEQ, x) # w
        <5>1. ASSUME StripeWarp(XSEQ, x) = w PROVE x \in X
          <6>1. Inside(x)
            BY <1>10, <3>1, <3>2 DEF Inside
          <6> QED
            BY <5>1, <6>1 DEF X, Stripes
        <5> QED
          BY <2>4, <3>2, <5>1
      <4> QED
        BY <1>2, <4>1 DEF CellMoves
    <3>3. Rebuilt(id)' <=> Rebuilt(id)
      BY <2>1, <3>2 DEF Rebuilt
    <3>4. outlier'[id] = outlier[id]
      BY <1>9, <2>4
    <3> QED
      BY <1>4, <2>1, <2>2, <3>3, <3>4 DEF Held, Coded
  <2> QED
    BY <2>3, <2>4
<1>11. \A id \in 0 .. Length - 1 : outlier'[id] \in Value
  <2>1. ASSUME NEW id \in 0 .. Length - 1 PROVE outlier'[id] \in Value
    <3>1. CASE \E x \in X : id = Here + x
      BY <1>8, <3>1, UndefApart
    <3>2. CASE \A x \in X : id # Here + x
      BY <1>0, <1>9, <3>2 DEF ArrayTypes
    <3> QED
      BY <3>1, <3>2
  <2> QED
    BY <2>1
<1>12. (\A c : Read(c)' = Read(c)) /\ ShmTypes'
  BY <1>0, <1>4, ReadSame
<1>13. ASSUME NEW x \in Offsets, Inside(x) PROVE DecompressCell(x)'
  <2>1. /\ AtStripe(XSEQ, x) \in {13, 14} /\ AtStripe(XSEQ, x)' \in {13, 14}
        /\ AtChunk(XSEQ, x) \in {13, 14} /\ AtChunk(XSEQ, x)' \in {13, 14}
    BY <1>2, <1>13 DEF CellMoves
  <2>2. DecompressCell(x)
    BY <1>13 DEF DecompressAt, Decompressing
  <2>3. Summed(x) /\ PutThere(x)
    BY <2>1, <2>2 DEF DecompressCell
  <2>4. Summed(x)' /\ PutThere(x)'
    BY <1>2, <1>4, <1>12, <2>3 DEF Summed, PutThere, Mine, Stays
  <2> QED
    BY <2>1, <2>4 DEF DecompressCell
<1>14. BlockTypes(XSEQ, 13)'
  <2>1. RegTypes(XSEQ)'
    BY <1>0, <1>4 DEF RegTypes
  <2> QED
    BY <1>2, <1>12, <2>1 DEF BlockTypes
<1>15. ASSUME NEW v \in OfWarp(XSEQ) PROVE DecompressWarp(v)'
  <2>1. at[v] \in {13, 14} /\ at[0] \in {13, 14}
    BY <1>0, <1>2, FirstWarp DEF Moves
  <2>2. DecompressWarp(v)
    BY DEF DecompressAt, Decompressing
  <2> QED
    BY <1>2, <1>12, <2>1, <2>2 DEF DecompressWarp, TotalIn, TotalEx, Stays
<1>16. ArrayTypes'
  <2>1. DOMAIN outlier' = DOMAIN outlier
    BY <1>4 DEF Into
  <2> QED
    BY <1>0, <1>2, <1>4, <1>7, <1>11, <2>1 DEF ArrayTypes, Stays
<1> QED
  BY <1>2, <1>10, <1>13, <1>14, <1>15, <1>16 DEF Decompressing, Stays

\* A barrier of v0_x_1d.
LEMMA SyncDecompress ==
  ASSUME NEW w, DecompressAt(w), Sync
  PROVE  Decompressing' /\ ArrayTypes' /\ Within
<1>0. /\ AtTypes(XSEQ, 13) /\ DecompressProg(Running.prog) /\ RunsRow(XSEQ) /\ RegTypes(XSEQ) /\ ShmTypes /\ Fit(XSEQ)
      /\ block \in 0 .. Grid - 1 /\ AllAt("sync") /\ Everyone
      /\ UNCHANGED <<reg, shm, sq, quant, outlier, xdata, list, count, overrun, overtaken>>
  BY BothFit DEF DecompressAt, Decompressing, BlockTypes, Sync, codes
<1>1. ASSUME NEW v \in OfWarp(XSEQ) PROVE at[v] \in {2, 4, 6, 8, 10, 12} /\ at[v] <= 13 /\ \E j \in Nat : at[v] = 2 * j + 2
  <2>1. DOMAIN at = OfWarp(XSEQ)
    BY <1>0 DEF AtTypes
  <2>2. Op(v, "sync")
    BY <1>0, <2>1 DEF AllAt
  <2>3. at[v] \in {2, 4, 6, 8, 10, 12}
    BY <1>0, <2>2, DecompressOps
  <2>4. /\ 2 = 2 * 0 + 2 /\ 4 = 2 * 1 + 2 /\ 6 = 2 * 2 + 2
        /\ 8 = 2 * 3 + 2 /\ 10 = 2 * 4 + 2 /\ 12 = 2 * 5 + 2
    OBVIOUS
  <2>5. \E j \in Nat : at[v] = 2 * j + 2
    BY <2>3, <2>4
  <2> QED
    BY <2>3, <2>5
<1>2. AtTypes(XSEQ, 13)' /\ Within /\ \A v \in OfWarp(XSEQ) : at'[v] = at[v] + 1 /\ at[v] = at[0]
  <2>1. OfWarp(XSEQ) # {} /\ 0 \in OfWarp(XSEQ)
    BY <1>0, FirstWarp
  <2>2. /\ AtTypes(XSEQ, 13)' /\ Within
        /\ \E k \in Nat : \A v \in OfWarp(XSEQ) : at[v] = 2 * k + 2 /\ at'[v] = 2 * k + 3
    BY <1>0, <1>1, <2>1, Synced
  <2> QED
    BY <2>1, <2>2
<1>3. Stays
  BY <1>2, Staying
<1>4. ShmTypes' /\ \A c : Read(c)' = Read(c)
  BY <1>0, ReadSame
<1>5. \A x \in Offsets :
        /\ AtStripe(XSEQ, x) \in {2, 4, 6, 8, 10, 12} /\ AtStripe(XSEQ, x)' = AtStripe(XSEQ, x) + 1
        /\ AtChunk(XSEQ, x) = AtStripe(XSEQ, x) /\ AtChunk(XSEQ, x)' = AtChunk(XSEQ, x) + 1
  <2>1. \A x \in Offsets : StripeWarp(XSEQ, x) \in OfWarp(XSEQ) /\ ChunkWarp(XSEQ, x) \in OfWarp(XSEQ)
    BY <1>0, Offset
  <2> QED
    BY <1>1, <1>2, <2>1 DEF AtStripe, AtChunk
<1>6. ASSUME NEW x \in Offsets, Inside(x) PROVE DecompressCell(x)'
  <2>1. DecompressCell(x)
    BY <1>6 DEF DecompressAt, Decompressing
  <2>2. /\ (Fused(x) => Fused(x)') /\ (Taken(x) => Taken(x)') /\ (Scanned(x) => Scanned(x)')
        /\ (Summed(x) => Summed(x)') /\ (PutThere(x) => PutThere(x)')
    BY <1>0, <1>3, <1>4 DEF Fused, Taken, Scanned, Summed, PutThere, Mine, Stays
  <2> QED
    BY <1>5, <2>1, <2>2 DEF DecompressCell
<1>7. BlockTypes(XSEQ, 13)'
  <2>1. RegTypes(XSEQ)' /\ (block \in 0 .. Grid - 1)'
    BY <1>0, <1>3 DEF RegTypes, Stays
  <2> QED
    BY <1>2, <1>4, <2>1 DEF BlockTypes
<1>8. ASSUME NEW v \in OfWarp(XSEQ) PROVE DecompressWarp(v)'
  <2>1. /\ at[v] \in {2, 4, 6, 8, 10, 12} /\ at[0] = at[v] /\ at'[v] = at[v] + 1
        /\ at'[0] = at[v] + 1
    BY <1>0, <1>1, <1>2, FirstWarp
  <2>2. DecompressWarp(v)
    BY DEF DecompressAt, Decompressing
  <2> QED
    BY <1>3, <1>4, <2>1, <2>2 DEF DecompressWarp, TotalIn, TotalEx, Stays
<1>9. (\A id \in 0 .. Length - 1 : Held(id)') /\ ArrayTypes'
  <2>1. Unfinished
    BY <1>5 DEF Unfinished
  <2> QED
    BY <1>0, <1>3, <2>1, DecompressKeeps
<1> QED
  BY <1>2, <1>3, <1>6, <1>7, <1>8, <1>9 DEF Decompressing, Stays

\* When a block is over, all of it is rebuilt.
LEMMA DecompressOver ==
  ASSUME NEW w, DecompressAt(w), Over1
  PROVE  \A id \in 0 .. Length - 1 : Rebuilt(id) <=> id < Here + BLOCK1
<1>0. AtTypes(XSEQ, 13) /\ DecompressProg(Running.prog) /\ RunsRow(XSEQ) /\ Fit(XSEQ)
  BY BothFit DEF DecompressAt, Decompressing, BlockTypes
<1>1. \A v \in OfWarp(XSEQ) : at[v] = 14
  <2>1. DOMAIN at = OfWarp(XSEQ) /\ Len(Running.prog) = 13
    BY <1>0 DEF AtTypes, DecompressProg
  <2> QED
    BY <2>1 DEF Over1
<1>2. Here \in Nat /\ BLOCK1 \in Nat \ {0} /\ Length \in Nat
  BY <1>0, HereIs, Positive
<1>3. ASSUME NEW id \in 0 .. Length - 1, id < Here + BLOCK1 PROVE Rebuilt(id)
  <2>1. CASE id < Here
    BY <2>1 DEF Rebuilt
  <2>2. CASE \E x \in Offsets : Inside(x) /\ id = Here + x
    <3>1. PICK x \in Offsets : Inside(x) /\ id = Here + x
      BY <2>2
    <3>2. StripeWarp(XSEQ, x) \in OfWarp(XSEQ)
      BY <1>0, <3>1, Offset
    <3>3. AtStripe(XSEQ, x) = 14
      BY <1>1, <3>2 DEF AtStripe
    <3> QED
      BY <3>1, <3>3 DEF Rebuilt
  <2> QED
    BY <1>0, <1>3, <2>1, <2>2, EarlierOrHere
<1>4. ASSUME NEW id \in 0 .. Length - 1, Rebuilt(id) PROVE id < Here + BLOCK1
  <2>1. CASE id < Here
    BY <1>2, <2>1
  <2>2. CASE \E x \in Offsets : id = Here + x
    <3>1. PICK x \in Offsets : id = Here + x
      BY <2>2
    <3>2. x \in 0 .. BLOCK1 - 1
      BY DEF Offsets
    <3> QED
      BY <1>2, <3>1, <3>2
  <2> QED
    BY <1>4, <2>1, <2>2 DEF Rebuilt
<1> QED
  BY <1>3, <1>4

\* The next block finds its outliers untouched.
LEMMA NextDecompress ==
  ASSUME NEW w, DecompressAt(w), NextBlock
  PROVE  RowInv'
<1>0. /\ RunsRow(XSEQ) /\ RowLaunch /\ ArrayTypes /\ block \in 0 .. Grid - 1 /\ phase = "decompress" /\ Fit(XSEQ)
      /\ RowKernel(Running, XSEQ)
  BY BothFit DEF DecompressAt, Decompressing, BlockTypes, RunsRow
<1>1. /\ Over1 /\ block + 1 < NBlock(Running) /\ block' = block + 1 /\ Fresh(Running)
      /\ UNCHANGED <<field, pair, kernels, next, ti1, ghost, phase, quant, outlier, xdata, list, count, overrun, overtaken>>
  BY DEF NextBlock, launched, codes
<1>2. \A id \in 0 .. Length - 1 : Rebuilt(id) <=> id < Here + BLOCK1
  BY <1>1, DecompressOver
<1>3. AtTypes(XSEQ, 13)' /\ RegTypes(XSEQ)' /\ ShmTypes' /\ \A v \in OfWarp(XSEQ) : at'[v] = 1
  BY <1>0, <1>1, Begins
<1>4. FieldStays
  BY <1>1, FieldStaying
<1>5. Here' = Here + BLOCK1 /\ Here \in Nat
  <2>1. Here' = BLOCK1 * (block + 1)
    BY <1>1 DEF Here
  <2>2. block \in Nat /\ BLOCK1 \in Nat
    BY <1>0, Positive, NBlockIs
  <2>3. BLOCK1 * (block + 1) = BLOCK1 * block + BLOCK1
    BY <2>2
  <2> QED
    BY <1>0, <2>1, <2>3, HereIs DEF Here
<1>6. \A x \in Offsets : AtStripe(XSEQ, x)' = 1 /\ AtChunk(XSEQ, x)' = 1
  <2>1. \A x \in Offsets : StripeWarp(XSEQ, x) \in OfWarp(XSEQ) /\ ChunkWarp(XSEQ, x) \in OfWarp(XSEQ)
    BY <1>0, Offset
  <2> QED
    BY <1>3, <2>1 DEF AtStripe, AtChunk
<1>7. ASSUME NEW id \in 0 .. Length - 1 PROVE Held(id)'
  <2>1. Rebuilt(id)' <=> Rebuilt(id)
    BY <1>2, <1>5, <1>6 DEF Rebuilt
  <2>2. Held(id)
    BY DEF DecompressAt, Decompressing
  <2> QED
    BY <1>1, <1>4, <2>1, <2>2 DEF Held, Coded, FieldStays
<1>8. \A x \in Offsets : DecompressCell(x)'
  BY <1>6 DEF DecompressCell
<1>9. \A v \in OfWarp(XSEQ) : DecompressWarp(v)'
  BY <1>0, <1>3, FirstWarp DEF DecompressWarp
<1>10. (block \in 0 .. Grid - 1)'
  <2>1. NBlock(Running) = Grid /\ Grid \in Nat
    BY <1>0, NBlockIs
  <2> QED
    BY <1>0, <1>1, <1>4, <2>1 DEF FieldStays
<1>11. Decompressing'
  BY <1>3, <1>4, <1>7, <1>8, <1>9, <1>10 DEF Decompressing, BlockTypes, FieldStays
<1>12. RowLaunch' /\ ArrayTypes'
  BY <1>0, <1>1, <1>4 DEF RowLaunch, IsRow, ArrayTypes, FieldStays
<1> QED
  BY <1>0, <1>1, <1>11, <1>12 DEF RowInv

\* After the last block every value is the prequantized one, scaled.
LEMMA FinishDecompress ==
  ASSUME NEW w, DecompressAt(w), Finish
  PROVE  RowInv'
<1>0. RunsRow(XSEQ) /\ RowLaunch /\ ArrayTypes /\ phase = "decompress"
  BY DEF DecompressAt
<1>1. /\ Over1 /\ block + 1 = NBlock(Running) /\ phase' = "done" /\ at' = <<>> /\ reg' = <<>> /\ shm' = <<>>
      /\ UNCHANGED <<field, pair, kernels, next, ti1, ghost, block, quant, outlier, xdata, list, count, overrun, overtaken>>
  BY <1>0 DEF Finish, launched, codes
<1>2. Length <= Here + BLOCK1 /\ Here \in Nat /\ Length \in Nat
  BY <1>0, <1>1, NBlockIs, HereIs
<1>3. \A id \in 0 .. Length - 1 : outlier[id] = P(id) * EBX2
  <2>1. \A id \in 0 .. Length - 1 : Rebuilt(id) <=> id < Here + BLOCK1
    BY <1>1, DecompressOver
  <2>2. \A id \in 0 .. Length - 1 : id < Here + BLOCK1
    BY <1>2, Positive
  <2> QED
    BY <2>1, <2>2 DEF DecompressAt, Decompressing, Held
<1>4. FieldStays
  BY <1>1, FieldStaying
<1>5. \A id \in 0 .. Length - 1 : (outlier[id] = P(id) * EBX2)'
  BY <1>1, <1>3, <1>4 DEF FieldStays
<1>6. RowLaunch' /\ ArrayTypes' /\ Idle'
  BY <1>0, <1>1, <1>4 DEF RowLaunch, IsRow, ArrayTypes, FieldStays, Idle
<1> QED
  BY <1>1, <1>4, <1>5, <1>6 DEF RowInv, FieldStays

-----------------------------------------------------------------------------
(* Between the launches.                                                    *)

\* The outliers of a row are listed, in the places they come from.
LEMMA Gathers ==
  ASSUME RowInv, phase = "scatter", spv_gather
  PROVE  RowInv'
<1>1. RowLaunch /\ ArrayTypes /\ Idle /\ \A id \in 0 .. Length - 1 : Exact(id)
  BY DEF RowInv
<1>2. /\ list' = [id \in {i \in DOMAIN outlier : outlier[i] # 0} |-> outlier[id]] /\ phase' = "gathered"
      /\ UNCHANGED <<field, pair, kernels, next, ti1, ghost, at, reg, shm, quant, outlier, overrun, overtaken>>
  BY DEF spv_gather, launched, blockvars
<1>3. FieldStays
  BY <1>2, FieldStaying
<1>4. RowLaunch' /\ Idle'
  BY <1>1, <1>2 DEF RowLaunch, IsRow, Idle
<1>5. DOMAIN list' \subseteq DOMAIN outlier
        /\ (\A id \in DOMAIN list' : list'[id] = outlier[id])
        /\ \A id \in DOMAIN outlier : outlier[id] = IF id \in DOMAIN list' THEN list'[id] ELSE 0
  BY <1>2
<1>6. ArrayTypes'
  BY <1>1, <1>2, <1>3, <1>5 DEF ArrayTypes, FieldStays
<1>7. \A id \in 0 .. Length - 1 : Exact(id)' /\ outlier'[id] = IF id \in DOMAIN list' THEN list'[id] ELSE 0
  BY <1>1, <1>2, <1>3, <1>5 DEF Exact, Coded, FieldStays, ArrayTypes
<1> QED
  BY <1>2, <1>3, <1>4, <1>6, <1>7 DEF RowInv, FieldStays

\* They are scattered to where the other kernel takes them.
LEMMA Scatters ==
  ASSUME RowInv, phase = "gathered", spv_scatter
  PROVE  RowInv'
<1>1. /\ RowLaunch /\ ArrayTypes /\ Idle
      /\ \A id \in 0 .. Length - 1 : Exact(id) /\ outlier[id] = IF id \in DOMAIN list THEN list[id] ELSE 0
  BY DEF RowInv
<1>2. /\ phase' = "decompress" /\ block' = 0 /\ Fresh(kernels.x)
      /\ outlier' = Into([id \in DOMAIN outlier |-> 0], list)
      /\ UNCHANGED <<field, pair, kernels, next, ti1, ghost, quant, list, overrun, overtaken>>
  BY DEF spv_scatter, launched
<1>3. FieldStays
  BY <1>2, FieldStaying
<1>4. RowLaunch'
  BY <1>1, <1>2 DEF RowLaunch, IsRow
<1>5. DOMAIN outlier' = DOMAIN outlier /\ \A id \in DOMAIN outlier : outlier'[id] = outlier[id]
  BY <1>1, <1>2 DEF Into, ArrayTypes
<1>6. ArrayTypes'
  BY <1>1, <1>2, <1>3, <1>5 DEF ArrayTypes, FieldStays
<1>7. kernels.x = v0_x_1d(XSEQ) /\ RowKernel(kernels.x, XSEQ) /\ Fit(XSEQ) /\ IsRow(field)
  BY <1>1, KernelsAre, DecompressIs, BothFit DEF RowLaunch
<1>8. AtTypes(XSEQ, 13)' /\ RegTypes(XSEQ)' /\ ShmTypes' /\ \A v \in OfWarp(XSEQ) : at'[v] = 1
  BY <1>2, <1>7, Begins
<1>9. \A x \in Offsets : AtStripe(XSEQ, x)' = 1 /\ AtChunk(XSEQ, x)' = 1
  <2>1. \A x \in Offsets : StripeWarp(XSEQ, x) \in OfWarp(XSEQ) /\ ChunkWarp(XSEQ, x) \in OfWarp(XSEQ)
    BY <1>7, Offset
  <2> QED
    BY <1>8, <2>1 DEF AtStripe, AtChunk
<1>10. Here' = 0
  <2>1. Here' = BLOCK1 * 0
    BY <1>2 DEF Here
  <2> QED
    BY <2>1, Positive
<1>11. ASSUME NEW id \in 0 .. Length - 1 PROVE Held(id)'
  <2>1. ~Rebuilt(id)'
    <3>1. Length \in Nat /\ ~(id < 0)
      BY <1>7 DEF IsRow, Length
    <3> QED
      BY <1>9, <1>10, <3>1 DEF Rebuilt
  <2>2. Exact(id) /\ outlier'[id] = outlier[id]
    BY <1>1, <1>5 DEF ArrayTypes
  <2> QED
    BY <1>2, <1>3, <2>1, <2>2 DEF Held, Exact, Coded, FieldStays
<1>12. \A x \in Offsets : DecompressCell(x)'
  BY <1>9 DEF DecompressCell
<1>13. \A v \in OfWarp(XSEQ) : DecompressWarp(v)'
  BY <1>7, <1>8, FirstWarp DEF DecompressWarp
<1>14. (block \in 0 .. Grid - 1)'
  <2>1. Grid \in Nat \ {0}
    BY <1>7, GridIs
  <2>2. 0 \in 0 .. Grid - 1
    BY <2>1
  <2> QED
    BY <1>2, <1>3, <2>2 DEF FieldStays
<1>15. Decompressing'
  BY <1>3, <1>8, <1>11, <1>12, <1>13, <1>14 DEF Decompressing, BlockTypes, FieldStays
<1> QED
  BY <1>2, <1>4, <1>6, <1>15 DEF RowInv

-----------------------------------------------------------------------------
(* Every step keeps the invariant.                                          *)

\* A step within a launch.
LEMMA CompressStep ==
  ASSUME RowInv, phase = "compress", PredictedNext
  PROVE  RowInv'
<1>1. RowLaunch /\ ArrayTypes /\ Compressing
  BY DEF RowInv
<1>2. RunsRow(SEQ) /\ CompressProg(Running.prog) /\ Fit(SEQ) /\ AtTypes(SEQ, 7) /\ DOMAIN at = OfWarp(SEQ)
  BY <1>1, CompressRuns, BothFit DEF Compressing, BlockTypes, AtTypes
<1>3. 0 \in OfWarp(SEQ) /\ \A w \in OfWarp(SEQ) : CompressAt(w)
  BY <1>1, <1>2, FirstWarp DEF CompressAt
<1>4. ASSUME Compressing', ArrayTypes', Within PROVE RowInv'
  BY <1>1, <1>4, Steady DEF RowInv
<1>5. ASSUME NEW w \in DOMAIN at, WarpStep(w) PROVE RowInv'
  <2>1. w \in OfWarp(SEQ) /\ CompressAt(w)
    BY <1>2, <1>3
  <2>2. ASSUME NEW name, Op(w, name) PROVE name \in {"stripe_in", "take", "quantize_1d", "stripe_out", "sync"}
    BY <1>2, <2>1, <2>2, CompressOps
  <2>3. \A name \in OtherStages : ~Op(w, name)
    BY <2>2 DEF OtherStages
  <2>4. StripeIn(w) \/ Take(w) \/ Quantize1d(w) \/ StripeOut(w) \/ ScanWarp(w) \/ Exchange(w) \/ Propagate(w) \/ PutBack(w)
    BY <1>5, <2>3, OtherSteps
  <2>5. ~ScanWarp(w) /\ ~Exchange(w) /\ ~Propagate(w) /\ ~PutBack(w)
    <3>1. ~Op(w, "scan_warp") /\ ~Op(w, "exchange") /\ ~Op(w, "propagate") /\ ~Op(w, "put_back")
      BY <2>2
    <3>2. ~ScanWarp(w)
      BY <3>1 DEF ScanWarp
    <3>3. ~Exchange(w)
      BY <3>1 DEF Exchange
    <3>4. ~Propagate(w)
      BY <3>1 DEF Propagate
    <3>5. ~PutBack(w)
      BY <3>1 DEF PutBack
    <3> QED
      BY <3>2, <3>3, <3>4, <3>5
  <2>6. Compressing' /\ ArrayTypes' /\ Within
    <3>1. StripeIn(w) => Compressing' /\ ArrayTypes' /\ Within
      BY <2>1, StripeInCompress
    <3>2. Take(w) => Compressing' /\ ArrayTypes' /\ Within
      BY <2>1, TakeCompress
    <3>3. Quantize1d(w) => Compressing' /\ ArrayTypes' /\ Within
      BY <2>1, QuantizeCompress
    <3>4. StripeOut(w) => Compressing' /\ ArrayTypes' /\ Within
      BY <2>1, StripeOutCompress
    <3> QED
      BY <2>4, <2>5, <3>1, <3>2, <3>3, <3>4
  <2> QED
    BY <1>4, <2>6
<1>6. CASE Sync
  BY <1>3, <1>4, <1>6, SyncCompress
<1>7. ~CubScan
  <2>1. ASSUME AllAt("cub_scan") PROVE FALSE
    <3>1. Op(0, "cub_scan")
      BY <1>2, <1>3, <2>1 DEF AllAt
    <3> QED
      BY <1>2, <1>3, <3>1, CompressOps
  <2> QED
    BY <2>1 DEF CubScan
<1>8. CASE NextBlock
  BY <1>3, <1>8, NextCompress
<1>9. CASE Finish
  BY <1>3, <1>9, FinishCompress
<1>10. ~TestOther /\ ~Scatter /\ ~p2013Histogram /\ ~spv_gather /\ ~spv_scatter
  BY DEF TestOther, Scatter, p2013Histogram, spv_gather, spv_scatter
<1> QED
  BY <1>5, <1>6, <1>7, <1>8, <1>9, <1>10 DEF PredictedNext, Predict

\* Each step of reconstruction.
LEMMA DecompressStep ==
  ASSUME RowInv, phase = "decompress", PredictedNext
  PROVE  RowInv'
<1>1. RowLaunch /\ ArrayTypes /\ Decompressing
  BY DEF RowInv
<1>2. RunsRow(XSEQ) /\ DecompressProg(Running.prog) /\ Fit(XSEQ) /\ AtTypes(XSEQ, 13) /\ DOMAIN at = OfWarp(XSEQ)
  BY <1>1, DecompressRuns, BothFit DEF Decompressing, BlockTypes, AtTypes
<1>3. 0 \in OfWarp(XSEQ) /\ \A w \in OfWarp(XSEQ) : DecompressAt(w)
  BY <1>1, <1>2, FirstWarp DEF DecompressAt
<1>4. ASSUME Decompressing', ArrayTypes', Within PROVE RowInv'
  BY <1>1, <1>4, Steady DEF RowInv
<1>5. ASSUME NEW w \in DOMAIN at, WarpStep(w) PROVE RowInv'
  <2>1. w \in OfWarp(XSEQ) /\ DecompressAt(w)
    BY <1>2, <1>3
  <2>2. ASSUME NEW name, Op(w, name)
        PROVE  name \in {"stripe_in", "take", "scan_warp", "exchange", "propagate", "put_back", "stripe_out", "sync"}
    BY <1>2, <2>1, <2>2, DecompressOps
  <2>3. \A name \in OtherStages : ~Op(w, name)
    BY <2>2 DEF OtherStages
  <2>4. StripeIn(w) \/ Take(w) \/ Quantize1d(w) \/ StripeOut(w) \/ ScanWarp(w) \/ Exchange(w) \/ Propagate(w) \/ PutBack(w)
    BY <1>5, <2>3, OtherSteps, ZenonT(30)
  <2>5. ~Quantize1d(w)
    BY <2>2 DEF Quantize1d
  <2>6. Decompressing' /\ ArrayTypes' /\ Within
    BY <2>1, <2>4, <2>5, StripeInDecompress, TakeDecompress, ScanDecompress, ExchangeDecompress, PropagateDecompress,
       PutBackDecompress, StripeOutDecompress
  <2> QED
    BY <1>4, <2>6
<1>6. CASE Sync
  BY <1>3, <1>4, <1>6, SyncDecompress
<1>7. ~CubScan
  <2>1. ASSUME AllAt("cub_scan") PROVE FALSE
    <3>1. Op(0, "cub_scan")
      BY <1>2, <1>3, <2>1 DEF AllAt
    <3> QED
      BY <1>2, <1>3, <3>1, DecompressOps
  <2> QED
    BY <2>1 DEF CubScan
<1>8. CASE NextBlock
  BY <1>3, <1>8, NextDecompress
<1>9. CASE Finish
  BY <1>3, <1>9, FinishDecompress
<1>10. ~TestOther /\ ~Scatter /\ ~p2013Histogram /\ ~spv_gather /\ ~spv_scatter
  BY DEF TestOther, Scatter, p2013Histogram, spv_gather, spv_scatter
<1> QED
  BY <1>5, <1>6, <1>7, <1>8, <1>9, <1>10 DEF PredictedNext, Predict

\* Nothing runs, and nothing changes of what the invariant is about.
LEMMA StillIdle ==
  ASSUME RowInv, phase \in {"scatter", "gathered", "done"}, Idle',
         UNCHANGED <<field, pair, kernels, next, ti1, ghost, phase, quant, outlier, list, overrun, overtaken>>
  PROVE  RowInv'
<1>1. FieldStays
  BY FieldStaying
<1>2. RowLaunch' /\ ArrayTypes'
  BY <1>1 DEF RowInv, RowLaunch, IsRow, ArrayTypes, FieldStays
<1>3. \A id : Exact(id)' <=> Exact(id)
  BY <1>1 DEF Exact, Coded, FieldStays
<1>4. CASE phase = "scatter"
  <2>1. \A id \in 0 .. Length - 1 : Exact(id)
    BY <1>4 DEF RowInv
  <2> QED
    BY <1>1, <1>2, <1>3, <1>4, <2>1 DEF RowInv, FieldStays
<1>5. CASE phase = "gathered"
  <2>1. \A id \in 0 .. Length - 1 : Exact(id) /\ outlier[id] = IF id \in DOMAIN list THEN list[id] ELSE 0
    BY <1>5 DEF RowInv
  <2> QED
    BY <1>1, <1>2, <1>3, <1>5, <2>1 DEF RowInv, FieldStays
<1>6. CASE phase = "done"
  <2>1. \A id \in 0 .. Length - 1 : outlier[id] = P(id) * EBX2
    BY <1>6 DEF RowInv
  <2> QED
    BY <1>1, <1>2, <1>6, <2>1 DEF RowInv, FieldStays
<1> QED
  BY <1>4, <1>5, <1>6

\* Each step between the launches.
LEMMA IdleStep ==
  ASSUME RowInv, phase \in {"scatter", "gathered", "done"}, PredictedNext
  PROVE  RowInv'
<1>1. RowLaunch /\ Idle
  BY DEF RowInv
<1>2. ~NextBlock /\ ~Finish
  BY DEF NextBlock, Finish
<1>3. ~TestOther /\ Launched
  BY <1>1 DEF TestOther, RowLaunch, Launched
<1>4. ASSUME NEW w \in DOMAIN at PROVE FALSE
  BY <1>1 DEF Idle
<1>5. CASE Sync
  <2>1. Idle'
    BY <1>1, <1>5 DEF Sync, Everyone, Idle
  <2>2. UNCHANGED <<field, pair, kernels, next, ti1, ghost, phase, quant, outlier, list, overrun, overtaken>>
    BY <1>5 DEF Sync, Everyone, launched, codes
  <2> QED
    BY <2>1, <2>2, StillIdle
<1>6. CASE CubScan
  <2>1. Idle'
    BY <1>1, <1>6 DEF CubScan, Everyone, Idle
  <2>2. UNCHANGED <<field, pair, kernels, next, ti1, ghost, phase, quant, outlier, list, overrun, overtaken>>
    BY <1>6 DEF CubScan, Everyone, launched, codes
  <2> QED
    BY <2>1, <2>2, StillIdle
<1>7. CASE p2013Histogram
  <2>1. UNCHANGED vars
    BY <1>7 DEF p2013Histogram
  <2>2. /\ UNCHANGED <<field, pair, kernels, next, ti1, ghost, phase, quant, outlier, list, overrun, overtaken>>
        /\ UNCHANGED <<at, reg, shm>>
    BY <2>1 DEF vars, launched, blockvars, codes
  <2>3. Idle'
    BY <1>1, <2>2 DEF Idle
  <2> QED
    BY <2>2, <2>3, StillIdle
<1>8. CASE spv_gather
  BY <1>8, Gathers DEF spv_gather
<1>9. CASE spv_scatter
  BY <1>9, Scatters DEF spv_scatter
<1> QED
  BY <1>2, <1>3, <1>4, <1>5, <1>6, <1>7, <1>8, <1>9 DEF PredictedNext, Predict

\* A step that changes nothing.
LEMMA RowStutter ==
  ASSUME RowInv, UNCHANGED pvars
  PROVE  RowInv'
<1>1. /\ UNCHANGED <<field, pair, kernels, next, ti1, ghost, phase, block, at, reg, shm, sq, quant, outlier, list>>
      /\ UNCHANGED <<overrun, overtaken>>
  BY DEF pvars, vars, launched, blockvars, codes
<1>2. CASE phase \in {"scatter", "gathered", "done"}
  <2>1. Idle'
    BY <1>1, <1>2 DEF RowInv, Idle
  <2> QED
    BY <1>1, <1>2, <2>1, StillIdle
<1>3. Within
  BY <1>1 DEF Within, launched
<1>4. Stays /\ (RowLaunch => RowLaunch') /\ (ArrayTypes => ArrayTypes')
  <2>1. Stays
    BY <1>3, Staying
  <2> QED
    BY <1>1, <1>3, <2>1, Steady DEF ArrayTypes, Stays
<1>5. (\A c : Read(c)' = Read(c)) /\ (\A s, x : Mine(s, x)' = Mine(s, x))
        /\ (\A s, x : AtStripe(s, x)' = AtStripe(s, x) /\ AtChunk(s, x)' = AtChunk(s, x))
  BY <1>1 DEF Read, Mine, AtStripe, AtChunk
<1>6. \A s, n : BlockTypes(s, n) => BlockTypes(s, n)'
  BY <1>1, <1>4 DEF BlockTypes, AtTypes, Abreast, RegTypes, ShmTypes, Stays
<1>7. CASE phase = "compress"
  <2>1. Compressing /\ RowLaunch /\ ArrayTypes
    BY <1>7 DEF RowInv
  <2>2. \A id : Exact(id) => Exact(id)'
    BY <1>1, <1>4 DEF Exact, Coded, Stays
  <2>3. \A x : CompressCell(x) => CompressCell(x)'
    <3>1. \A x : (InMemory(x)' <=> InMemory(x)) /\ (InThread(x)' <=> InThread(x)) /\ (Quantized(x)' <=> Quantized(x))
      BY <1>1, <1>4, <1>5 DEF InMemory, InThread, Quantized, Stays
    <3>2. \A x : Exact(Here + x)' <=> Exact(Here + x)
      BY <1>1, <1>4 DEF Exact, Coded, Stays
    <3> QED
      BY <1>5, <3>1, <3>2 DEF CompressCell
  <2>4. Compressing'
    BY <1>4, <1>6, <2>1, <2>2, <2>3 DEF Compressing, Stays
  <2> QED
    BY <1>1, <1>4, <1>7, <2>1, <2>4 DEF RowInv
<1>8. CASE phase = "decompress"
  <2>1. Decompressing /\ RowLaunch /\ ArrayTypes
    BY <1>8 DEF RowInv
  <2>2. \A id : Held(id) => Held(id)'
    <3>1. \A id : Rebuilt(id)' <=> Rebuilt(id)
      BY <1>4, <1>5 DEF Rebuilt, Stays
    <3> QED
      BY <1>1, <1>4, <3>1 DEF Held, Coded, Stays
  <2>3. \A x : DecompressCell(x) => DecompressCell(x)'
    <3>1. \A x : /\ (Fused(x)' <=> Fused(x)) /\ (Taken(x)' <=> Taken(x)) /\ (Scanned(x)' <=> Scanned(x))
                 /\ (Summed(x)' <=> Summed(x)) /\ (PutThere(x)' <=> PutThere(x))
      BY <1>4, <1>5 DEF Fused, Taken, Scanned, Summed, PutThere, Stays
    <3> QED
      BY <1>5, <3>1 DEF DecompressCell
  <2>4. \A v : DecompressWarp(v) => DecompressWarp(v)'
    BY <1>1, <1>4, <1>5 DEF DecompressWarp, TotalIn, TotalEx, Stays
  <2>5. Decompressing'
    BY <1>4, <1>6, <2>1, <2>2, <2>3, <2>4 DEF Decompressing, Stays
  <2> QED
    BY <1>1, <1>4, <1>8, <2>1, <2>5 DEF RowInv
<1> QED
  BY <1>2, <1>7, <1>8 DEF RowInv

\* The block that runs first.
LEMMA Starts ==
  ASSUME NEW s, Fit(s), NEW k, RowKernel(k, s), NEW n \in Nat,
         at = [w \in Warps(k) |-> 1], shm = <<>>,
         reg = [t \in 0 .. NThread(k) - 1 |-> [i \in 0 .. k.chunk[1] * k.chunk[2] * k.chunk[3] |-> 0]]
  PROVE  AtTypes(s, n) /\ RegTypes(s) /\ ShmTypes /\ \A v \in OfWarp(s) : at[v] = 1
<1>1. s \in Nat \ {0} /\ NT(s) \in Nat \ {0}
  BY DEF Fit
<1>2. NT(s) * 1 * 1 = NT(s) /\ s * 1 * 1 = s
  BY <1>1
<1>3. NThread(k) = NT(s) /\ k.lanes = WARP /\ k.chunk[1] * k.chunk[2] * k.chunk[3] = s
  BY <1>2 DEF RowKernel, NThread
<1>4. Warps(k) = OfWarp(s)
  BY <1>3 DEF Warps, OfWarp
<1>5. at = [w \in OfWarp(s) |-> 1] /\ reg = [t \in OfThread(s) |-> [i \in 0 .. s |-> 0]]
  BY <1>3, <1>4 DEF OfThread
<1>6. 1 \in 1 .. n + 1
  OBVIOUS
<1>7. AtTypes(s, n)
  <2>1. at \in [OfWarp(s) -> 1 .. n + 1] /\ \A v, w \in OfWarp(s) : at[v] = at[w]
    BY <1>5, <1>6
  <2> QED
    BY <2>1 DEF AtTypes, Abreast
<1>8. RegTypes(s)
  <2> DEFINE zeros == [i \in 0 .. s |-> 0]
  <2>1. zeros \in [0 .. s -> Value]
    <3>1. 0 \in Value
      BY UndefApart
    <3> QED
      BY <3>1
  <2>2. reg = [t \in OfThread(s) |-> zeros]
    BY <1>5
  <2> HIDE DEF zeros
  <2>3. reg \in [OfThread(s) -> [0 .. s -> Value]]
    BY <2>1, <2>2
  <2> QED
    BY <2>3 DEF RegTypes
<1>9. ShmTypes
  BY DEF ShmTypes
<1> QED
  BY <1>5, <1>7, <1>8, <1>9

\* The library's kernels, launched on a field of one dimension.
OnARow == pair = "lorenzo_1d" /\ next = "none"

\* Such a field is a row, and the kernels are those of the library.
LEMMA RowsAre ==
  ASSUME Init, OnARow
  PROVE  RowLaunch
<1>1. field \in Fields /\ pair \in Pairs /\ Dim("lorenzo_1d") = ndim(field.len3)
  <2>1. next \notin Tested
    BY LorenzoAssumption DEF OnARow
  <2> QED
    BY <2>1 DEF Init, OnARow
<1>2. Dim("lorenzo_1d") = 1
  BY DEF Dim
<1>3. field.len3[3] = 1 /\ field.len3[2] = 1
  <2>1. ndim(field.len3) = 1
    BY <1>1, <1>2
  <2> QED
    BY <2>1 DEF ndim
<1>4. /\ DOMAIN field.len3 = 1 .. 3 /\ field.len3[1] \in Nat \ {0}
      /\ field.data \in [0 .. field.len3[1] * field.len3[2] * field.len3[3] - 1 -> Int]
  <2>1. \A f \in Fields : /\ \A d \in 1 .. 3 : f.len3[d] \in Nat \ {0}
                         /\ DOMAIN f.len3 = 1 .. 3
                         /\ f.data \in [0 .. f.len3[1] * f.len3[2] * f.len3[3] - 1 -> Int]
    BY LorenzoAssumption
  <2>2. 1 \in 1 .. 3
    OBVIOUS
  <2> QED
    BY <1>1, <2>1, <2>2, Zenon
<1>5. field.len3[1] * 1 * 1 = field.len3[1]
  BY <1>4
<1>6. IsRow(field)
  BY <1>3, <1>4, <1>5 DEF IsRow
<1>7. kernels = launch["lorenzo_1d"] /\ ti1 = <<>> /\ ghost = 0
  BY DEF Init, OnARow, Padded
<1> QED
  BY <1>1, <1>6, <1>7 DEF RowLaunch, OnARow

\* The invariant holds at first.
LEMMA RowInit ==
  ASSUME Init, OnARow
  PROVE  RowInv
<1>1. RowLaunch
  BY RowsAre
<1>2. kernels.c = v0_c_1d(SEQ) /\ RowKernel(kernels.c, SEQ) /\ Fit(SEQ) /\ IsRow(field)
  BY <1>1, KernelsAre, CompressIs, BothFit DEF RowLaunch
<1>3. /\ phase = "compress" /\ block = 0 /\ shm = <<>> /\ list = <<>> /\ overtaken = FALSE /\ overrun = FALSE
      /\ at = [w \in Warps(kernels.c) |-> 1]
      /\ reg = [t \in 0 .. NThread(kernels.c) - 1 |->
                  [i \in 0 .. kernels.c.chunk[1] * kernels.c.chunk[2] * kernels.c.chunk[3] |-> 0]]
  BY DEF Init
<1>4. quant = Arrays(pair).quant /\ outlier = Arrays(pair).outlier
  BY DEF Init, OnARow
<1>5. quant = Fill(Undef) /\ \E n \in {0, Undef} : outlier = Fill(n)
  <2>1. ~InPlace(pair)
    BY DEF OnARow, InPlace
  <2>2. outlier = Fill(IF Compacts(pair) \/ NoOutliers(pair) THEN 0 ELSE Undef) /\ quant = Fill(Undef)
    BY <1>4, <2>1 DEF Arrays
  <2> QED
    BY <2>2
<1>6. DOMAIN field.data = 0 .. Length - 1
  BY <1>2 DEF IsRow, Length
<1>7. ArrayTypes
  <2>1. DOMAIN quant = 0 .. Length - 1 /\ DOMAIN outlier = 0 .. Length - 1
    BY <1>5, <1>6 DEF Fill
  <2>2. \A id \in DOMAIN outlier : outlier[id] \in Value
    BY <1>5, UndefApart DEF Fill
  <2>3. DOMAIN list = {}
    BY <1>3
  <2> QED
    BY <1>3, <2>1, <2>2, <2>3 DEF ArrayTypes
<1>8. AtTypes(SEQ, 7) /\ RegTypes(SEQ) /\ ShmTypes /\ \A v \in OfWarp(SEQ) : at[v] = 1
  BY <1>2, <1>3, Starts
<1>9. 0 \in 0 .. Grid - 1
  <2>1. Grid \in Nat \ {0}
    BY <1>2, GridIs
  <2> QED
    BY <2>1
<1>10. Here = 0 /\ Length \in Nat
  <2>1. BLOCK1 * 0 = 0
    BY Positive
  <2> QED
    BY <1>2, <1>3, <2>1 DEF Here, IsRow, Length
<1>11. ASSUME NEW x \in Offsets PROVE CompressCell(x)
  <2>1. StripeWarp(SEQ, x) \in OfWarp(SEQ) /\ ChunkWarp(SEQ, x) \in OfWarp(SEQ)
    BY <1>2, Offset
  <2>2. AtStripe(SEQ, x) = 1 /\ AtChunk(SEQ, x) = 1
    BY <1>8, <2>1 DEF AtStripe, AtChunk
  <2> QED
    BY <2>2 DEF CompressCell
<1>12. \A id \in 0 .. Length - 1 : ~(id < Here)
  BY <1>10
<1>13. Compressing
  BY <1>3, <1>8, <1>9, <1>11, <1>12 DEF Compressing, BlockTypes
<1> QED
  BY <1>1, <1>3, <1>7, <1>13 DEF RowInv

(* The invariant: on a row, whatever its length and the block's, the        *)
(* thread's and the warp's sizes, and whatever order the warps run in       *)
(* between two barriers, each cell's register, shared memory and codes hold *)
(* what the stages its warp has passed have made of the field.              *)
THEOREM RowInvariant == PredictedSpec /\ OnARow => []RowInv
<1>1. PredictedInit /\ OnARow => RowInv
  BY RowInit DEF PredictedInit
<1>2. RowInv /\ [PredictedNext]_pvars => RowInv'
  <2> SUFFICES ASSUME RowInv, [PredictedNext]_pvars PROVE RowInv'
    OBVIOUS
  <2>1. phase \in {"compress", "scatter", "gathered", "decompress", "done"}
    BY DEF RowInv
  <2>2. CASE PredictedNext
    BY <2>1, <2>2, CompressStep, DecompressStep, IdleStep
  <2>3. CASE UNCHANGED pvars
    BY <2>3, RowStutter
  <2> QED
    BY <2>2, <2>3
<1> QED
  BY <1>1, <1>2, PTL DEF PredictedSpec

-----------------------------------------------------------------------------
(* What the properties are about, on a row.                                 *)

\* The codes are dense, and the result lands in the array of outliers.
LEMMA RowForm ==
  ASSUME RowLaunch
  PROVE  /\ Form = "dense" /\ ~Compacts(pair) /\ pair # "var_1d"
         /\ Result = outlier
<1>1. pair = "lorenzo_1d" /\ next = "none" /\ ti1 = <<>>
  BY DEF RowLaunch
<1>2. ~Compacts(pair)
  BY <1>1 DEF Compacts
<1>3. Form = "dense"
  <2>1. Form = CASE pair \in {"delta_1d", "delta_2d", "delta_3d"} -> "delta"
                 [] pair \in {"pn_2d", "pn_3d"}   -> "pn"
                 [] pair \in {"var_1d", "var_2d", "var_3d"} -> "sign"
                 [] OTHER -> "dense"
    BY <1>2 DEF Form
  <2> QED
    BY <1>1, <2>1
<1>4. ~Testing
  BY <1>1 DEF Testing
<1> QED
  BY <1>1, <1>2, <1>3, <1>4 DEF Result

\* Nothing lies behind a cell along an axis of extent 1.
LEMMA BackAlone ==
  ASSUME NEW f, NEW d \in {2, 3}, NEW id \in DOMAIN f, Pos(id)[d] \in Int, Cube[d] = 1
  PROVE  DOMAIN Back(f, d) = DOMAIN f /\ Back(f, d)[id] = f[id]
<1>1. Pos(id)[d] % Cube[d] = 0
  OBVIOUS
<1> QED
  BY <1>1 DEF Back

\* Along the other axes nothing is subtracted: the Lorenzo difference is Delta.
LEMMA RowDifference ==
  ASSUME RowLaunch, NEW id \in 0 .. Length - 1
  PROVE  Difference[id] = Delta(id)
<1>1. IsRow(field) /\ kernels.c = v0_c_1d(SEQ)
  BY KernelsAre DEF RowLaunch
<1>2. sublen(kernels.c) = <<BLOCK1, 1, 1>>
  BY <1>1, CompressIs, BothFit, GridIs
<1>3. Cube[1] = BLOCK1 /\ Cube[2] = 1 /\ Cube[3] = 1
  <2>1. Side(kernels.c) = BLOCK1
    BY <1>2 DEF Side
  <2> QED
    BY <1>2, <2>1 DEF Cube
<1>4. len3[1] = Length /\ len3[2] = 1 /\ len3[3] = 1 /\ Length \in Nat \ {0}
  BY <1>1 DEF IsRow, len3, Length
<1>5. ASSUME NEW i \in 0 .. Length - 1
      PROVE  Pos(i)[1] = i /\ Pos(i)[2] = 0 /\ Pos(i)[3] = 0
  <2>1. i \div Length = 0 /\ i % Length = i
    BY <1>4
  <2>2. Length * 1 = Length /\ 0 % 1 = 0
    BY <1>4
  <2> QED
    BY <1>4, <2>1, <2>2 DEF Pos
<1> DEFINE F0 == [i \in DOMAIN field.data |-> prequant(field.data[i])]
           F1 == Back(F0, 1)
           F2 == Back(F1, 2)
<1>6. DOMAIN F0 = 0 .. Length - 1 /\ \A i \in 0 .. Length - 1 : F0[i] = P(i)
  <2>1. DOMAIN field.data = 0 .. Length - 1
    BY <1>1 DEF IsRow, Length
  <2> QED
    BY <2>1 DEF P
<1>7. DOMAIN F1 = 0 .. Length - 1
  BY <1>6 DEF Back
<1>8. DOMAIN F2 = 0 .. Length - 1
  BY <1>7 DEF Back
<1>9. Difference = Back(F2, 3)
  BY DEF Difference
<1> HIDE DEF F0, F1, F2
<1>10. Pos(id)[1] = id /\ Pos(id)[2] = 0 /\ Pos(id)[3] = 0
  BY <1>5
<1>11. Difference[id] = F2[id]
  <2>1. Pos(id)[3] \in Int /\ Cube[3] = 1 /\ id \in DOMAIN F2
    BY <1>3, <1>8, <1>10
  <2>2. Back(F2, 3)[id] = F2[id]
    BY <2>1, BackAlone
  <2> QED
    BY <1>9, <2>2
<1>12. F2[id] = F1[id]
  <2>1. Pos(id)[2] \in Int /\ Cube[2] = 1 /\ id \in DOMAIN F1
    BY <1>3, <1>7, <1>10
  <2>2. Back(F1, 2)[id] = F1[id]
    BY <2>1, BackAlone
  <2> QED
    BY <2>2 DEF F2
<1>13. F1[id] = IF id % BLOCK1 = 0 THEN F0[id] ELSE F0[id] - F0[Id3(Shifted(Pos(id), 1, 1))]
  BY <1>3, <1>6, <1>10 DEF F1, Back
<1>14. Id3(Shifted(Pos(id), 1, 1)) = id - 1
  <2> DEFINE g == Shifted(Pos(id), 1, 1)
  <2>1. g[1] = id - 1 /\ g[2] = 0 /\ g[3] = 0
    BY <1>10 DEF Shifted
  <2>2. Id3(g) = g[1] + g[2] * Length + g[3] * Length * 1
    BY <1>4 DEF Id3
  <2> HIDE DEF g
  <2>3. Id3(g) = (id - 1) + 0 * Length + 0 * Length * 1
    BY <2>1, <2>2
  <2>4. 0 * Length = 0 /\ 0 * Length * 1 = 0
    BY <1>4
  <2>5. Id3(g) = id - 1
    BY <2>3, <2>4, <1>4
  <2> QED
    BY <2>5 DEF g
<1>15. CASE id % BLOCK1 = 0
  BY <1>6, <1>11, <1>12, <1>13, <1>15 DEF Delta
<1>16. CASE id % BLOCK1 # 0
  <2>1. id # 0
    <3>1. 0 % BLOCK1 = 0
      BY Positive
    <3> QED
      BY <1>16, <3>1
  <2>2. id - 1 \in 0 .. Length - 1
    BY <2>1, <1>4
  <2>3. F0[id] = P(id) /\ F0[id - 1] = P(id - 1)
    BY <1>6, <2>2
  <2> QED
    BY <1>11, <1>12, <1>13, <1>14, <1>16, <2>3 DEF Delta
<1> QED
  BY <1>15, <1>16

\* What the invariant says of the types,
LEMMA RowTypes ==
  ASSUME RowInv
  PROVE  TypeOK
<1>1. RowLaunch /\ ArrayTypes
  BY DEF RowInv
<1>2. phase \in {"compress", "scatter", "gathered", "decompress", "done"}
  BY DEF RowInv
<1>3. ShmTypes
  <2>1. DOMAIN shm = {} => ShmTypes
    BY DEF ShmTypes
  <2> QED
    BY <2>1 DEF RowInv, Compressing, Decompressing, BlockTypes, Idle
<1> QED
  BY <1>1, <1>2, <1>3 DEF TypeOK, RowLaunch, ArrayTypes, ShmTypes, Padded

\* of the codes and outliers,
LEMMA RowPredicted ==
  ASSUME RowInv
  PROVE  PredictionExact
<1>1. RowLaunch /\ ArrayTypes
  BY DEF RowInv
<1>2. ti1 = <<>> /\ DOMAIN quant = 0 .. Length - 1
  BY <1>1 DEF RowLaunch, ArrayTypes
<1>3. Form = "dense"
  BY <1>1, RowForm
<1>4. ASSUME phase = "scatter", NEW id \in DOMAIN quant
      PROVE  quant[id] = Code("dense", Difference[id]) /\ outlier[id] = Outlier(Difference[id])
  <2>1. Exact(id)
    BY <1>2, <1>4 DEF RowInv
  <2>2. Difference[id] = Delta(id)
    BY <1>1, <1>2, RowDifference
  <2> QED
    BY <2>1, <2>2 DEF Exact, Coded
<1> QED
  BY <1>2, <1>3, <1>4 DEF PredictionExact

\* and of the result.
LEMMA RowBounded ==
  ASSUME RowInv
  PROVE  ErrorBounded
<1>1. RowLaunch /\ ArrayTypes
  BY DEF RowInv
<1>2. Result = outlier /\ DOMAIN outlier = 0 .. Length - 1
  BY <1>1, RowForm DEF ArrayTypes
<1>3. IsRow(field)
  BY <1>1 DEF RowLaunch
<1>4. ASSUME phase = "done", NEW id \in DOMAIN outlier
      PROVE  outlier[id] # Undef /\ 2 * Abs(outlier[id] - field.data[id]) <= EBX2
  <2>1. outlier[id] = P(id) * EBX2
    BY <1>2, <1>4 DEF RowInv
  <2>2. field.data[id] \in Int
    BY <1>2, <1>3, DeltaInt
  <2>3. P(id) * EBX2 \in Int /\ 2 * Abs(P(id) * EBX2 - field.data[id]) <= EBX2
    BY <2>2, Prequantized DEF P
  <2> QED
    BY <2>1, <2>3, UndefApart
<1> QED
  BY <1>2, <1>4 DEF ErrorBounded

\* On a row the types hold, of the launches, the arrays and shared memory.
THEOREM RowTypeOK == PredictedSpec /\ OnARow => []TypeOK
<1>1. RowInv => TypeOK
  BY RowTypes
<1> QED
  BY <1>1, RowInvariant, PTL

\* v0_c_1d computes the Lorenzo difference of every cell of every row and writes
\* it as a code or as an outlier, whatever order its warps run in.
THEOREM RowPredictionExact == PredictedSpec /\ OnARow => []PredictionExact
<1>1. RowInv => PredictionExact
  BY RowPredicted
<1> QED
  BY <1>1, RowInvariant, PTL

\* v0_x_1d brings every value back to within the error bound of the original,
\* for every row, radius and bound, whatever order the warps of either kernel
\* run in, with the outliers gathered and scattered in between.
THEOREM RowErrorBounded == PredictedSpec /\ OnARow => []ErrorBounded
<1>1. RowInv => ErrorBounded
  BY RowBounded
<1> QED
  BY <1>1, RowInvariant, PTL

\* Neither kernel writes past the end of a row, though the last block of the
\* launch may reach beyond it.
THEOREM RowInBounds == PredictedSpec /\ OnARow => []InBounds
<1>1. RowInv => InBounds
  BY DEF RowInv, ArrayTypes, InBounds
<1> QED
  BY <1>1, RowInvariant, PTL

-----------------------------------------------------------------------------
(* The histogram of the codes: its launch, who reads what, the counts.      *)

\* The grid doubles, and outgrows any bound.
LEMMA DoubledIs ==
  /\ Doubled \in [0 .. MaxInts -> Nat \ {0}] /\ Doubled[0] = 1
  /\ \A k \in 1 .. MaxInts : Doubled[k] = 2 * Doubled[k - 1]
  /\ \A k \in 0 .. MaxInts : Doubled[k] > k
<1> DEFINE Eq(f) == f = [k \in 0 .. MaxInts |-> IF k = 0 THEN 1 ELSE 2 * f[k - 1]]
           D == CHOOSE f : Eq(f)
           zeros == [k \in 1 .. MaxInts |-> 0]
<1>1. MaxInts \in Nat \ {0}
  BY PredictedAssumption
<1>2. zeros \in [1 .. MaxInts -> Nat]
  OBVIOUS
<1>3. PICK f : Recurs(f, MaxInts, 2, 1, zeros)
  <2> HIDE DEF zeros
  <2> QED
    BY <1>1, <1>2, Recurrence
<1>4. f \in [0 .. MaxInts -> Nat] /\ f[0] = 1 /\ \A k \in 1 .. MaxInts : f[k] = 2 * f[k - 1]
  <2>1. \A k \in 1 .. MaxInts : f[k] = 2 * f[k - 1] + 0
    BY <1>3 DEF Recurs
  <2>2. f \in [0 .. MaxInts -> Nat] /\ f[0] = 1
    BY <1>3 DEF Recurs
  <2>3. \A k \in 1 .. MaxInts : f[k - 1] \in Nat
    <3>1. \A k \in 1 .. MaxInts : k - 1 \in 0 .. MaxInts
      BY <1>1
    <3> QED
      BY <2>2, <3>1
  <2> QED
    BY <2>1, <2>2, <2>3
<1>5. Eq(f)
  <2>1. \A k \in 0 .. MaxInts : f[k] = IF k = 0 THEN 1 ELSE 2 * f[k - 1]
    BY <1>1, <1>4
  <2> QED
    BY <1>4, <2>1
<1>6. Doubled = D
  BY DEF Doubled
<1>7. Eq(D)
  <2> HIDE DEF Eq
  <2> QED
    BY <1>5
<1> HIDE DEF D
<1>8. D[0] = 1 /\ DOMAIN D = 0 .. MaxInts /\ \A k \in 1 .. MaxInts : D[k] = 2 * D[k - 1]
  <2>1. 0 \in 0 .. MaxInts /\ \A k \in 1 .. MaxInts : k \in 0 .. MaxInts /\ k # 0
    BY <1>1
  <2> QED
    BY <1>7, <2>1
<1> DEFINE S == {k \in 0 .. MaxInts : ~(D[k] \in Nat /\ D[k] > k)}
<1>9. S = {}
  <2> SUFFICES ASSUME S # {} PROVE FALSE
    OBVIOUS
  <2>1. S \in SUBSET Nat
    OBVIOUS
  <2> HIDE DEF S
  <2>2. PICK m \in S : \A n \in S : m <= n
    BY <2>1, Least
  <2>3. m \in 0 .. MaxInts /\ m \in Nat /\ ~(D[m] \in Nat /\ D[m] > m)
    BY <2>2 DEF S
  <2>4. m # 0
    <3>1. ASSUME m = 0 PROVE D[m] = 1
      BY <1>8, <3>1
    <3> QED
      BY <2>3, <3>1
  <2>5. m - 1 \in 0 .. MaxInts /\ m - 1 \notin S /\ m \in 1 .. MaxInts
    BY <1>1, <2>2, <2>3, <2>4
  <2>6. D[m - 1] \in Nat /\ D[m - 1] > m - 1 /\ D[m] = 2 * D[m - 1]
    BY <1>8, <2>5 DEF S
  <2> QED
    BY <2>3, <2>4, <2>6
<1>10. \A k \in 0 .. MaxInts : D[k] \in Nat \ {0} /\ D[k] > k
  BY <1>9
<1>11. D \in [0 .. MaxInts -> Nat \ {0}]
  <2>1. D = [k \in 0 .. MaxInts |-> D[k]]
    BY <1>7
  <2> HIDE DEF S, Eq
  <2> QED
    BY <1>10, <2>1
<1> QED
  BY <1>6, <1>8, <1>10, <1>11

\* A quotient, by the size of what is divided.
LEMMA QuotientIs ==
  ASSUME NEW a \in Nat, NEW d \in Nat \ {0}
  PROVE  /\ a \div d \in Nat /\ a \div d <= a
         /\ a < d => a \div d = 0
         /\ a >= d => a \div d >= 1
         /\ a \div d >= 2 => a >= 2 * d
<1> DEFINE q == a \div d
           r == a % d
<1>1. q \in Nat /\ r \in 0 .. d - 1 /\ a = q * d + r
  BY Division
<1> HIDE DEF q, r
<1> DEFINE p == q * d
<1>2. p \in Nat /\ q <= p
  <2>1. q * 1 <= q * d
    BY <1>1
  <2> QED
    BY <1>1, <2>1
<1>3. q = 0 \/ p >= d
  <2>1. CASE q = 0
    BY <2>1
  <2>2. CASE q # 0
    <3>1. q - 1 \in Nat
      BY <1>1, <2>2
    <3>2. (q - 1) * d \in Nat /\ q * d = (q - 1) * d + d
      BY <1>1, <3>1
    <3> QED
      BY <3>2
  <2> QED
    BY <2>1, <2>2
<1>4. q >= 2 => p >= 2 * d
  <2>1. ASSUME q >= 2 PROVE p >= 2 * d
    <3>1. q - 2 \in Nat
      BY <1>1, <2>1
    <3>2. (q - 2) * d \in Nat /\ q * d = (q - 2) * d + 2 * d
      BY <1>1, <3>1
    <3> QED
      BY <3>2
  <2> QED
    BY <2>1
<1>5. a = p + r
  BY <1>1
<1>6. q = 0 => p = 0
  BY <1>1
<1> HIDE DEF p
<1>7. q \in Nat /\ q <= a /\ (a < d => q = 0) /\ (a >= d => q >= 1) /\ (q >= 2 => a >= 2 * d)
  BY <1>1, <1>2, <1>3, <1>4, <1>5, <1>6
<1> QED
  BY <1>7 DEF q

\* A launch: thread blocks of whole warps; replicas.
Launches(L) ==
  /\ L.grid \in Nat \ {0} /\ L.R \in Nat \ {0}
  /\ \E n \in Nat \ {0} : L.dim = n * WARP

\* Units of threads are whole warps.
LEMMA WholeWarps ==
  ASSUME NEW m \in Nat \ {0}
  PROVE  \E n \in Nat \ {0} : m * UNIT = n * WARP
<1> DEFINE u == UNIT \div WARP
<1>1. WARP \in Nat \ {0} /\ UNIT \in Nat \ {0} /\ UNIT % WARP = 0
  BY Positive, PredictedAssumption
<1>2. u \in Nat /\ UNIT = u * WARP + 0
  BY <1>1, Division
<1> HIDE DEF u
<1>3. UNIT = u * WARP /\ u # 0
  BY <1>1, <1>2
<1>4. m * u \in Nat \ {0} /\ m * (u * WARP) = (m * u) * WARP
  BY <1>1, <1>2, <1>3
<1> QED
  BY <1>3, <1>4

\* The fitted launch has a replica left, and threads to count into it.
LEMMA LaunchIs ==
  ASSUME in_len \in Nat
  PROVE  Launches(optimize_launch)
<1>1. /\ num_SMs \in Nat \ {0} /\ MaxInts \in Nat \ {0} /\ UNIT \in Nat \ {0} /\ MAXBLOCK \in Nat \ {0}
      /\ booklen \in Nat \ {0} /\ MaxInts >= booklen + 1 /\ MAXBLOCK % UNIT = 0
  BY Positive, PredictedAssumption DEF booklen
<1> DEFINE R0 == MaxInts \div (booklen + 1)
<1>2. R0 \in Nat /\ R0 >= 1 /\ R0 <= MaxInts
  <2>1. booklen + 1 \in Nat \ {0}
    BY <1>1
  <2> QED
    BY <1>1, <2>1, QuotientIs
<1>3. \A k \in 0 .. MaxInts : Replicas(k) = R0 \div Doubled[k] /\ Doubled[k] \in Nat \ {0} /\ Doubled[k] > k
  BY DoubledIs DEF Replicas
<1>4. Doubled[0] = 1 /\ \A k \in 1 .. MaxInts : Doubled[k] = 2 * Doubled[k - 1]
  BY DoubledIs
<1> HIDE DEF R0
<1> DEFINE Stops(k) == block_dim(k) <= MAXBLOCK \/ Replicas(k) <= 1
           S == {k \in 0 .. MaxInts : Stops(k)}
           K == CHOOSE k \in 0 .. MaxInts : Stops(k) /\ \A j \in 0 .. k - 1 : ~Stops(j)
<1>5. MaxInts \in S
  <2>1. MaxInts \in 0 .. MaxInts
    BY <1>1
  <2>2. R0 < Doubled[MaxInts] /\ Doubled[MaxInts] \in Nat \ {0}
    BY <1>1, <1>2, <1>3, <2>1
  <2>3. Replicas(MaxInts) = 0
    BY <1>2, <1>3, <2>1, <2>2, QuotientIs
  <2> QED
    BY <2>1, <2>3
<1>6. S \in SUBSET Nat
  OBVIOUS
<1>7. \A k \in S : k \in 0 .. MaxInts /\ Stops(k)
  OBVIOUS
<1>8. \A k \in 0 .. MaxInts : Stops(k) => k \in S
  OBVIOUS
<1> HIDE DEF S, Stops
<1>9. PICK m \in S : \A n \in S : m <= n
  BY <1>5, <1>6, Least
<1>10. m \in 0 .. MaxInts /\ Stops(m) /\ \A j \in 0 .. m - 1 : ~Stops(j)
  <2>1. m \in 0 .. MaxInts /\ Stops(m)
    BY <1>7, <1>9
  <2>2. ASSUME NEW j \in 0 .. m - 1, Stops(j) PROVE FALSE
    <3>1. j \in 0 .. MaxInts /\ j < m
      BY <1>1, <2>1
    <3>2. j \in S
      BY <1>8, <2>2, <3>1
    <3> QED
      BY <1>9, <3>1, <3>2, <2>1
  <2> QED
    BY <2>1, <2>2
<1>11. K \in 0 .. MaxInts /\ Stops(K) /\ \A j \in 0 .. K - 1 : ~Stops(j)
  BY <1>10
<1>12. optimize_launch = [grid |-> grid_dim(K), R |-> Replicas(K),
                          dim |-> IF block_dim(K) <= MAXBLOCK THEN block_dim(K) ELSE MAXBLOCK]
  BY DEF optimize_launch, Stops
<1> HIDE DEF K
<1>13. grid_dim(K) \in Nat \ {0}
  <2>1. Doubled[K] \in Nat \ {0}
    BY <1>3, <1>11
  <2> QED
    BY <1>1, <2>1 DEF grid_dim
<1>14. Replicas(K) \in Nat \ {0}
  <2>1. Doubled[K] \in Nat \ {0} /\ Replicas(K) = R0 \div Doubled[K]
    BY <1>3, <1>11
  <2>2. R0 >= Doubled[K]
    <3>1. CASE K = 0
      BY <1>2, <1>4, <3>1
    <3>2. CASE K # 0
      <4>1. K \in 1 .. MaxInts /\ K - 1 \in 0 .. MaxInts /\ K - 1 \in 0 .. K - 1
        BY <1>1, <1>11, <3>2
      <4>2. ~Stops(K - 1) /\ Replicas(K - 1) = R0 \div Doubled[K - 1] /\ Doubled[K - 1] \in Nat \ {0}
        BY <1>3, <1>11, <4>1
      <4>3. ~(Replicas(K - 1) <= 1)
        BY <4>2 DEF Stops
      <4> DEFINE d == Doubled[K - 1]
                 q == R0 \div d
      <4>4. d \in Nat \ {0} /\ q \in Nat /\ (q >= 2 => R0 >= 2 * d)
        BY <1>2, <4>2, QuotientIs
      <4>5. q >= 2
        BY <4>2, <4>3, <4>4
      <4>6. Doubled[K] = 2 * d
        BY <1>4, <4>1
      <4> HIDE DEF d, q
      <4> QED
        BY <4>4, <4>5, <4>6
    <3> QED
      BY <3>1, <3>2
  <2>3. R0 \div Doubled[K] \in Nat /\ R0 \div Doubled[K] >= 1
    BY <1>2, <2>1, <2>2, QuotientIs
  <2> QED
    BY <2>1, <2>3
<1>15. \E n \in Nat \ {0} : block_dim(K) = n * WARP
  <2> DEFINE a == in_len \div grid_dim(K)
             b == (a + 1) \div UNIT
  <2>1. a \in Nat
    BY <1>13, QuotientIs
  <2>2. b \in Nat
    <3> HIDE DEF a
    <3> QED
      BY <1>1, <2>1, QuotientIs
  <2>3. block_dim(K) = (b + 1) * UNIT
    BY DEF block_dim
  <2> HIDE DEF b
  <2>4. b + 1 \in Nat \ {0}
    BY <2>2
  <2> QED
    BY <2>3, <2>4, WholeWarps
<1>16. \E n \in Nat \ {0} : MAXBLOCK = n * WARP
  <2> DEFINE u == MAXBLOCK \div UNIT
  <2>1. u \in Nat /\ MAXBLOCK = u * UNIT + 0
    BY <1>1, Division
  <2> HIDE DEF u
  <2>2. MAXBLOCK = u * UNIT /\ u # 0
    BY <1>1, <2>1
  <2> QED
    BY <2>1, <2>2, WholeWarps
<1> QED
  BY <1>12, <1>13, <1>14, <1>15, <1>16 DEF Launches

\* G blocks of W threads each take turns: from s on, the same thread reads x; it is
\* the l-th of the b-th.
InTurn(W, G, s, x)  == s <= x /\ (x - s) % (W * G) = 0
Spot(W, G, x, b, l) == x >= 0 /\ (x % (W * G)) \div W = b /\ (x % (W * G)) % W = l
\* A place is reached from one start only.
LEMMA LaneAt ==
  ASSUME NEW W \in Nat \ {0}, NEW G \in Nat \ {0}, NEW b \in 0 .. G - 1, NEW l \in 0 .. W - 1, NEW x \in Int
  PROVE  InTurn(W, G, W * b + l, x) <=> Spot(W, G, x, b, l)
<1> DEFINE wg == W * G
           s == W * b + l
           wb == b * W
<1>1. wg \in Nat \ {0} /\ wb \in Nat /\ s = wb + l /\ wb + W <= wg
  <2>1. wg \in Nat \ {0} /\ wb \in Nat /\ W * b = b * W /\ wg = G * W
    BY Products
  <2>2. b < G
    OBVIOUS
  <2>3. b * W + W <= G * W
    BY <2>2, ProductOrder
  <2> QED
    BY <2>1, <2>3
<1>2. s \in 0 .. wg - 1
  <2> HIDE DEF wg, wb, s
  <2> QED
    BY <1>1
<1>3. s \div W = b /\ s % W = l
  <2>1. (b * W + l) \div W = b /\ (b * W + l) % W = l
    BY DivisionUnique
  <2>2. s = b * W + l
    BY <1>1
  <2> QED
    BY <2>1, <2>2
<1> HIDE DEF wg, s, wb
<1>4. ASSUME s <= x, (x - s) % wg = 0
      PROVE  x >= 0 /\ (x % wg) \div W = b /\ (x % wg) % W = l
  <2> DEFINE y == x - s
             m == y \div wg
  <2>1. y \in Nat /\ y % wg = 0
    BY <1>2, <1>4
  <2> HIDE DEF y
  <2>2. m \in Nat /\ y = m * wg + 0
    BY <1>1, <2>1, Division
  <2> HIDE DEF m
  <2>3. x = m * wg + s
    <3> DEFINE p == m * wg
    <3>1. p \in Nat /\ y = p + 0 /\ y = x - s
      BY <1>1, <2>2 DEF y
    <3> HIDE DEF p
    <3>2. x = p + s
      BY <1>2, <3>1
    <3> QED
      BY <3>2 DEF p
  <2>4. (m * wg + s) % wg = s
    BY <1>1, <1>2, <2>2, DivisionUnique
  <2> QED
    BY <1>2, <1>3, <1>4, <2>3, <2>4
<1>5. ASSUME x >= 0, (x % wg) \div W = b, (x % wg) % W = l
      PROVE  s <= x /\ (x - s) % wg = 0
  <2> DEFINE m == x \div wg
             r == x % wg
  <2>1. x \in Nat
    BY <1>5
  <2>2. m \in Nat /\ r \in 0 .. wg - 1 /\ x = m * wg + r
    BY <1>1, <2>1, Division
  <2>3. r = b * W + l
    <3>1. r \in Nat /\ r \div W = b /\ r % W = l
      BY <1>1, <1>5, <2>2
    <3> HIDE DEF r
    <3> QED
      BY <3>1, Division
  <2> HIDE DEF m, r
  <2>4. r = s
    BY <1>1, <2>3 DEF wb
  <2> DEFINE p == m * wg
  <2>5. p \in Nat /\ x = p + s
    BY <1>1, <2>2, <2>4
  <2>6. (m * wg + 0) % wg = 0
    BY <1>1, <2>2, DivisionUnique
  <2>7. p % wg = 0
    BY <2>5, <2>6
  <2> HIDE DEF p
  <2>8. x - s = p /\ s <= x
    BY <1>2, <2>5
  <2> QED
    BY <2>7, <2>8
<1> QED
  BY <1>4, <1>5, <1>2 DEF wg, s, InTurn, Spot

\* A warp's part of n codes, p for each of nw warps and what is left for the last.
LastPart(p, nw, i)  == p * (nw - 1) <= i
PartOf(p, nw, i)    == IF LastPart(p, nw, i) THEN nw - 1 ELSE i \div p
\* The parts cut up the codes.
LEMMA PartAt ==
  ASSUME NEW P0 \in Nat, NEW nw \in Nat \ {0}, NEW n \in Nat, P0 * nw <= n, NEW w \in 0 .. nw - 1, NEW i \in Int
  PROVE  (P0 * w <= i /\ i <= (IF w >= nw - 1 THEN n ELSE P0 * (w + 1)) - 1)
           <=> (i \in 0 .. n - 1 /\ PartOf(P0, nw, i) = w)
<1> DEFINE a == P0 * w
           z == P0 * (nw - 1)
<1>1. a \in Nat /\ z \in Nat /\ nw - 1 \in Nat /\ w \in Nat /\ a = w * P0 /\ z = (nw - 1) * P0
  BY Products
<1>2. CASE w = nw - 1
  <2>1. a = z
    BY <1>2
  <2> HIDE DEF a, z
  <2>2. ASSUME i \in 0 .. n - 1, PartOf(P0, nw, i) = w PROVE a <= i
    <3>1. CASE LastPart(P0, nw, i)
      BY <2>1, <3>1 DEF LastPart, z
    <3>2. CASE ~LastPart(P0, nw, i)
      <4>1. i \div P0 = w /\ i \in Nat /\ P0 # 0
        <5>1. P0 # 0
          <6>1. 0 * (nw - 1) = 0
            BY <1>1
          <6> QED
            BY <2>2, <3>2, <6>1 DEF LastPart
        <5> QED
          BY <2>2, <3>2, <5>1 DEF PartOf
      <4> DEFINE r == i % P0
      <4>2. i = w * P0 + r /\ r \in Nat
        <5>1. P0 \in Nat \ {0}
          BY <4>1
        <5>2. i = (i \div P0) * P0 + r /\ r \in 0 .. P0 - 1
          BY <4>1, <5>1, Division
        <5> QED
          BY <4>1, <5>1, <5>2
      <4> HIDE DEF r
      <4> QED
        BY <1>1, <4>2
    <3> QED
      BY <3>1, <3>2
  <2>3. ASSUME a <= i, i <= n - 1 PROVE i \in 0 .. n - 1 /\ PartOf(P0, nw, i) = w
    <3>1. LastPart(P0, nw, i)
      BY <2>1, <2>3 DEF LastPart, z
    <3> QED
      BY <1>1, <1>2, <2>3, <3>1 DEF PartOf
  <2> QED
    BY <1>1, <1>2, <2>2, <2>3 DEF a
<1>3. CASE w < nw - 1
  <2> DEFINE e == P0 * (w + 1)
  <2>1. e = a + P0 /\ e \in Nat /\ e = (w + 1) * P0
    BY <1>1
  <2>2. P0 # 0 => e <= z
    <3>1. CASE w + 1 = nw - 1
      BY <3>1
    <3>2. CASE w + 1 # nw - 1
      <4>1. w + 1 < nw - 1 /\ w + 1 \in Nat
        BY <1>1, <1>3, <3>2
      <4>2. P0 # 0 => (w + 1) * P0 < (nw - 1) * P0
        BY <1>1, <4>1, ProductOrder
      <4> HIDE DEF a, e, z
      <4> QED
        BY <1>1, <2>1, <4>2
    <3> QED
      BY <3>1, <3>2
  <2>3. z <= n
    <3>1. P0 * nw = z + P0
      BY <1>1
    <3> HIDE DEF z
    <3> QED
      BY <1>1, <3>1
  <2> HIDE DEF a, e, z
  <2>4. ASSUME a <= i, i <= e - 1 PROVE i \in 0 .. n - 1 /\ PartOf(P0, nw, i) = w
    <3>1. i \in Nat /\ P0 # 0 /\ i - a \in 0 .. P0 - 1
      BY <1>1, <2>1, <2>4
    <3>2. i < z
      BY <1>1, <2>1, <2>2, <2>4, <3>1
    <3>3. (w * P0 + (i - a)) \div P0 = w
      BY <1>1, <3>1, DivisionUnique
    <3>4. w * P0 + (i - a) = i
      BY <1>1, <3>1
    <3>5. ~LastPart(P0, nw, i)
      BY <1>1, <3>1, <3>2 DEF LastPart, z
    <3> QED
      BY <2>3, <3>1, <3>2, <1>1, <3>3, <3>4, <3>5 DEF PartOf
  <2>5. ASSUME i \in 0 .. n - 1, PartOf(P0, nw, i) = w PROVE a <= i /\ i <= e - 1
    <3>1. ~LastPart(P0, nw, i) /\ i \div P0 = w /\ i \in Nat
      BY <1>1, <1>3, <2>5 DEF PartOf
    <3>2. P0 # 0
      <4>1. 0 * (nw - 1) = 0
        BY <1>1
      <4> QED
        BY <3>1, <4>1 DEF LastPart
    <3> DEFINE r == i % P0
    <3>3. i = w * P0 + r /\ r \in 0 .. P0 - 1
      BY <3>1, <3>2, Division
    <3> HIDE DEF r
    <3> QED
      BY <1>1, <2>1, <3>3
  <2> QED
    BY <1>1, <1>3, <2>4, <2>5 DEF a, e
<1> QED
  BY <1>1, <1>2, <1>3

\* What reads a code: the thread of the block whose turn it is.
WarpsOf(L)     == L.dim \div WARP
WarpOf(L, i)   == PartOf(Part(L), WarpsOf(L), i)
Turn(L, i)     == (i - Part(L) * WarpOf(L, i)) % (WARP * L.grid)
BlockOf(L, i)  == Turn(L, i) \div WARP
ThreadOf(L, i) == WarpOf(L, i) * WARP + (Turn(L, i) % WARP)

\* The parts of a launch.
LEMMA LaunchParts ==
  ASSUME NEW L, Launches(L), in_len \in Nat
  PROVE  /\ WARP \in Nat \ {0} /\ L.grid \in Nat \ {0} /\ L.dim \in Nat
         /\ WarpsOf(L) \in Nat \ {0} /\ L.dim = WarpsOf(L) * WARP
         /\ Part(L) \in Nat /\ Part(L) * WarpsOf(L) <= in_len
<1>1. WARP \in Nat \ {0} /\ L.grid \in Nat \ {0}
  BY Positive DEF Launches
<1>2. PICK n \in Nat \ {0} : L.dim = n * WARP
  BY DEF Launches
<1>3. WarpsOf(L) = n
  <2>1. (n * WARP + 0) \div WARP = n
    BY <1>1, DivisionUnique
  <2>2. n * WARP + 0 = n * WARP
    BY <1>1
  <2> QED
    BY <1>2, <2>1, <2>2 DEF WarpsOf
<1>4. L.dim \in Nat
  BY <1>1, <1>2
<1> DEFINE q == in_len \div n
           r == in_len % n
<1>5. Part(L) = q
  BY <1>3 DEF Part, WarpsOf
<1>6. q \in Nat /\ r \in 0 .. n - 1 /\ in_len = q * n + r
  BY Division
<1> HIDE DEF q, r
<1>7. q * n <= in_len
  BY <1>6
<1> QED
  BY <1>1, <1>2, <1>3, <1>4, <1>5, <1>6, <1>7

\* The codes a thread reads are those of its block and its own.
LEMMA ReadsAre ==
  ASSUME NEW L, Launches(L), in_len \in Nat, hblock \in 0 .. L.grid - 1, NEW t \in 0 .. L.dim - 1, NEW i
  PROVE  i \in Reads(L, t) <=> i \in 0 .. in_len - 1 /\ BlockOf(L, i) = hblock /\ ThreadOf(L, i) = t
<1> DEFINE nw == WarpsOf(L)
           w == t \div WARP
           l == t % WARP
           p == Part(L)
           G == L.grid
           end == IF w >= nw - 1 THEN in_len ELSE p * (w + 1)
<1>1. /\ WARP \in Nat \ {0} /\ G \in Nat \ {0} /\ nw \in Nat \ {0} /\ L.dim = nw * WARP /\ L.dim \in Nat
      /\ p \in Nat /\ p * nw <= in_len
  BY LaunchParts
<1>2. w \in Nat /\ l \in 0 .. WARP - 1 /\ t = w * WARP + l
  <2>1. t \in Nat /\ WARP \in Nat \ {0}
    BY <1>1
  <2> QED
    BY <2>1, Division
<1>3. w \in 0 .. nw - 1
  <2> HIDE DEF w, l, nw
  <2>1. w * WARP < nw * WARP
    BY <1>1, <1>2
  <2>2. w < nw
    BY <1>1, <1>2, <2>1, ProductOrder
  <2> QED
    BY <1>1, <1>2, <2>2
<1>4. Warp(t) = w /\ End(L, t) = end /\ Begin(L, t) = p * w + WARP * hblock + l
  BY DEF Warp, End, Begin, WarpsOf
<1> HIDE DEF w, l, nw, p, end, G
<1> DEFINE s == WARP * hblock + l
           a == p * w
<1>5. s \in Nat /\ a \in Nat /\ Begin(L, t) = a + s
  <2>1. WARP * hblock \in Nat /\ a \in Nat
    BY <1>1, <1>3
  <2> DEFINE wh == WARP * hblock
  <2>2. wh \in Nat /\ l \in Nat
    BY <2>1, <1>1, <1>2
  <2>3. Begin(L, t) = a + wh + l
    BY <1>4
  <2> HIDE DEF a, wh
  <2>4. wh + l \in Nat /\ Begin(L, t) = a + (wh + l)
    BY <2>1, <2>2, <2>3
  <2> QED
    BY <2>1, <2>4 DEF wh
<1> HIDE DEF s, a
<1>6. end \in Int
  BY <1>1, <1>3 DEF end
<1>7. Reads(L, t) = {k \in Begin(L, t) .. end - 1 : (k - Begin(L, t)) % (WARP * G) = 0}
  BY <1>4 DEF Reads, G
<1>8. i \in Reads(L, t) <=> i \in Int /\ (a <= i /\ i <= end - 1) /\ (s <= i - a /\ ((i - a) - s) % (WARP * G) = 0)
  <2>1. i \in Reads(L, t) <=> /\ i \in Int /\ a + s <= i /\ i <= end - 1 /\ (i - (a + s)) % (WARP * G) = 0
    BY <1>5, <1>6, <1>7
  <2>2. ASSUME i \in Int PROVE i - (a + s) = (i - a) - s /\ (a + s <= i <=> s <= i - a) /\ (a + s <= i => a <= i)
    BY <1>5, <2>2
  <2> QED
    BY <2>1, <2>2
<1>9. ASSUME i \in Int
      PROVE  (a <= i /\ i <= end - 1) <=> (i \in 0 .. in_len - 1 /\ WarpOf(L, i) = w)
  BY <1>1, <1>3, <1>9, PartAt DEF end, a, WarpOf, p, nw
<1>10. ASSUME i \in Int, WarpOf(L, i) = w, a <= i
       PROVE  (s <= i - a /\ ((i - a) - s) % (WARP * G) = 0) <=> (BlockOf(L, i) = hblock /\ ThreadOf(L, i) = t)
  <2> DEFINE x == i - a
             r == x % (WARP * G)
  <2>1. x \in Int /\ x >= 0 /\ hblock \in 0 .. G - 1
    BY <1>5, <1>10 DEF G
  <2>2. Turn(L, i) = r
    BY <1>10 DEF Turn, a, p, G
  <2> HIDE DEF x
  <2>3. (s <= x /\ (x - s) % (WARP * G) = 0) <=> (r \div WARP = hblock /\ r % WARP = l)
    <3> HIDE DEF r
    <3>1. WARP \in Nat \ {0} /\ G \in Nat \ {0} /\ hblock \in 0 .. G - 1 /\ l \in 0 .. WARP - 1 /\ x \in Int /\ x >= 0
      BY <1>1, <1>2, <2>1
    <3>2. InTurn(WARP, G, s, x) <=> Spot(WARP, G, x, hblock, l)
      BY <3>1, LaneAt DEF s
    <3> QED
      BY <3>1, <3>2 DEF InTurn, Spot, r
  <2>4. r \in Nat
    <3> DEFINE wg == WARP * G
    <3>1. wg \in Nat \ {0}
      BY <1>1
    <3> HIDE DEF wg
    <3>2. x % wg \in Nat
      BY <2>1, <3>1
    <3> QED
      BY <3>2 DEF wg
  <2> HIDE DEF r
  <2>5. r % WARP = l <=> w * WARP + (r % WARP) = t
    <3> DEFINE u == r % WARP
               ww == w * WARP
    <3>1. u \in Nat /\ ww \in Nat /\ t = ww + l /\ l \in Nat
      BY <1>1, <1>2, <1>3, <2>4
    <3> HIDE DEF u, ww
    <3>2. u = l <=> ww + u = t
      BY <3>1
    <3> QED
      BY <3>2 DEF u, ww
  <2>6. BlockOf(L, i) = r \div WARP /\ ThreadOf(L, i) = w * WARP + (r % WARP)
    BY <1>10, <2>2 DEF BlockOf, ThreadOf
  <2>7. (s <= i - a /\ ((i - a) - s) % (WARP * G) = 0) <=> (s <= x /\ (x - s) % (WARP * G) = 0)
    BY Zenon DEF x
  <2>8. (BlockOf(L, i) = hblock /\ ThreadOf(L, i) = t) <=> (r \div WARP = hblock /\ r % WARP = l)
    BY <2>5, <2>6, Zenon
  <2> QED
    BY <2>3, <2>7, <2>8, Zenon
<1>11. ASSUME i \in 0 .. in_len - 1, ThreadOf(L, i) = t PROVE WarpOf(L, i) = w
  <2> DEFINE v == WarpOf(L, i)
             u == Turn(L, i) % WARP
  <2>1. v \in Nat
    <3>1. CASE LastPart(p, nw, i)
      BY <1>1, <3>1 DEF WarpOf, PartOf, p, nw
    <3>2. CASE ~LastPart(p, nw, i)
      <4>1. p # 0
        <5>1. 0 * (nw - 1) = 0 /\ 0 <= i
          BY <1>1, <1>11
        <5> QED
          BY <3>2, <5>1 DEF LastPart
      <4>2. i \div p \in Nat
        <5>1. p \in Nat \ {0} /\ i \in Nat
          BY <1>1, <1>11, <4>1
        <5> QED
          BY <5>1, Division
      <4> QED
        BY <3>2, <4>2 DEF WarpOf, PartOf, p, nw
    <3> QED
      BY <3>1, <3>2
  <2>2. u \in 0 .. WARP - 1
    <3>1. Turn(L, i) \in Int
      <4> DEFINE wg == WARP * G
                 pv == p * v
      <4>1. wg \in Nat \ {0} /\ pv \in Int /\ i \in Int
        BY <1>1, <1>11, <2>1
      <4> HIDE DEF wg, pv, v
      <4>2. (i - pv) % wg \in Int
        BY <4>1
      <4> QED
        BY <4>2 DEF Turn, wg, pv, v, p, G
    <3> QED
      BY <1>1, <3>1, IntDivision
  <2>3. t = v * WARP + u
    BY <1>11 DEF ThreadOf
  <2> HIDE DEF u, v
  <2>4. t \div WARP = v
    BY <1>1, <2>1, <2>2, <2>3, DivisionUnique
  <2> QED
    BY <2>4 DEF v, w
<1>12. ASSUME i \in Reads(L, t)
       PROVE  i \in 0 .. in_len - 1 /\ BlockOf(L, i) = hblock /\ ThreadOf(L, i) = t
  <2>1. i \in Int /\ (a <= i /\ i <= end - 1) /\ (s <= i - a /\ ((i - a) - s) % (WARP * G) = 0)
    BY <1>8, <1>12
  <2>2. i \in 0 .. in_len - 1 /\ WarpOf(L, i) = w
    BY <1>9, <2>1
  <2> QED
    BY <1>10, <2>1, <2>2
<1>13. ASSUME i \in 0 .. in_len - 1, BlockOf(L, i) = hblock, ThreadOf(L, i) = t
       PROVE  i \in Reads(L, t)
  <2>1. WarpOf(L, i) = w /\ i \in Int
    BY <1>11, <1>13
  <2>2. a <= i /\ i <= end - 1
    BY <1>9, <1>13, <2>1
  <2>3. s <= i - a /\ ((i - a) - s) % (WARP * G) = 0
    BY <1>10, <1>13, <2>1, <2>2
  <2> QED
    BY <1>8, <2>1, <2>2, <2>3
<1> QED
  BY <1>12, <1>13

\* That is a thread of one of the blocks.
LEMMA ReaderIs ==
  ASSUME NEW L, Launches(L), in_len \in Nat, NEW i \in 0 .. in_len - 1
  PROVE  BlockOf(L, i) \in 0 .. L.grid - 1 /\ ThreadOf(L, i) \in 0 .. L.dim - 1
<1> DEFINE nw == WarpsOf(L)
           p == Part(L)
           G == L.grid
           v == WarpOf(L, i)
           wg == WARP * G
           r == Turn(L, i)
           u == r % WARP
           q == r \div WARP
<1>1. /\ WARP \in Nat \ {0} /\ G \in Nat \ {0} /\ nw \in Nat \ {0} /\ L.dim = nw * WARP /\ L.dim \in Nat
      /\ p \in Nat /\ p * nw <= in_len
  BY LaunchParts
<1> HIDE DEF nw, p, G
<1>2. v \in 0 .. nw - 1
  <2>1. CASE LastPart(p, nw, i)
    <3>1. v = nw - 1
      BY <2>1 DEF WarpOf, PartOf, p, nw
    <3> QED
      BY <1>1, <3>1
  <2>2. CASE ~LastPart(p, nw, i)
    <3> DEFINE d == i \div p
               m == i % p
    <3>1. p # 0
      <4>1. 0 * (nw - 1) = 0 /\ 0 <= i
        BY <1>1
      <4> QED
        BY <2>2, <4>1 DEF LastPart
    <3>2. p \in Nat \ {0} /\ i \in Nat
      BY <1>1, <3>1
    <3>3. d \in Nat /\ m \in 0 .. p - 1 /\ i = d * p + m
      BY <3>2, Division
    <3>4. v = d
      BY <2>2 DEF WarpOf, PartOf, p, nw
    <3> HIDE DEF d, m, v
    <3>5. i < p * (nw - 1) /\ p * (nw - 1) = (nw - 1) * p
      BY <1>1, <2>2, <3>2 DEF LastPart
    <3>6. d * p < (nw - 1) * p
      <4> DEFINE x == d * p
                 y == (nw - 1) * p
      <4>1. x \in Nat /\ y \in Int /\ i = x + m /\ i < y
        BY <1>1, <3>2, <3>3, <3>5
      <4> HIDE DEF x, y
      <4>2. x < y
        BY <3>2, <3>3, <4>1
      <4> QED
        BY <4>2 DEF x, y
    <3>7. nw - 1 \in Nat
      BY <1>1
    <3>8. d < nw - 1
      BY <3>2, <3>3, <3>6, <3>7, ProductOrder
    <3> QED
      BY <1>1, <3>3, <3>4, <3>8
  <2> QED
    BY <2>1, <2>2
<1>3. wg \in Nat \ {0} /\ wg = G * WARP
  BY <1>1
<1>4. r \in 0 .. wg - 1
  <2> DEFINE pv == p * v
  <2>1. pv \in Int /\ i \in Int /\ i - pv \in Int
    BY <1>1, <1>2
  <2>2. r = (i - pv) % wg
    BY DEF Turn, p, G
  <2> HIDE DEF pv, wg, r, v
  <2> QED
    BY <1>3, <2>1, <2>2, IntDivision
<1> HIDE DEF v, r
<1>5. q \in Nat /\ u \in 0 .. WARP - 1 /\ r = q * WARP + u
  <2>1. r \in Nat
    BY <1>3, <1>4
  <2> QED
    BY <1>1, <2>1, Division
<1>6. BlockOf(L, i) = q /\ ThreadOf(L, i) = v * WARP + u
  BY DEF BlockOf, ThreadOf, v, r
<1> HIDE DEF q, u
<1>7. q < G
  <2> DEFINE x == q * WARP
             y == G * WARP
  <2>1. x \in Nat /\ y \in Nat /\ r = x + u /\ r \in Int /\ r <= y - 1
    BY <1>1, <1>3, <1>4, <1>5
  <2> HIDE DEF x, y, wg
  <2>2. x < y
    BY <1>1, <1>5, <2>1
  <2>3. q * WARP < G * WARP
    BY <2>2 DEF x, y
  <2> HIDE DEF x, y
  <2> QED
    BY <1>1, <1>5, <2>3, ProductOrder
<1>8. v * WARP + u < nw * WARP
  <2> DEFINE x == v * WARP
             y == nw * WARP
  <2>1. v \in Nat /\ nw \in Nat /\ v < nw
    BY <1>1, <1>2
  <2>2. x + WARP <= y
    BY <1>1, <2>1, ProductOrder
  <2>3. x \in Nat /\ y \in Nat
    BY <1>1, <2>1
  <2> HIDE DEF x, y
  <2>4. x + u < y
    BY <1>1, <1>5, <2>2, <2>3
  <2> QED
    BY <2>4 DEF x, y
<1>9. v * WARP + u \in Nat
  BY <1>1, <1>2, <1>5
<1> DEFINE t == v * WARP + u
<1>10. t \in Nat /\ t < L.dim /\ q \in Nat /\ q < G
  BY <1>1, <1>5, <1>7, <1>8, <1>9
<1> HIDE DEF t
<1>11. q \in 0 .. G - 1 /\ t \in 0 .. L.dim - 1
  BY <1>1, <1>10
<1> QED
  BY <1>6, <1>11 DEF G, t

\* What is counted class by class is counted once.
LEMMA Counts ==
  ASSUME NEW A, IsFiniteSet(A), NEW n \in Nat, NEW cls \in [A -> 0 .. n - 1],
         NEW g, \A k \in 1 .. n : g[k] = Cardinality({i \in A : cls[i] = k - 1}),
         NEW h, Adds(h, n, g)
  PROVE  h[n] = Cardinality(A)
<1> DEFINE Below(m) == {i \in A : cls[i] < m}
           Of(m) == {i \in A : cls[i] = m}
           Bad == {m \in 0 .. n : h[m] # Cardinality(Below(m))}
<1>1. \A m : /\ IsFiniteSet(Below(m)) /\ IsFiniteSet(Of(m)) /\ Cardinality(Below(m)) \in Nat /\ Cardinality(Of(m)) \in Nat
  <2>1. \A m : Below(m) \in SUBSET A /\ Of(m) \in SUBSET A
    OBVIOUS
  <2> HIDE DEF Below, Of
  <2> QED
    BY <2>1, FS_Subset, FS_CardinalityType
<1>2. Below(n) = A
  <2>1. \A i \in A : cls[i] \in 0 .. n - 1
    OBVIOUS
  <2>2. \A i \in A : cls[i] < n
    BY <2>1
  <2> QED
    BY <2>2
<1>3. Bad = {}
  <2> SUFFICES ASSUME Bad # {} PROVE FALSE
    OBVIOUS
  <2>1. Bad \in SUBSET Nat
    OBVIOUS
  <2> HIDE DEF Bad
  <2>2. PICK m \in Bad : \A j \in Bad : m <= j
    BY <2>1, Least
  <2>3. m \in 0 .. n /\ h[m] # Cardinality(Below(m))
    BY <2>2 DEF Bad
  <2>4. m # 0
    <3>1. Below(0) = {}
      <4>1. \A i \in A : ~(cls[i] < 0)
        OBVIOUS
      <4> QED
        BY <4>1
    <3>2. h[0] = 0
      BY DEF Adds
    <3> HIDE DEF Below
    <3> QED
      BY <2>3, <3>1, <3>2, FS_EmptySet
  <2>5. m - 1 \in 0 .. n /\ m \in 1 .. n /\ m - 1 \notin Bad
    BY <2>2, <2>3, <2>4
  <2>6. h[m - 1] = Cardinality(Below(m - 1))
    BY <2>5 DEF Bad
  <2>7. h[m] = Plus(h[m - 1], g[m])
    BY <2>5 DEF Adds
  <2>8. g[m] = Cardinality(Of(m - 1))
    BY <2>5
  <2>9. Below(m) = Below(m - 1) \cup Of(m - 1) /\ Below(m - 1) \cap Of(m - 1) = {}
    <3>1. \A i \in A : cls[i] \in Int /\ (cls[i] < m <=> (cls[i] < m - 1 \/ cls[i] = m - 1)) /\ ~(cls[i] < m - 1 /\ cls[i] = m - 1)
      <4>1. \A i \in A : cls[i] \in 0 .. n - 1
        OBVIOUS
      <4> QED
        BY <2>5, <4>1
    <3> QED
      BY <3>1
  <2> HIDE DEF Below, Of
  <2>10. Cardinality(Below(m)) = Cardinality(Below(m - 1)) + Cardinality(Of(m - 1))
    <3>1. /\ IsFiniteSet(Below(m - 1)) /\ IsFiniteSet(Of(m - 1))
          /\ Cardinality(Below(m - 1)) \in Nat /\ Cardinality(Of(m - 1)) \in Nat
      BY <1>1
    <3>2. Cardinality(Below(m - 1) \cup Of(m - 1))
            = Cardinality(Below(m - 1)) + Cardinality(Of(m - 1)) - Cardinality(Below(m - 1) \cap Of(m - 1))
      BY <3>1, FS_Union
    <3>3. Cardinality(Below(m - 1) \cap Of(m - 1)) = 0
      BY <2>9, FS_EmptySet
    <3> QED
      BY <2>9, <3>1, <3>2, <3>3
  <2>11. Plus(h[m - 1], g[m]) = Cardinality(Below(m - 1)) + Cardinality(Of(m - 1))
    <3>1. Cardinality(Below(m - 1)) \in Int /\ Cardinality(Of(m - 1)) \in Int
      BY <1>1
    <3> QED
      BY <2>6, <2>8, <3>1, IntSum
  <2> QED
    BY <2>3, <2>7, <2>10, <2>11
<1>4. n \in 0 .. n
  OBVIOUS
<1>5. h[n] = Cardinality(Below(n))
  BY <1>3, <1>4
<1> QED
  BY <1>2, <1>5

\* What the threads of a block see, and count it for: a code, in a thread's replica.
InTurnOf(L)  == {i \in 0 .. in_len - 1 : BlockOf(L, i) = hblock}
Replica(L, i) == ThreadOf(L, i) % L.R
Slot(r, c)   == (booklen + 1) * r + c
Seen(L)      == UNION {{<<t, i, Slot(t % L.R, Clamped(Number(quant[i])))>> : i \in Reads(L, t)} : t \in 0 .. L.dim - 1}
Hits(L)      == [pos \in 0 .. (booklen + 1) * L.R - 1 |-> Cardinality({s \in Seen(L) : s[3] = pos})]
Coding       == \A i \in 0 .. in_len - 1 : quant[i] \in 0 .. booklen - 1

\* A block sees the codes whose turn it is, each once, as they are: the clamp never applies.
LEMMA SeenIs ==
  ASSUME NEW L, Launches(L), in_len \in Nat, hblock \in 0 .. L.grid - 1, Coding
  PROVE  Seen(L) = {<<ThreadOf(L, i), i, Slot(Replica(L, i), quant[i])>> : i \in InTurnOf(L)}
<1> DEFINE R == {<<ThreadOf(L, i), i, Slot(Replica(L, i), quant[i])>> : i \in InTurnOf(L)}
<1>1. \A i \in 0 .. in_len - 1 : Clamped(Number(quant[i])) = quant[i]
  <2>1. booklen \in Nat \ {0}
    BY Positive DEF booklen
  <2>2. \A i \in 0 .. in_len - 1 : quant[i] \in Int /\ quant[i] < booklen
    BY <2>1 DEF Coding
  <2> QED
    BY <2>1, <2>2, UndefApart DEF Clamped, Number
<1>2. ASSUME NEW s \in Seen(L) PROVE s \in R
  <2>1. PICK t \in 0 .. L.dim - 1 : s \in {<<t, i, Slot(t % L.R, Clamped(Number(quant[i])))>> : i \in Reads(L, t)}
    BY DEF Seen
  <2>2. PICK i \in Reads(L, t) : s = <<t, i, Slot(t % L.R, Clamped(Number(quant[i])))>>
    BY <2>1
  <2>3. i \in 0 .. in_len - 1 /\ BlockOf(L, i) = hblock /\ ThreadOf(L, i) = t
    BY <2>2, ReadsAre
  <2>4. s = <<ThreadOf(L, i), i, Slot(Replica(L, i), quant[i])>>
    BY <1>1, <2>2, <2>3 DEF Replica
  <2> QED
    BY <2>3, <2>4 DEF InTurnOf
<1>3. ASSUME NEW s \in R PROVE s \in Seen(L)
  <2>1. PICK i \in InTurnOf(L) : s = <<ThreadOf(L, i), i, Slot(Replica(L, i), quant[i])>>
    OBVIOUS
  <2> DEFINE t == ThreadOf(L, i)
  <2>2. i \in 0 .. in_len - 1 /\ BlockOf(L, i) = hblock
    BY <2>1 DEF InTurnOf
  <2>3. t \in 0 .. L.dim - 1
    BY <2>2, ReaderIs
  <2>4. i \in Reads(L, t)
    BY <2>2, <2>3, ReadsAre
  <2>5. s = <<t, i, Slot(t % L.R, Clamped(Number(quant[i])))>>
    BY <1>1, <2>1, <2>2 DEF Replica
  <2> HIDE DEF t
  <2> QED
    BY <2>3, <2>4, <2>5 DEF Seen
<1> HIDE DEF R
<1>4. Seen(L) = R
  BY <1>2, <1>3
<1> QED
  BY <1>4 DEF R

\* A slot is of one replica and one code.
LEMMA SlotsApart ==
  ASSUME NEW r \in Nat, NEW q \in Nat, NEW c \in 0 .. booklen - 1, NEW d \in 0 .. booklen - 1,
         Slot(r, c) = Slot(q, d)
  PROVE  r = q /\ c = d
<1> DEFINE b == booklen + 1
<1>1. b \in Nat \ {0} /\ c \in 0 .. b - 1 /\ d \in 0 .. b - 1
  <2>1. booklen \in Nat
    BY Positive DEF booklen
  <2> QED
    BY <2>1
<1>2. Slot(r, c) = b * r + c /\ Slot(q, d) = b * q + d
  BY DEF Slot
<1> HIDE DEF b
<1>3. (r * b + c) \div b = r /\ (r * b + c) % b = c
  BY <1>1, DivisionUnique
<1>4. (q * b + d) \div b = q /\ (q * b + d) % b = d
  BY <1>1, DivisionUnique
<1>5. b * r = r * b /\ b * q = q * b
  BY <1>1
<1> QED
  BY <1>2, <1>3, <1>4, <1>5

\* A replica's count of a code.
LEMMA HitsAre ==
  ASSUME NEW L, Launches(L), in_len \in Nat, hblock \in 0 .. L.grid - 1, Coding,
         NEW r \in 0 .. L.R - 1, NEW c \in 0 .. booklen - 1
  PROVE  Hits(L)[Slot(r, c)] = Cardinality({i \in InTurnOf(L) : quant[i] = c /\ Replica(L, i) = r})
<1> DEFINE A == {i \in InTurnOf(L) : quant[i] = c /\ Replica(L, i) = r}
           B == {s \in Seen(L) : s[3] = Slot(r, c)}
           e(i) == <<ThreadOf(L, i), i, Slot(Replica(L, i), quant[i])>>
           f == [i \in A |-> e(i)]
<1>1. booklen \in Nat \ {0} /\ L.R \in Nat \ {0}
  BY Positive DEF booklen, Launches
<1>2. Slot(r, c) \in 0 .. (booklen + 1) * L.R - 1
  <2> DEFINE b == booklen + 1
             x == b * r
             y == b * L.R
  <2>1. b \in Nat \ {0} /\ c \in Nat /\ c < b /\ r \in Nat /\ r < L.R /\ L.R \in Nat
    BY <1>1
  <2>2. x = r * b /\ y = L.R * b /\ x \in Nat /\ y \in Nat
    BY <2>1
  <2>3. r * b + b <= L.R * b
    BY <2>1, ProductOrder
  <2>4. Slot(r, c) = x + c
    BY DEF Slot
  <2>5. x + b <= y
    BY <2>2, <2>3, Zenon
  <2> HIDE DEF b, x, y
  <2>6. x + c \in 0 .. y - 1
    BY <2>1, <2>2, <2>5
  <2> QED
    BY <2>4, <2>6 DEF y, b
<1>3. Hits(L)[Slot(r, c)] = Cardinality(B)
  BY <1>2 DEF Hits
<1>4. Seen(L) = {e(i) : i \in InTurnOf(L)}
  BY SeenIs
<1>5. \A i \in InTurnOf(L) : quant[i] \in 0 .. booklen - 1 /\ Replica(L, i) \in Nat
  <2> SUFFICES ASSUME NEW i \in InTurnOf(L) PROVE quant[i] \in 0 .. booklen - 1 /\ Replica(L, i) \in Nat
    OBVIOUS
  <2>1. i \in 0 .. in_len - 1
    BY DEF InTurnOf
  <2>2. ThreadOf(L, i) \in 0 .. L.dim - 1 /\ L.dim \in Nat
    BY <2>1, ReaderIs, LaunchParts
  <2>3. ThreadOf(L, i) \in Nat
    BY <2>2
  <2>4. Replica(L, i) \in Nat
    BY <1>1, <2>3 DEF Replica
  <2> QED
    BY <2>1, <2>4 DEF Coding
<1>6. IsFiniteSet(A)
  <2>1. IsFiniteSet(0 .. in_len - 1)
    BY FS_Interval
  <2>2. A \in SUBSET (0 .. in_len - 1)
    BY DEF InTurnOf
  <2> HIDE DEF A
  <2> QED
    BY <2>1, <2>2, FS_Subset
<1>7. \A i \in A : e(i) \in B
  <2> SUFFICES ASSUME NEW i \in A PROVE e(i) \in B
    OBVIOUS
  <2>1. i \in InTurnOf(L) /\ quant[i] = c /\ Replica(L, i) = r
    OBVIOUS
  <2>2. e(i)[3] = Slot(r, c)
    BY <2>1
  <2>3. e(i) \in Seen(L)
    BY <1>4, <2>1
  <2> QED
    BY <2>2, <2>3
<1>8. \A s \in B : \E i \in A : s = e(i)
  <2> SUFFICES ASSUME NEW s \in B PROVE \E i \in A : s = e(i)
    OBVIOUS
  <2>1. s \in Seen(L) /\ s[3] = Slot(r, c)
    OBVIOUS
  <2>2. PICK i \in InTurnOf(L) : s = e(i)
    BY <1>4, <2>1
  <2>3. Slot(Replica(L, i), quant[i]) = Slot(r, c)
    BY <2>1, <2>2
  <2>4. Replica(L, i) = r /\ quant[i] = c
    <3>1. Replica(L, i) \in Nat /\ quant[i] \in 0 .. booklen - 1 /\ r \in Nat
      BY <1>1, <1>5
    <3> QED
      BY <2>3, <3>1, SlotsApart
  <2> QED
    BY <2>2, <2>4
<1>9. \A i, j \in A : e(i) = e(j) => i = j
  OBVIOUS
<1> HIDE DEF A, B, e
<1>10. f \in [A -> B] /\ \A i \in A : f[i] = e(i)
  BY <1>7
<1> HIDE DEF f
<1>11. f \in Bijection(A, B)
  <2>1. f \in Injection(A, B)
    BY <1>9, <1>10 DEF Injection, IsInjective
  <2>2. f \in Surjection(A, B)
    BY <1>8, <1>10 DEF Surjection
  <2> QED
    BY <2>1, <2>2 DEF Bijection
<1>12. ExistsBijection(A, B)
  BY <1>11 DEF ExistsBijection
<1>13. Cardinality(B) = Cardinality(A)
  BY <1>6, <1>12, FS_Bijection
<1> QED
  BY <1>3, <1>13 DEF A

\* What a step of the histogram adds for a code.
Counted(L, c) == Total(LAMBDA r : Hits(L)[Slot(r - 1, c)], L.R)

\* The sum over the replicas is one of the sums above.
LEMMA CountedSums ==
  ASSUME NEW L, Launches(L), NEW c, \A k \in 1 .. L.R : Hits(L)[Slot(k - 1, c)] \in Value
  PROVE  \E h : Adds(h, L.R, [k \in 1 .. L.R |-> Hits(L)[Slot(k - 1, c)]]) /\ Counted(L, c) = h[L.R]
<1> DEFINE n == L.R
           e(k) == Hits(L)[Slot(k - 1, c)]
           g == [k \in 1 .. n |-> e(k)]
           total == CHOOSE s : s = [k \in 0 .. n |-> IF k = 0 THEN 0 ELSE Plus(s[k - 1], e(k))]
<1>0. n \in Nat
  BY DEF Launches
<1>1. \A k \in 1 .. n : g[k] \in Value
  OBVIOUS
<1>2. ASSUME NEW s PROVE Sums(s, n, g) <=> s = [k \in 0 .. n |-> IF k = 0 THEN 0 ELSE Plus(s[k - 1], e(k))]
  <2>1. \A k \in 0 .. n : (IF k = 0 THEN 0 ELSE Plus(s[k - 1], g[k])) = IF k = 0 THEN 0 ELSE Plus(s[k - 1], e(k))
    <3>1. ASSUME NEW k \in 0 .. n, k # 0 PROVE g[k] = e(k)
      <4>1. k \in 1 .. n
        BY <1>0, <3>1
      <4> HIDE DEF e, n
      <4> QED
        BY <4>1
    <3> HIDE DEF g, e, n
    <3> QED
      BY <3>1
  <2> HIDE DEF g, e, n
  <2> QED
    BY <2>1 DEF Sums
<1>3. Sums(total, n, g)
  <2>1. PICK s1 : Sums(s1, n, g)
    <3> HIDE DEF g, n
    <3> QED
      BY <1>0, <1>1, SumHas
  <2>2. s1 = [k \in 0 .. n |-> IF k = 0 THEN 0 ELSE Plus(s1[k - 1], e(k))]
    BY <1>2, <2>1
  <2>3. total = [k \in 0 .. n |-> IF k = 0 THEN 0 ELSE Plus(total[k - 1], e(k))]
    <3> HIDE DEF e, n
    <3> QED
      BY <2>2
  <2> HIDE DEF total
  <2> QED
    BY <1>2, <2>3
<1>4. Counted(L, c) = total[n]
  BY DEF Counted, Total
<1>5. Adds(total, n, g)
  <2> HIDE DEF g, total, n
  <2> QED
    BY <1>0, <1>1, <1>3, SumIs
<1> HIDE DEF total
<1> QED
  BY <1>4, <1>5

\* It is how often the code is among those whose turn it is.
LEMMA CountedIs ==
  ASSUME NEW L, Launches(L), in_len \in Nat, hblock \in 0 .. L.grid - 1, Coding, NEW c \in 0 .. booklen - 1
  PROVE  /\ Counted(L, c) = Cardinality({i \in InTurnOf(L) : quant[i] = c})
         /\ Counted(L, c) \in Nat
<1> DEFINE A == {i \in InTurnOf(L) : quant[i] = c}
           n == L.R
           g == [k \in 1 .. n |-> Hits(L)[Slot(k - 1, c)]]
           cls == [i \in A |-> Replica(L, i)]
<1>1. n \in Nat \ {0}
  BY DEF Launches
<1>2. IsFiniteSet(A) /\ Cardinality(A) \in Nat
  <2>1. IsFiniteSet(0 .. in_len - 1)
    BY FS_Interval
  <2>2. A \in SUBSET (0 .. in_len - 1)
    BY DEF InTurnOf
  <2> HIDE DEF A
  <2> QED
    BY <2>1, <2>2, FS_Subset, FS_CardinalityType
<1>3. cls \in [A -> 0 .. n - 1]
  <2> SUFFICES ASSUME NEW i \in A PROVE Replica(L, i) \in 0 .. n - 1
    OBVIOUS
  <2>1. i \in 0 .. in_len - 1
    BY DEF InTurnOf
  <2>2. ThreadOf(L, i) \in 0 .. L.dim - 1 /\ L.dim \in Nat
    BY <2>1, ReaderIs, LaunchParts
  <2>3. ThreadOf(L, i) \in Nat
    BY <2>2
  <2> QED
    BY <1>1, <2>3 DEF Replica
<1>4. \A k \in 1 .. n : g[k] = Cardinality({i \in A : cls[i] = k - 1})
  <2> SUFFICES ASSUME NEW k \in 1 .. n PROVE g[k] = Cardinality({i \in A : cls[i] = k - 1})
    OBVIOUS
  <2>1. k - 1 \in 0 .. L.R - 1
    BY <1>1
  <2>2. Hits(L)[Slot(k - 1, c)] = Cardinality({i \in InTurnOf(L) : quant[i] = c /\ Replica(L, i) = k - 1})
    BY <2>1, HitsAre
  <2>3. {i \in InTurnOf(L) : quant[i] = c /\ Replica(L, i) = k - 1} = {i \in A : cls[i] = k - 1}
    OBVIOUS
  <2> QED
    BY <2>2, <2>3
<1>5. \A k \in 1 .. n : g[k] \in Int
  <2>1. \A m : {i \in A : cls[i] = m} \in SUBSET A
    OBVIOUS
  <2> HIDE DEF A, cls, g
  <2>2. \A m : Cardinality({i \in A : cls[i] = m}) \in Nat
    <3> SUFFICES ASSUME NEW m PROVE Cardinality({i \in A : cls[i] = m}) \in Nat
      OBVIOUS
    <3>1. IsFiniteSet({i \in A : cls[i] = m})
      BY <1>2, <2>1, FS_Subset
    <3> QED
      BY <3>1, FS_CardinalityType
  <2> SUFFICES ASSUME NEW k \in 1 .. n PROVE g[k] \in Int
    OBVIOUS
  <2>3. g[k] = Cardinality({i \in A : cls[i] = k - 1})
    BY <1>4
  <2>4. Cardinality({i \in A : cls[i] = k - 1}) \in Nat
    BY <2>2, Zenon
  <2> QED
    BY <2>3, <2>4
<1>6. \A k \in 1 .. L.R : Hits(L)[Slot(k - 1, c)] \in Value
  BY <1>5, UndefApart
<1>7. PICK h : Adds(h, L.R, [k \in 1 .. L.R |-> Hits(L)[Slot(k - 1, c)]]) /\ Counted(L, c) = h[L.R]
  BY <1>6, CountedSums
<1>8. Adds(h, n, g)
  BY <1>7
<1> HIDE DEF A, cls, g
<1>9. h[n] = Cardinality(A)
  <2> HIDE DEF n
  <2>1. n \in Nat
    BY <1>1
  <2> QED
    BY <1>2, <1>3, <1>4, <1>8, <2>1, Counts
<1>10. Counted(L, c) = Cardinality(A)
  BY <1>7, <1>9
<1> QED
  BY <1>2, <1>10 DEF A

\* Whatever the stage, a warp goes on, or faults.
LEMMA WarpAdvances ==
  ASSUME NEW w, WarpStep(w)
  PROVE  Advance(w) \/ StripeOutNull(w)
<1>1. StripeIn(w) => Advance(w)
  BY DEF StripeIn
<1>2. Take(w) => Advance(w)
  BY DEF Take
<1>3. Quantize1d(w) => Advance(w)
  BY DEF Quantize1d
<1>4. StripeOut(w) => Advance(w)
  BY DEF StripeOut
<1>5. ScanWarp(w) => Advance(w)
  BY DEF ScanWarp
<1>6. Exchange(w) => Advance(w)
  BY DEF Exchange
<1>7. Propagate(w) => Advance(w)
  BY DEF Propagate
<1>8. PutBack(w) => Advance(w)
  BY DEF PutBack
<1>9. Load(w) => Advance(w)
  BY DEF Load
<1>10. North(w) => Advance(w)
  BY DEF North
<1>11. Predict2d(w) => Advance(w)
  BY DEF Predict2d
<1>12. Quantize(w) => Advance(w)
  BY DEF Quantize
<1>13. DiffZXStore(w) => Advance(w)
  BY DEF DiffZXStore
<1>14. DiffY(w) => Advance(w)
  BY DEF DiffY
<1>15. TileIn(w) => Advance(w)
  BY DEF TileIn
<1>16. TileOrZero(w) => Advance(w)
  BY DEF TileOrZero
<1>17. PredictTile(w) => Advance(w)
  BY DEF PredictTile
<1>18. SumSeq(w) => Advance(w)
  BY DEF SumSeq
<1>19. HalfOut(w) => Advance(w)
  BY DEF HalfOut
<1>20. HalfIn(w) => Advance(w)
  BY DEF HalfIn
<1>21. ScanX(w) => Advance(w)
  BY DEF ScanX
<1>22. Scan(w) => Advance(w)
  BY DEF Scan
<1>23. Transpose(w) => Advance(w)
  BY DEF Transpose
<1>24. Write(w) => Advance(w)
  BY DEF Write
<1>25. Accumulate(w) => Advance(w)
  BY DEF Accumulate
<1>26. CubLoad(w) => Advance(w)
  BY DEF CubLoad
<1>27. CubStore(w) => Advance(w)
  BY DEF CubStore
<1>28. Up(w) => Advance(w)
  BY DEF Up
<1>29. Add(w) => Advance(w)
  BY DEF Add
<1>30. TileOut(w) => Advance(w)
  BY DEF TileOut
<1> QED
  BY <1>1, <1>2, <1>3, <1>4, <1>5, <1>6, <1>7, <1>8, <1>9, <1>10, <1>11, <1>12, <1>13, <1>14, <1>15, <1>16, <1>17, <1>18, <1>19, <1>20, <1>21, <1>22, <1>23, <1>24, <1>25, <1>26, <1>27, <1>28, <1>29, <1>30, ZenonT(30) DEF WarpStep

\* A step of the kernels leaves the field; only its end, or a fault, leaves the phase.
LEMMA PredictKeeps ==
  ASSUME RowInv, Predict
  PROVE  /\ UNCHANGED <<field, freq, hblock>>
         /\ \/ phase' = phase
            \/ phase = "compress" /\ phase' = "scatter"
            \/ phase' \in {"done", "fault"}
<1> DEFINE Leaving == \/ phase' = phase
                      \/ phase = "compress" /\ phase' = "scatter"
                      \/ phase' \in {"done", "fault"}
<1>1. UNCHANGED <<freq, hblock>>
  BY DEF Predict
<1>2. ~TestOther /\ Launched
  BY DEF RowInv, TestOther, RowLaunch, Launched
<1>3. ASSUME NEW w, WarpStep(w) PROVE UNCHANGED field /\ Leaving
  <2>1. Advance(w) => UNCHANGED field /\ phase' = phase
    BY DEF Advance, launched
  <2>2. StripeOutNull(w) => UNCHANGED field /\ Leaving
    BY DEF StripeOutNull, Advance, launched
  <2> QED
    BY <1>3, <2>1, <2>2, WarpAdvances
<1>4. Sync => UNCHANGED field /\ phase' = phase
  BY DEF Sync, Everyone, launched
<1>5. CubScan => UNCHANGED field /\ phase' = phase
  BY DEF CubScan, Everyone, launched
<1>6. NextBlock => UNCHANGED field /\ phase' = phase
  BY DEF NextBlock, launched
<1>7. Finish => UNCHANGED field /\ Leaving
  BY DEF Finish, launched
<1>8. UNCHANGED field /\ Leaving
  <2>1. (\E w \in DOMAIN at : WarpStep(w)) => UNCHANGED field /\ Leaving
    BY <1>3
  <2> HIDE DEF Leaving
  <2>2. Sync \/ CubScan \/ NextBlock => UNCHANGED field /\ Leaving
    BY <1>4, <1>5, <1>6 DEF Leaving
  <2>3. (\E w \in DOMAIN at : WarpStep(w)) \/ Sync \/ CubScan \/ NextBlock \/ Finish
    BY <1>2, Zenon DEF Predict
  <2> QED
    BY <1>7, <2>1, <2>2, <2>3
<1> QED
  BY <1>1, <1>8

\* The launch goes by the length.
Fitted(n) ==
  LET dim(k)   == ((((n \div grid_dim(k)) + 1) \div UNIT) + 1) * UNIT
      Stops(k) == dim(k) <= MAXBLOCK \/ Replicas(k) <= 1
      k == CHOOSE k \in 0 .. MaxInts : Stops(k) /\ \A j \in 0 .. k - 1 : ~Stops(j)
  IN  [grid |-> grid_dim(k), R |-> Replicas(k),
       dim  |-> IF dim(k) <= MAXBLOCK THEN dim(k) ELSE MAXBLOCK]

\* Whose turn a code is does not change while the field does not.
TurnsStay ==
  /\ in_len' = in_len /\ optimize_launch' = optimize_launch
  /\ \A i : BlockOf(optimize_launch, i)' = BlockOf(optimize_launch, i)

LEMMA TurnsStaying ==
  ASSUME UNCHANGED field
  PROVE  TurnsStay
<1>1. in_len' = in_len
  BY DEF in_len
<1>2. optimize_launch = Fitted(in_len)
  BY DEF optimize_launch, Fitted, block_dim
<1>3. optimize_launch' = Fitted(in_len')
  BY DEF optimize_launch, Fitted, block_dim
<1>4. optimize_launch' = optimize_launch
  BY <1>1, <1>2, <1>3
<1>5. \A i : BlockOf(optimize_launch, i)' = BlockOf(optimize_launch, i)
  <2> DEFINE L == optimize_launch
  <2>1. L' = L
    BY <1>4
  <2> HIDE DEF L
  <2>2. Part(L)' = Part(L) /\ WarpsOf(L)' = WarpsOf(L)
    BY <1>1, <2>1 DEF Part, WarpsOf
  <2>3. \A i : WarpOf(L, i)' = WarpOf(L, i)
    BY <2>2 DEF WarpOf
  <2>4. \A i : Turn(L, i)' = Turn(L, i)
    BY <2>1, <2>2, <2>3 DEF Turn
  <2>5. \A i : BlockOf(L, i)' = BlockOf(L, i)
    BY <2>4 DEF BlockOf
  <2> QED
    BY <2>5 DEF L
<1> QED
  BY <1>1, <1>4, <1>5 DEF TurnsStay

\* The codes of the blocks that have run, and the counts.
Before(b, c) == {i \in 0 .. in_len - 1 : BlockOf(optimize_launch, i) < b /\ Code("dense", Delta(i)) = c}
Tally(b)     == \A c \in 0 .. booklen - 1 : freq[c] = Cardinality(Before(b, c))
HistInv ==
  /\ freq \in [0 .. booklen - 1 -> Nat]
  /\ phase = "compress" => hblock = 0
  /\ phase \in {"compress", "scatter"} => hblock \in 0 .. optimize_launch.grid /\ Tally(hblock)
  /\ phase = "gathered" => Tally(optimize_launch.grid)

\* The sizes: of the dictionary, the field and the launch.
LEMMA HistSizes ==
  ASSUME RowLaunch
  PROVE  /\ booklen \in Nat \ {0} /\ in_len = Length /\ in_len \in Nat
         /\ Launches(optimize_launch) /\ optimize_launch.grid \in Nat \ {0}
<1>1. DOMAIN field.data = 0 .. Length - 1 /\ Length \in Nat \ {0}
  BY DEF RowLaunch, IsRow, Length
<1>2. in_len = Length
  <2>1. 0 \in Int /\ Length - 1 \in Int
    BY <1>1
  <2>2. Cardinality(0 .. Length - 1) = IF 0 > Length - 1 THEN 0 ELSE (Length - 1) - 0 + 1
    BY <2>1, FS_Interval
  <2> QED
    BY <1>1, <2>2 DEF in_len
<1>3. Launches(optimize_launch)
  BY <1>1, <1>2, LaunchIs
<1>4. optimize_launch.grid \in Nat \ {0}
  BY <1>3 DEF Launches
<1>5. booklen \in Nat \ {0}
  BY Positive DEF booklen
<1> QED
  BY <1>1, <1>2, <1>3, <1>4, <1>5

\* A difference's code is in the dictionary.
LEMMA CodeInBook ==
  ASSUME NEW d \in Int
  PROVE  Code("dense", d) \in 0 .. booklen - 1
<1>1. d # Undef /\ RADIUS \in Nat \ {0} /\ Abs(d) \in Int /\ booklen = 2 * RADIUS
  BY UndefApart, Positive DEF Abs, booklen
<1>2. Code("dense", d) = IF quantizable(d) THEN d + RADIUS ELSE 0
  BY <1>1 DEF Code
<1>3. CASE quantizable(d)
  <2>1. Abs(d) < RADIUS
    BY <1>3 DEF quantizable
  <2>2. d + RADIUS \in 0 .. 2 * RADIUS - 1
    BY <1>1, <2>1 DEF Abs
  <2> QED
    BY <1>1, <1>2, <1>3, <2>2
<1>4. CASE ~quantizable(d)
  BY <1>1, <1>2, <1>4
<1> QED
  BY <1>3, <1>4

\* Nothing is before the first block; everything is before the last's end.
LEMMA BeforeIs ==
  ASSUME RowLaunch, NEW c
  PROVE  /\ Before(0, c) = {}
         /\ Before(optimize_launch.grid, c) = {i \in 0 .. in_len - 1 : Code("dense", Delta(i)) = c}
<1>1. in_len \in Nat /\ Launches(optimize_launch) /\ optimize_launch.grid \in Nat \ {0}
  BY HistSizes
<1>2. \A i \in 0 .. in_len - 1 : BlockOf(optimize_launch, i) \in 0 .. optimize_launch.grid - 1
  BY <1>1, ReaderIs
<1>3. \A i \in 0 .. in_len - 1 : ~(BlockOf(optimize_launch, i) < 0) /\ BlockOf(optimize_launch, i) < optimize_launch.grid
  <2> DEFINE G == optimize_launch.grid
             B(i) == BlockOf(optimize_launch, i)
  <2>1. G \in Nat /\ \A i \in 0 .. in_len - 1 : B(i) \in 0 .. G - 1
    BY <1>1, <1>2
  <2> HIDE DEF G, B
  <2>2. \A i \in 0 .. in_len - 1 : ~(B(i) < 0) /\ B(i) < G
    BY <2>1
  <2> QED
    BY <2>2 DEF G, B
<1> QED
  BY <1>3 DEF Before

\* It counts from nothing.
LEMMA HistInit ==
  ASSUME PredictedInit, OnARow
  PROVE  HistInv
<1>1. RowLaunch /\ freq = [c \in 0 .. booklen - 1 |-> 0] /\ hblock = 0 /\ phase = "compress"
  BY RowsAre DEF PredictedInit, Init
<1>2. optimize_launch.grid \in Nat
  BY <1>1, HistSizes
<1>3. \A c \in 0 .. booklen - 1 : freq[c] = Cardinality(Before(0, c))
  BY <1>1, BeforeIs, FS_EmptySet
<1>4. 0 \in 0 .. optimize_launch.grid
  BY <1>2
<1> QED
  BY <1>1, <1>3, <1>4 DEF HistInv, Tally

\* The codes of the block that runs come to those of the blocks before it.
LEMMA BeforeNext ==
  ASSUME RowLaunch, hblock \in 0 .. optimize_launch.grid - 1, NEW c,
         \A i \in 0 .. in_len - 1 : quant[i] = Code("dense", Delta(i))
  PROVE  Cardinality(Before(hblock + 1, c))
           = Cardinality(Before(hblock, c)) + Cardinality({i \in InTurnOf(optimize_launch) : quant[i] = c})
<1> DEFINE A == Before(hblock, c)
           B == {i \in InTurnOf(optimize_launch) : quant[i] = c}
           D == Before(hblock + 1, c)
           blk(i) == BlockOf(optimize_launch, i)
<1>1. in_len \in Nat /\ Launches(optimize_launch) /\ optimize_launch.grid \in Nat \ {0}
  BY HistSizes
<1>2. \A i \in 0 .. in_len - 1 : blk(i) \in Int
  <2>1. \A i \in 0 .. in_len - 1 : BlockOf(optimize_launch, i) \in 0 .. optimize_launch.grid - 1
    BY <1>1, ReaderIs
  <2> QED
    BY <2>1
<1>3. hblock \in Nat
  BY <1>1
<1>4. \A i \in 0 .. in_len - 1 : (blk(i) < hblock + 1 <=> (blk(i) < hblock \/ blk(i) = hblock)) /\ ~(blk(i) < hblock /\ blk(i) = hblock)
  <2> HIDE DEF blk
  <2> QED
    BY <1>2, <1>3
<1>5. D = A \cup B /\ A \cap B = {}
  BY <1>4 DEF Before, InTurnOf
<1>6. IsFiniteSet(A) /\ IsFiniteSet(B) /\ Cardinality(A) \in Nat /\ Cardinality(B) \in Nat
  <2>1. IsFiniteSet(0 .. in_len - 1)
    BY <1>1, FS_Interval
  <2>2. A \in SUBSET (0 .. in_len - 1) /\ B \in SUBSET (0 .. in_len - 1)
    BY DEF Before, InTurnOf
  <2> HIDE DEF A, B
  <2> QED
    BY <2>1, <2>2, FS_Subset, FS_CardinalityType
<1> HIDE DEF A, B, D
<1>7. Cardinality(A \cup B) = Cardinality(A) + Cardinality(B) - Cardinality(A \cap B)
  BY <1>6, FS_Union
<1>8. Cardinality(A \cap B) = 0
  BY <1>5, FS_EmptySet
<1>9. Cardinality(D) = Cardinality(A) + Cardinality(B)
  BY <1>5, <1>6, <1>7, <1>8
<1> QED
  BY <1>9 DEF A, B, D

\* A block of the histogram counts the codes it sees.
LEMMA HistCounts ==
  ASSUME RowInv, HistInv, p2013Histogram
  PROVE  HistInv'
<1> DEFINE L == optimize_launch
<1>1. RowLaunch /\ phase = "scatter" /\ hblock \in 0 .. L.grid /\ hblock < L.grid /\ Tally(hblock) /\ hblock' = hblock + 1
      /\ UNCHANGED <<field, phase>> /\ freq \in [0 .. booklen - 1 -> Nat]
  BY DEF RowInv, HistInv, p2013Histogram, vars, launched
<1>2. freq' = [pos \in DOMAIN freq |-> freq[pos] + Counted(L, pos)]
  BY DEF p2013Histogram, Counted, Hits, Seen, Slot, Total
<1>3. in_len \in Nat /\ in_len = Length /\ Launches(L) /\ L.grid \in Nat \ {0} /\ booklen \in Nat \ {0}
  BY <1>1, HistSizes
<1>4. TurnsStay /\ FieldStays
  BY <1>1, TurnsStaying, FieldStaying
<1>5. \A i \in 0 .. in_len - 1 : quant[i] = Code("dense", Delta(i))
  BY <1>1, <1>3 DEF RowInv, Exact, Coded
<1>6. Coding
  <2> SUFFICES ASSUME NEW i \in 0 .. in_len - 1 PROVE quant[i] \in 0 .. booklen - 1
    BY DEF Coding
  <2>1. Delta(i) \in Int
    BY <1>1, <1>3, DeltaInt DEF RowLaunch
  <2> QED
    BY <1>5, <2>1, CodeInBook
<1>7. hblock \in 0 .. L.grid - 1 /\ hblock + 1 \in 0 .. L.grid
  <2> HIDE DEF L
  <2> QED
    BY <1>1, <1>3
<1>8. ASSUME NEW c \in 0 .. booklen - 1
      PROVE  freq'[c] = Cardinality(Before(hblock + 1, c)) /\ freq'[c] \in Nat
  <2>1. freq[c] = Cardinality(Before(hblock, c)) /\ freq[c] \in Nat
    BY <1>1 DEF Tally
  <2>2. freq'[c] = freq[c] + Counted(L, c)
    BY <1>1, <1>2
  <2>3. Counted(L, c) = Cardinality({i \in InTurnOf(L) : quant[i] = c}) /\ Counted(L, c) \in Nat
    BY <1>3, <1>6, <1>7, CountedIs
  <2>4. Cardinality(Before(hblock + 1, c)) = Cardinality(Before(hblock, c)) + Cardinality({i \in InTurnOf(L) : quant[i] = c})
    BY <1>1, <1>5, <1>7, BeforeNext
  <2> HIDE DEF L
  <2> QED
    BY <2>1, <2>2, <2>3, <2>4
<1>9. freq' \in [0 .. booklen - 1 -> Nat]
  <2>1. DOMAIN freq = 0 .. booklen - 1
    BY <1>1
  <2>2. freq' = [c \in 0 .. booklen - 1 |-> freq'[c]]
    BY <1>2, <2>1
  <2> QED
    BY <1>8, <2>2
<1>10. Tally(hblock)'
  <2>1. \A c \in 0 .. booklen - 1 : freq'[c] = Cardinality(Before(hblock, c)')
    <3> SUFFICES ASSUME NEW c \in 0 .. booklen - 1 PROVE freq'[c] = Cardinality(Before(hblock, c)')
      OBVIOUS
    <3>1. Before(hblock, c)' = Before(hblock', c)
      BY <1>4 DEF Before, TurnsStay, FieldStays
    <3> QED
      BY <1>1, <1>8, <3>1
  <2> QED
    BY <2>1 DEF Tally
<1>11. hblock' \in 0 .. (L.grid)'
  BY <1>1, <1>4, <1>7 DEF TurnsStay
<1> HIDE DEF L
<1> QED
  BY <1>1, <1>9, <1>10, <1>11 DEF HistInv, L

\* The other steps leave the counts as they are.
LEMMA HistKept ==
  ASSUME RowLaunch, HistInv, UNCHANGED <<field, freq, hblock>>,
         \/ phase' = phase
         \/ phase = "compress" /\ phase' = "scatter"
         \/ phase = "scatter" /\ hblock = optimize_launch.grid /\ phase' = "gathered"
         \/ phase' \in {"decompress", "done", "fault"}
  PROVE  HistInv'
<1>1. TurnsStay /\ FieldStays
  BY TurnsStaying, FieldStaying
<1>2. Tally(hblock) => Tally(hblock)'
  <2> SUFFICES ASSUME Tally(hblock), NEW c \in 0 .. booklen - 1 PROVE (freq[c] = Cardinality(Before(hblock, c)))'
    BY DEF Tally
  <2>1. Before(hblock, c)' = Before(hblock, c)
    BY <1>1 DEF Before, TurnsStay, FieldStays
  <2> QED
    BY <2>1 DEF Tally
<1>3. Tally(optimize_launch.grid) => Tally(optimize_launch.grid)'
  <2> SUFFICES ASSUME Tally(optimize_launch.grid), NEW c \in 0 .. booklen - 1
               PROVE  (freq[c] = Cardinality(Before(optimize_launch.grid, c)))'
    BY DEF Tally
  <2>1. Before(optimize_launch.grid, c)' = Before(optimize_launch.grid, c)
    BY <1>1 DEF Before, TurnsStay, FieldStays
  <2> QED
    BY <2>1 DEF Tally
<1>4. optimize_launch' = optimize_launch
  BY <1>1 DEF TurnsStay
<1>5. phase = "scatter" /\ hblock = optimize_launch.grid => Tally(optimize_launch.grid)
  BY DEF HistInv
<1>6. freq' \in [0 .. booklen - 1 -> Nat]
  BY DEF HistInv
<1>7. phase' = "compress" => hblock' = 0
  BY DEF HistInv
<1>8. phase' \in {"compress", "scatter"} => hblock' \in 0 .. (optimize_launch.grid)' /\ Tally(hblock)'
  BY <1>2, <1>4 DEF HistInv
<1>9. phase' = "gathered" => Tally(optimize_launch.grid)'
  BY <1>3, <1>5 DEF HistInv
<1> QED
  BY <1>6, <1>7, <1>8, <1>9 DEF HistInv

\* Each step.
LEMMA HistStep ==
  ASSUME RowInv, HistInv, [PredictedNext]_pvars
  PROVE  HistInv'
<1>1. RowLaunch
  BY DEF RowInv
<1>2. CASE Predict
  BY <1>1, <1>2, PredictKeeps, HistKept
<1>3. CASE p2013Histogram
  BY <1>3, HistCounts
<1>4. CASE spv_gather
  <2>1. UNCHANGED <<field, freq, hblock>> /\ phase = "scatter" /\ hblock = optimize_launch.grid /\ phase' = "gathered"
    BY <1>4 DEF spv_gather, launched
  <2> QED
    BY <1>1, <2>1, HistKept
<1>5. CASE spv_scatter
  <2>1. UNCHANGED <<field, freq, hblock>> /\ phase' = "decompress"
    BY <1>5 DEF spv_scatter, launched
  <2> QED
    BY <1>1, <2>1, HistKept
<1>6. CASE UNCHANGED pvars
  <2>1. UNCHANGED <<field, freq, hblock, phase>>
    BY <1>6 DEF pvars, vars, launched
  <2> QED
    BY <1>1, <2>1, HistKept
<1> QED
  BY <1>2, <1>3, <1>4, <1>5, <1>6 DEF PredictedNext

\* What the two invariants say of the counts.
LEMMA HistCounted ==
  ASSUME RowInv, HistInv
  PROVE  CodesCounted
<1> SUFFICES ASSUME phase = "gathered"
             PROVE  /\ \A id \in DOMAIN quant : quant[id] \in DOMAIN freq
                    /\ \A c \in DOMAIN freq : freq[c] = Cardinality({id \in DOMAIN quant : quant[id] = c})
  BY DEF CodesCounted
<1>1. RowLaunch /\ DOMAIN quant = 0 .. Length - 1 /\ DOMAIN freq = 0 .. booklen - 1 /\ Tally(optimize_launch.grid)
  BY DEF RowInv, ArrayTypes, HistInv
<1>2. in_len = Length
  BY <1>1, HistSizes
<1>3. \A id \in 0 .. Length - 1 : quant[id] = Code("dense", Delta(id))
  BY DEF RowInv, Exact, Coded
<1>4. ASSUME NEW id \in DOMAIN quant PROVE quant[id] \in DOMAIN freq
  <2>1. Delta(id) \in Int
    BY <1>1, DeltaInt DEF RowLaunch
  <2> QED
    BY <1>1, <1>3, <2>1, CodeInBook
<1>5. ASSUME NEW c \in DOMAIN freq PROVE freq[c] = Cardinality({id \in DOMAIN quant : quant[id] = c})
  <2>1. {id \in DOMAIN quant : quant[id] = c} = {id \in 0 .. in_len - 1 : Code("dense", Delta(id)) = c}
    BY <1>1, <1>2, <1>3
  <2>2. freq[c] = Cardinality(Before(optimize_launch.grid, c))
    BY <1>1 DEF Tally
  <2> QED
    BY <1>1, <2>1, <2>2, BeforeIs
<1> QED
  BY <1>4, <1>5

\* The histogram of a row counts every code once, whatever the row's length and
\* the sizes the launch is fitted to, and however they divide among blocks, warps
\* and replicas; no code is outside the dictionary.
THEOREM RowCodesCounted == PredictedSpec /\ OnARow => []CodesCounted
<1>1. PredictedInit /\ OnARow => HistInv
  BY HistInit
<1>2. RowInv /\ HistInv /\ [PredictedNext]_pvars => HistInv'
  BY HistStep
<1>3. RowInv /\ HistInv => CodesCounted
  BY HistCounted
<1> QED
  BY <1>1, <1>2, <1>3, RowInvariant, PTL DEF PredictedSpec
=============================================================================
