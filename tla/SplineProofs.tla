------------------------------ MODULE SplineProofs ------------------------------
(***************************************************************************)
(* Theorems about Spline: that the values decompression interpolates are   *)
(* those compression did, within the error bound, for every field, number  *)
(* of blocks, anchors of a block, width of a warp, radius, bound and type  *)
(* of the codes, in whatever order the warps take each stage.              *)
(*                                                                         *)
(* The argument: from a field alone come ideal values, stage by stage,     *)
(* each within the bound and each the value of a code; they do not know of *)
(* blocks, so a face that two blocks code comes out the same in both.  The *)
(* invariant, SplineInv, says of every cell of shared memory what it must  *)
(* hold before the operation it has reached, of every block that is done,  *)
(* or share of a warp that is, what it left in the archive and the result. *)
(* It holds because a stage reads only what no warp of the stage writes,   *)
(* the barrier ends a stage everywhere, and the warps' shares of a stage   *)
(* are disjoint and together all of it.                                    *)
(***************************************************************************)
EXTENDS Spline, NatLemmas, TLAPS

-----------------------------------------------------------------------------
(* Geometry and stages.                                                      *)

Cells == Int \X Int \X Int

(* The stages of interpolation, in their order, and how many there are.     *)
NStage == IF UNIT = 1 THEN 3 ELSE IF UNIT = 2 THEN 6 ELSE 9
Unit(k) == IF k <= 3 THEN UNIT ELSE IF k <= 6 THEN UNIT \div 2 ELSE UNIT \div 4
K(k) == IF k % 3 = 1 THEN BLUE(Unit(k)) ELSE IF k % 3 = 2 THEN YELLOW(Unit(k)) ELSE HOLLOW(Unit(k))

(* What a stage interpolates, and what is known after k stages.             *)
OnGrid(n, g) == g[1] % n[1] = 0 /\ g[2] % n[2] = 0 /\ g[3] % n[3] = 0
Known(k, g)  == k = NStage \/ OnGrid(K(k + 1).step, g)
Pat(k, g)    == LET s == K(k) IN /\ (g[1] - s.from[1]) % s.step[1] = 0
                                 /\ (g[2] - s.from[2]) % s.step[2] = 0
                                 /\ (g[3] - s.from[3]) % s.step[3] = 0

(* What the assumption says of the constants.                                *)
LEMMA Constants ==
  /\ UNIT \in {1, 2, 4} /\ SUBS \in Nat \ {0} /\ WARP \in Nat \ {0}
  /\ EB \in Nat \ {0} /\ CAP \in Nat /\ RADIUS \in 0 .. CAP /\ Undef \notin Int
BY SplineAssumption

(* The sides of a block.                                                     *)
LEMMA BlockIs ==
  /\ BLOCK \in {2, 4, 8} /\ BLOCK = 2 * UNIT
  /\ SUBLEN = <<SUBS * BLOCK, BLOCK, BLOCK>>
  /\ SUBS * BLOCK \in Nat \ {0}
BY Constants DEF BLOCK, SUBLEN

(* Each stage follows the one before.                                       *)
Follows(k, u) ==
  \/ K(k) = BLUE(u) /\ k < NStage /\ K(k + 1) = YELLOW(u)
  \/ K(k) = YELLOW(u) /\ k < NStage /\ K(k + 1) = HOLLOW(u)
  \/ K(k) = HOLLOW(u) /\ u = 1 /\ k = NStage
  \/ K(k) = HOLLOW(u) /\ u # 1 /\ k < NStage /\ K(k + 1) = BLUE(u \div 2)
Fits(u) == u \in {1, 2, 4} /\ \/ BLOCK = 2 * u
                              \/ BLOCK = 4 * u
                              \/ BLOCK = 8 * u

(* A stage's unit, and the stage after it.                                   *)
LEMMA Kinds ==
  ASSUME NEW k \in 1 .. NStage
  PROVE  Fits(Unit(k)) /\ Follows(k, Unit(k)) /\ Unit(k) \in {1, 2, 4}
<1> USE Constants DEF BLOCK
<1>1. CASE UNIT = 1
  <2>1. NStage = 3 /\ k \in {1, 2, 3}
    BY <1>1 DEF NStage
  <2> QED
    BY <1>1, <2>1 DEF Unit, K, Follows, Fits
<1>2. CASE UNIT = 2
  <2>1. NStage = 6 /\ k \in {1, 2, 3, 4, 5, 6}
    BY <1>2 DEF NStage
  <2> QED
    BY <1>2, <2>1 DEF Unit, K, Follows, Fits
<1>3. CASE UNIT = 4
  <2>1. NStage = 9 /\ k \in {1, 2, 3, 4, 5, 6, 7, 8, 9}
    BY <1>3 DEF NStage
  <2> QED
    BY <1>3, <2>1 DEF Unit, K, Follows, Fits
<1> QED
  BY <1>1, <1>2, <1>3

(* There are three stages of each unit.                                      *)
LEMMA NStageIs == NStage \in {3, 6, 9} /\ NStage \in Nat
BY DEF NStage

(* A stage halves the distance along one axis, from cells that are known.   *)
LEMMA Halves ==
  ASSUME NEW u \in {1, 2, 4}, NEW x \in Int
  PROVE  /\ x % u = 0 <=> (x % (2 * u) = 0 \/ (x - u) % (2 * u) = 0)
         /\ ~(x % (2 * u) = 0 /\ (x - u) % (2 * u) = 0)
         /\ (x - u) % (2 * u) = 0 <=> (x + u) % (2 * u) = 0
OBVIOUS

Before(k) == K(k).axis

(* A stage adds its cells to what is known, and lies between what is.        *)
LEMMA Steps3 ==
  ASSUME NEW k \in 1 .. NStage, NEW g \in Cells
  PROVE  /\ Known(k, g) <=> Known(k - 1, g) \/ Pat(k, g)
         /\ ~(Known(k - 1, g) /\ Pat(k, g))
         /\ Pat(k, g) => /\ Known(k - 1, Shift(g, K(k).axis, K(k).unit))
                         /\ Known(k - 1, Shift(g, K(k).axis, -K(k).unit))
         /\ K(k).axis \in 1 .. 3 /\ K(k).unit \in {1, 2, 4}
<1> DEFINE u == Unit(k)
           Goal == /\ Known(k, g) <=> Known(k - 1, g) \/ Pat(k, g)
                   /\ ~(Known(k - 1, g) /\ Pat(k, g))
                   /\ Pat(k, g) => /\ Known(k - 1, Shift(g, K(k).axis, K(k).unit))
                                   /\ Known(k - 1, Shift(g, K(k).axis, -K(k).unit))
                   /\ K(k).axis \in 1 .. 3 /\ K(k).unit \in {1, 2, 4}
<1>1. u \in {1, 2, 4} /\ Follows(k, u)
  BY Kinds
<1>2. k \in Int /\ k - 1 # NStage /\ (k - 1) + 1 = k
  BY NStageIs
<1>3. g[1] \in Int /\ g[2] \in Int /\ g[3] \in Int /\ DOMAIN g = 1 .. 3
  BY DEF Cells
<1>4. \A h \in Cells : Known(k - 1, h) <=> OnGrid(K(k).step, h)
  BY <1>2 DEF Known
<1>5. \A n \in Int : /\ Shift(g, 1, n) = <<g[1] + n, g[2], g[3]>>
                     /\ Shift(g, 2, n) = <<g[1], g[2] + n, g[3]>>
                     /\ Shift(g, 3, n) = <<g[1], g[2], g[3] + n>>
  BY DEF Shift, Cells
<1> HIDE DEF u
<1>9. u \in Int /\ -u \in Int /\ \A x \in Int : x + u \in Int /\ x + -u = x - u /\ x - u \in Int
  BY <1>1
<1>6. CASE K(k) = BLUE(u) /\ k < NStage /\ K(k + 1) = YELLOW(u)
  <2>1. K(k).axis = 3 /\ K(k).unit = u /\ K(k).step = <<2 * u, 2 * u, 2 * u>> /\ K(k + 1).step = <<2 * u, 2 * u, u>>
    BY <1>6 DEF BLUE, YELLOW
  <2>2. Known(k, g) <=> g[1] % (2 * u) = 0 /\ g[2] % (2 * u) = 0 /\ g[3] % u = 0
    BY <1>6, <1>2, <2>1 DEF Known, OnGrid
  <2>3. \A h \in Cells : Known(k - 1, h) <=> h[1] % (2 * u) = 0 /\ h[2] % (2 * u) = 0 /\ h[3] % (2 * u) = 0
    BY <1>4, <2>1 DEF OnGrid
  <2>4. Pat(k, g) <=> g[1] % (2 * u) = 0 /\ g[2] % (2 * u) = 0 /\ (g[3] - u) % (2 * u) = 0
    BY <1>3, <1>6 DEF Pat, BLUE
  <2>5. Shift(g, 3, u) = <<g[1], g[2], g[3] + u>> /\ Shift(g, 3, -u) = <<g[1], g[2], g[3] - u>>
    BY <1>5, <1>9, <1>3
  <2>6. <<g[1], g[2], g[3] + u>> \in Cells /\ <<g[1], g[2], g[3] - u>> \in Cells
    BY <1>9, <1>3 DEF Cells
  <2>7. \A x \in Int : /\ x % u = 0 <=> (x % (2 * u) = 0 \/ (x - u) % (2 * u) = 0)
                       /\ ~(x % (2 * u) = 0 /\ (x - u) % (2 * u) = 0)
                       /\ (x - u) % (2 * u) = 0 => x % u = 0 /\ (x + u) % (2 * u) = 0
    BY <1>1, Halves
  <2>8. Known(k, g) <=> Known(k - 1, g) \/ Pat(k, g)
    BY <1>3, <1>9, <2>2, <2>3, <2>4, <2>7
  <2>9. ~(Known(k - 1, g) /\ Pat(k, g))
    BY <1>3, <1>9, <2>3, <2>4, <2>7
  <2>10. Pat(k, g) => Known(k - 1, <<g[1], g[2], g[3] + u>>) /\ Known(k - 1, <<g[1], g[2], g[3] - u>>)
    BY <1>3, <1>9, <2>3, <2>4, <2>6, <2>7
  <2> QED
    BY <1>1, <2>1, <2>5, <2>8, <2>9, <2>10
<1>7. CASE K(k) = YELLOW(u) /\ k < NStage /\ K(k + 1) = HOLLOW(u)
  <2>1. K(k).axis = 1 /\ K(k).unit = u /\ K(k).step = <<2 * u, 2 * u, u>> /\ K(k + 1).step = <<u, 2 * u, u>>
    BY <1>7 DEF HOLLOW, YELLOW
  <2>2. Known(k, g) <=> g[1] % u = 0 /\ g[2] % (2 * u) = 0 /\ g[3] % u = 0
    BY <1>7, <1>2, <2>1 DEF Known, OnGrid
  <2>3. \A h \in Cells : Known(k - 1, h) <=> h[1] % (2 * u) = 0 /\ h[2] % (2 * u) = 0 /\ h[3] % u = 0
    BY <1>4, <2>1 DEF OnGrid
  <2>4. Pat(k, g) <=> (g[1] - u) % (2 * u) = 0 /\ g[2] % (2 * u) = 0 /\ g[3] % u = 0
    BY <1>3, <1>7 DEF Pat, YELLOW
  <2>5. Shift(g, 1, u) = <<g[1] + u, g[2], g[3]>> /\ Shift(g, 1, -u) = <<g[1] - u, g[2], g[3]>>
    BY <1>5, <1>9, <1>3
  <2>6. <<g[1] + u, g[2], g[3]>> \in Cells /\ <<g[1] - u, g[2], g[3]>> \in Cells
    BY <1>9, <1>3 DEF Cells
  <2>7. \A x \in Int : /\ x % u = 0 <=> (x % (2 * u) = 0 \/ (x - u) % (2 * u) = 0)
                       /\ ~(x % (2 * u) = 0 /\ (x - u) % (2 * u) = 0)
                       /\ (x - u) % (2 * u) = 0 => x % u = 0 /\ (x + u) % (2 * u) = 0
    BY <1>1, Halves
  <2>8. Known(k, g) <=> Known(k - 1, g) \/ Pat(k, g)
    BY <1>3, <1>9, <2>2, <2>3, <2>4, <2>7
  <2>9. ~(Known(k - 1, g) /\ Pat(k, g))
    BY <1>3, <1>9, <2>3, <2>4, <2>7
  <2>10. Pat(k, g) => Known(k - 1, <<g[1] + u, g[2], g[3]>>) /\ Known(k - 1, <<g[1] - u, g[2], g[3]>>)
    BY <1>3, <1>9, <2>3, <2>4, <2>6, <2>7
  <2> QED
    BY <1>1, <2>1, <2>5, <2>8, <2>9, <2>10
<1>8. CASE K(k) = HOLLOW(u) /\ (\/ u = 1 /\ k = NStage
                                \/ u # 1 /\ k < NStage /\ K(k + 1) = BLUE(u \div 2))
  <2>1. K(k).axis = 2 /\ K(k).unit = u /\ K(k).step = <<u, 2 * u, u>>
    BY <1>8 DEF HOLLOW
  <2>2. Known(k, g) <=> g[1] % u = 0 /\ g[2] % u = 0 /\ g[3] % u = 0
    <3>1. CASE u = 1
      BY <1>3, <1>8, <3>1 DEF Known
    <3>2. CASE u # 1
      <4>1. 2 * (u \div 2) = u
        BY <1>1, <3>2
      <4>2. K(k + 1).step = <<u, u, u>>
        BY <1>8, <3>2, <4>1 DEF BLUE
      <4> QED
        BY <1>8, <1>2, <3>2, <4>2 DEF Known, OnGrid
    <3> QED
      BY <3>1, <3>2
  <2>3. \A h \in Cells : Known(k - 1, h) <=> h[1] % u = 0 /\ h[2] % (2 * u) = 0 /\ h[3] % u = 0
    BY <1>4, <2>1 DEF OnGrid
  <2>4. Pat(k, g) <=> g[1] % u = 0 /\ (g[2] - u) % (2 * u) = 0 /\ g[3] % u = 0
    BY <1>3, <1>8 DEF Pat, HOLLOW
  <2>5. Shift(g, 2, u) = <<g[1], g[2] + u, g[3]>> /\ Shift(g, 2, -u) = <<g[1], g[2] - u, g[3]>>
    BY <1>5, <1>9, <1>3
  <2>6. <<g[1], g[2] + u, g[3]>> \in Cells /\ <<g[1], g[2] - u, g[3]>> \in Cells
    BY <1>9, <1>3 DEF Cells
  <2>7. \A x \in Int : /\ x % u = 0 <=> (x % (2 * u) = 0 \/ (x - u) % (2 * u) = 0)
                       /\ ~(x % (2 * u) = 0 /\ (x - u) % (2 * u) = 0)
                       /\ (x - u) % (2 * u) = 0 => x % u = 0 /\ (x + u) % (2 * u) = 0
    BY <1>1, Halves
  <2>8. Known(k, g) <=> Known(k - 1, g) \/ Pat(k, g)
    BY <1>3, <1>9, <2>2, <2>3, <2>4, <2>7
  <2>9. ~(Known(k - 1, g) /\ Pat(k, g))
    BY <1>3, <1>9, <2>3, <2>4, <2>7
  <2>10. Pat(k, g) => Known(k - 1, <<g[1], g[2] + u, g[3]>>) /\ Known(k - 1, <<g[1], g[2] - u, g[3]>>)
    BY <1>3, <1>9, <2>3, <2>4, <2>6, <2>7
  <2> QED
    BY <1>1, <2>1, <2>5, <2>8, <2>9, <2>10
<1> QED
  BY <1>1, <1>6, <1>7, <1>8, Zenon DEF Follows

-----------------------------------------------------------------------------
(* A stage along its axis and along the others.                             *)
Along(s, d, last) ==
  /\ s.step[d] \in {s.unit, 2 * s.unit}
  /\ d = s.axis => s.from[d] = s.unit /\ s.step[d] = 2 * s.unit /\ s.dim[d] = SUBLEN[d] \div (2 * s.unit)
  /\ d # s.axis => s.from[d] = 0 /\ s.dim[d] = SUBLEN[d] \div s.step[d] + (IF last THEN 0 ELSE 1)

(* A block's sides are whole numbers of anchors.                             *)
LEMMA SublenIs ==
  ASSUME NEW d \in 1 .. 3
  PROVE  SUBLEN[d] \in Nat \ {0} /\ SUBLEN[d] % BLOCK = 0 /\ SUBLEN[d] >= BLOCK
<1>1. \A b \in {2, 4, 8} : (SUBS * b) % b = 0 /\ SUBS * b >= b
  BY Constants
<1> QED
  BY <1>1, BlockIs

(* A stage's box and step along an axis.                                     *)
LEMMA Shape ==
  ASSUME NEW k \in 1 .. NStage
  PROVE  /\ Fits(K(k).unit) /\ K(k).axis \in 1 .. 3
         /\ \A d \in 1 .. 3 : Along(K(k), d, k = NStage)
<1> DEFINE u == Unit(k)
<1>1. u \in {1, 2, 4} /\ Follows(k, u) /\ Fits(u) /\ u \in Int
  BY Kinds DEF Fits
<1>2. k \in Int /\ NStage \in Int
  BY NStageIs
<1> HIDE DEF u
<1>3. SUBLEN[1] = SUBS * BLOCK /\ SUBLEN[2] = BLOCK /\ SUBLEN[3] = BLOCK /\ BLOCK \in {2, 4, 8}
  BY BlockIs
<1> DEFINE n == SUBLEN[1]
<1>4. n \in Nat \ {0} /\ n % BLOCK = 0
  BY SublenIs
<1> HIDE DEF n
<1>5. /\ BLOCK \div u = (BLOCK \div (2 * u)) * 2
      /\ u = 1 => n \div u = n /\ BLOCK \div u = BLOCK
  BY <1>1, <1>3, <1>4 DEF Fits
<1>6. CASE K(k) = BLUE(u) /\ k < NStage
  <2> DEFINE s == BLUE(u)
  <2>1. s.unit = u /\ s.axis = 3 /\ s.step = <<2 * u, 2 * u, 2 * u>> /\ s.from = <<0, 0, u>>
         /\ s.dim = <<SUBLEN[1] \div (2 * u) + 1, BLOCK \div (2 * u) + 1, BLOCK \div (2 * u)>>
    BY DEF BLUE
  <2> HIDE DEF s
  <2>2. ASSUME NEW d \in 1 .. 3 PROVE Along(s, d, k = NStage)
    <3>1. d = 1 \/ d = 2 \/ d = 3
      OBVIOUS
    <3> QED
      BY <1>2, <1>3, <1>6, <2>1, <3>1 DEF Along
  <2>3. K(k) = s
    BY <1>6 DEF s
  <2> QED
    BY <1>1, <2>1, <2>2, <2>3
<1>7. CASE K(k) = YELLOW(u) /\ k < NStage
  <2> DEFINE s == YELLOW(u)
  <2>1. s.unit = u /\ s.axis = 1 /\ s.step = <<2 * u, 2 * u, u>> /\ s.from = <<u, 0, 0>>
         /\ s.dim = <<SUBLEN[1] \div (2 * u), BLOCK \div (2 * u) + 1, BLOCK \div u + 1>>
    BY DEF YELLOW
  <2> HIDE DEF s
  <2>2. ASSUME NEW d \in 1 .. 3 PROVE Along(s, d, k = NStage)
    <3>1. d = 1 \/ d = 2 \/ d = 3
      OBVIOUS
    <3> QED
      BY <1>2, <1>3, <1>7, <2>1, <3>1 DEF Along
  <2>3. K(k) = s
    BY <1>7 DEF s
  <2> QED
    BY <1>1, <2>1, <2>2, <2>3
<1>8. CASE K(k) = HOLLOW(u) /\ (u = 1 <=> k = NStage)
  <2> DEFINE s == HOLLOW(u)
  <2>1. s.unit = u /\ s.axis = 2 /\ s.step = <<u, 2 * u, u>> /\ s.from = <<0, u, 0>>
         /\ s.dim = IF u = 1 THEN <<SUBLEN[1], BLOCK \div 2, BLOCK>>
                      ELSE <<SUBLEN[1] \div u + 1, BLOCK \div (2 * u), BLOCK \div u + 1>>
    BY DEF HOLLOW
  <2> HIDE DEF s
  <2>2. ASSUME NEW d \in 1 .. 3 PROVE Along(s, d, k = NStage)
    <3>1. d = 1 \/ d = 2 \/ d = 3
      OBVIOUS
    <3>2. CASE u = 1
      <4>1. k = NStage /\ s.dim = <<n, BLOCK \div (2 * u), BLOCK>> /\ n = SUBLEN[1]
        BY <1>8, <2>1, <3>2 DEF n
      <4> QED
        BY <1>2, <1>3, <1>4, <1>5, <2>1, <3>1, <3>2, <4>1 DEF Along
    <3>3. CASE u # 1
      BY <1>2, <1>3, <1>8, <2>1, <3>1, <3>3 DEF Along
    <3> QED
      BY <3>2, <3>3
  <2>3. K(k) = s
    BY <1>8 DEF s
  <2> QED
    BY <1>1, <2>1, <2>2, <2>3
<1> QED
  BY <1>1, <1>2, <1>6, <1>7, <1>8 DEF Follows

(* One axis: the cells of a grid that are inside.                           *)
LEMMA AxisGrid ==
  ASSUME NEW u, Fits(u), NEW n \in Nat \ {0}, n % BLOCK = 0, NEW t \in {u, 2 * u},
         NEW x \in 0 .. n, x % t = 0
  PROVE  /\ x \div t \in 0 .. n \div t /\ 0 + t * (x \div t) = x
         /\ x < n => x \div t \in 0 .. n \div t - 1
<1>1. \/ u = 1 /\ BLOCK = 2
      \/ u = 1 /\ BLOCK = 4
      \/ u = 1 /\ BLOCK = 8
      \/ u = 2 /\ BLOCK = 4
      \/ u = 2 /\ BLOCK = 8
      \/ u = 4 /\ BLOCK = 8
  BY BlockIs DEF Fits
<1>2. CASE u = 1 /\ BLOCK = 2 /\ t = 1
  BY <1>2
<1>3. CASE u = 1 /\ BLOCK = 2 /\ t = 2
  BY <1>3
<1>4. CASE u = 1 /\ BLOCK = 4 /\ t = 1
  BY <1>4
<1>5. CASE u = 1 /\ BLOCK = 4 /\ t = 2
  BY <1>5
<1>6. CASE u = 1 /\ BLOCK = 8 /\ t = 1
  BY <1>6
<1>7. CASE u = 1 /\ BLOCK = 8 /\ t = 2
  BY <1>7
<1>8. CASE u = 2 /\ BLOCK = 4 /\ t = 2
  BY <1>8
<1>9. CASE u = 2 /\ BLOCK = 4 /\ t = 4
  BY <1>9
<1>10. CASE u = 2 /\ BLOCK = 8 /\ t = 2
  BY <1>10
<1>11. CASE u = 2 /\ BLOCK = 8 /\ t = 4
  BY <1>11
<1>12. CASE u = 4 /\ BLOCK = 8 /\ t = 4
  BY <1>12
<1>13. CASE u = 4 /\ BLOCK = 8 /\ t = 8
  BY <1>13
<1> QED
  BY <1>1, <1>2, <1>3, <1>4, <1>5, <1>6, <1>7, <1>8, <1>9, <1>10, <1>11, <1>12, <1>13

(* A cell between two of the grid, and its neighbours, along an axis.        *)
LEMMA AxisBetween ==
  ASSUME NEW u, Fits(u), NEW n \in Nat \ {0}, n % BLOCK = 0,
         NEW x \in 0 .. n, (x - u) % (2 * u) = 0
  PROVE  /\ (x - u) \div (2 * u) \in 0 .. n \div (2 * u) - 1 /\ u + 2 * u * ((x - u) \div (2 * u)) = x
         /\ x + u \in 0 .. n /\ x - u \in 0 .. n
<1>1. \/ u = 1 /\ BLOCK = 2
      \/ u = 1 /\ BLOCK = 4
      \/ u = 1 /\ BLOCK = 8
      \/ u = 2 /\ BLOCK = 4
      \/ u = 2 /\ BLOCK = 8
      \/ u = 4 /\ BLOCK = 8
  BY BlockIs DEF Fits
<1>2. CASE u = 1 /\ BLOCK = 2
  BY <1>2
<1>3. CASE u = 1 /\ BLOCK = 4
  BY <1>3
<1>4. CASE u = 1 /\ BLOCK = 8
  BY <1>4
<1>5. CASE u = 2 /\ BLOCK = 4
  BY <1>5
<1>6. CASE u = 2 /\ BLOCK = 8
  BY <1>6
<1>7. CASE u = 4 /\ BLOCK = 8
  BY <1>7
<1> QED
  BY <1>1, <1>2, <1>3, <1>4, <1>5, <1>6, <1>7

(* A stage's map along an axis.                                              *)
LEMMA AxisMap ==
  ASSUME NEW t \in {1, 2, 4, 8}, NEW f \in Int, NEW i \in Int, NEW j \in Int
  PROVE  /\ f + t * i \in Int /\ ((f + t * i) - f) % t = 0
         /\ f + t * i = f + t * j => i = j
OBVIOUS

-----------------------------------------------------------------------------
(* Cells, by their coordinates.                                             *)
LEMMA BoxIs ==
  ASSUME NEW n, n[1] \in Int, n[2] \in Int, n[3] \in Int, NEW c
  PROVE  c \in Box(n) <=> c \in Cells /\ \A d \in 1 .. 3 : c[d] \in 0 .. n[d] - 1
<1>1. 1 .. 3 = {1, 2, 3}
  OBVIOUS
<1>2. ASSUME c \in Box(n) PROVE c \in Cells /\ \A d \in {1, 2, 3} : c[d] \in 0 .. n[d] - 1
  BY <1>2 DEF Box, Cells
<1>3. ASSUME c \in Cells, \A d \in {1, 2, 3} : c[d] \in 0 .. n[d] - 1 PROVE c \in Box(n)
  BY <1>3 DEF Box, Cells
<1> QED
  BY <1>1, <1>2, <1>3

(* Membership of shared memory and of a block, axis by axis.                 *)
LEMMA ScratchIs ==
  ASSUME NEW c
  PROVE  /\ c \in Scratch <=> c \in Cells /\ \A d \in 1 .. 3 : c[d] \in 0 .. SUBLEN[d]
         /\ c \in Box(SUBLEN) <=> c \in Cells /\ \A d \in 1 .. 3 : c[d] \in 0 .. SUBLEN[d] - 1
         /\ c \in Box(SUBLEN) => c \in Scratch
<1> DEFINE n == [d \in 1 .. 3 |-> SUBLEN[d] + 1]
<1>1. n[1] = SUBLEN[1] + 1 /\ n[2] = SUBLEN[2] + 1 /\ n[3] = SUBLEN[3] + 1
  OBVIOUS
<1>2. SUBLEN[1] \in Nat /\ SUBLEN[2] \in Nat /\ SUBLEN[3] \in Nat
  BY SublenIs
<1>3. \A d \in 1 .. 3 : SUBLEN[d] \in Nat /\ n[d] = SUBLEN[d] + 1
  BY SublenIs
<1>4. n[1] \in Int /\ n[2] \in Int /\ n[3] \in Int
  BY <1>1, <1>2
<1>5. Scratch = Box(n)
  BY DEF Scratch
<1> HIDE DEF n
<1>6. c \in Box(n) <=> c \in Cells /\ \A d \in 1 .. 3 : c[d] \in 0 .. n[d] - 1
  BY <1>4, BoxIs
<1>7. c \in Box(SUBLEN) <=> c \in Cells /\ \A d \in 1 .. 3 : c[d] \in 0 .. SUBLEN[d] - 1
  BY <1>2, BoxIs
<1>8. \A d \in 1 .. 3 : /\ 0 .. n[d] - 1 = 0 .. SUBLEN[d]
                        /\ 0 .. SUBLEN[d] - 1 \subseteq 0 .. SUBLEN[d]
  BY <1>3
<1> QED
  BY <1>5, <1>6, <1>7, <1>8

(* Cells are equal when their coordinates are.                               *)
LEMMA SameCell ==
  ASSUME NEW a \in Cells, NEW b \in Cells, \A d \in 1 .. 3 : a[d] = b[d]
  PROVE  a = b
<1>1. a[1] = b[1] /\ a[2] = b[2] /\ a[3] = b[3]
  OBVIOUS
<1> QED
  BY <1>1 DEF Cells

(* A shifted cell.                                                           *)
LEMMA ShiftIs ==
  ASSUME NEW c \in Cells, NEW a \in 1 .. 3, NEW n \in Int
  PROVE  /\ Shift(c, a, n) \in Cells
         /\ \A d \in 1 .. 3 : Shift(c, a, n)[d] = IF d = a THEN c[d] + n ELSE c[d]
<1>1. c[1] \in Int /\ c[2] \in Int /\ c[3] \in Int /\ c \in [1 .. 3 -> Int]
  BY DEF Cells
<1>2. Shift(c, a, n) \in [1 .. 3 -> Int] /\ \A d \in 1 .. 3 : Shift(c, a, n)[d] = IF d = a THEN c[d] + n ELSE c[d]
  BY <1>1 DEF Shift
<1>3. \A x \in [1 .. 3 -> Int] : x \in Cells
  BY DEF Cells
<1> QED
  BY <1>2, <1>3

(* A stage's cells, axis by axis.                                            *)
LEMMA PatIs ==
  ASSUME NEW k, NEW g
  PROVE  Pat(k, g) <=> \A d \in 1 .. 3 : (g[d] - K(k).from[d]) % K(k).step[d] = 0
<1>1. 1 .. 3 = {1, 2, 3}
  OBVIOUS
<1> QED
  BY <1>1 DEF Pat

(* The neighbours of what a stage interpolates are in the scratch.          *)
LEMMA StageNeighbours ==
  ASSUME NEW k \in 1 .. NStage, NEW c \in Scratch, Pat(k, c)
  PROVE  /\ Shift(c, K(k).axis, K(k).unit) \in Scratch
         /\ Shift(c, K(k).axis, -K(k).unit) \in Scratch
<1> DEFINE s == K(k)
<1>1. Fits(s.unit) /\ s.axis \in 1 .. 3 /\ s.unit \in {1, 2, 4} /\ -s.unit \in Int
       /\ s.from[s.axis] = s.unit /\ s.step[s.axis] = 2 * s.unit
  BY Shape DEF Along, Fits
<1>2. c \in Cells /\ \A d \in 1 .. 3 : c[d] \in 0 .. SUBLEN[d]
  BY ScratchIs
<1>3. (c[s.axis] - s.unit) % (2 * s.unit) = 0
  BY <1>1, PatIs
<1> HIDE DEF s
<1>4. SUBLEN[s.axis] \in Nat \ {0} /\ SUBLEN[s.axis] % BLOCK = 0
  BY <1>1, SublenIs
<1>5. c[s.axis] + s.unit \in 0 .. SUBLEN[s.axis] /\ c[s.axis] - s.unit \in 0 .. SUBLEN[s.axis]
  <2> DEFINE x == c[s.axis]
             u == s.unit
             n == SUBLEN[s.axis]
  <2>1. /\ Fits(u) /\ n \in Nat \ {0} /\ n % BLOCK = 0 /\ x \in 0 .. n /\ (x - u) % (2 * u) = 0
    BY <1>1, <1>2, <1>3, <1>4
  <2> HIDE DEF x, u, n
  <2>2. x + u \in 0 .. n /\ x - u \in 0 .. n
    BY <2>1, AxisBetween, ZenonT(40)
  <2> QED
    BY <2>2 DEF x, u, n
<1>6. ASSUME NEW n \in Int, c[s.axis] + n \in 0 .. SUBLEN[s.axis] PROVE Shift(c, s.axis, n) \in Scratch
  <2>2. /\ Shift(c, s.axis, n) \in Cells
        /\ \A d \in 1 .. 3 : Shift(c, s.axis, n)[d] = IF d = s.axis THEN c[d] + n ELSE c[d]
    BY <1>1, <1>2, ShiftIs
  <2>1. ASSUME NEW d \in 1 .. 3 PROVE Shift(c, s.axis, n)[d] \in 0 .. SUBLEN[d]
    <3>1. CASE d = s.axis
      BY <1>6, <2>2, <3>1
    <3>2. CASE d # s.axis
      BY <1>2, <2>2, <3>2
    <3> QED
      BY <3>1, <3>2
  <2> QED
    BY <2>1, <2>2, ScratchIs
<1>7. c[s.axis] + -s.unit = c[s.axis] - s.unit /\ s.unit \in Int
  BY <1>1, <1>2
<1>8. Shift(c, s.axis, s.unit) \in Scratch /\ Shift(c, s.axis, -s.unit) \in Scratch
  BY <1>1, <1>5, <1>6, <1>7
<1> QED
  BY <1>8 DEF s

(* A stage goes through the cells that it interpolates, once each.          *)
Within3(k, c) == k < NStage \/ c \in Box(SUBLEN)

(* A stage's box has sizes.                                                  *)
LEMMA DimIs ==
  ASSUME NEW k \in 1 .. NStage
  PROVE  \A d \in 1 .. 3 : K(k).dim[d] \in Nat
<1> DEFINE s == K(k)
<1>1. ASSUME NEW d \in 1 .. 3 PROVE s.dim[d] \in Nat
  <2>1. Fits(s.unit) /\ Along(s, d, k = NStage)
    BY Shape
  <2>2. s.unit \in {1, 2, 4} /\ s.step[d] \in {1, 2, 4, 8} /\ SUBLEN[d] \in Nat
    BY <2>1, SublenIs DEF Fits, Along
  <2> HIDE DEF s
  <2>3. \A t \in {1, 2, 4, 8} : SUBLEN[d] \div t \in Nat
    BY <2>2
  <2>4. 2 * s.unit \in {1, 2, 4, 8}
    BY <2>2
  <2> QED
    BY <2>1, <2>2, <2>3, <2>4 DEF Along
<1> QED
  BY <1>1

(* A stage's box reaches every cell of the block that is the stage's.        *)
LEMMA StageCovers ==
  ASSUME NEW k \in 1 .. NStage, NEW c \in Scratch, Pat(k, c), Within3(k, c)
  PROVE  \E i \in Box(K(k).dim) : c = xyz_map(K(k), i)
<1> DEFINE s == K(k)
           i == <<(c[1] - s.from[1]) \div s.step[1], (c[2] - s.from[2]) \div s.step[2], (c[3] - s.from[3]) \div s.step[3]>>
<1>1. c \in Cells /\ \A d \in 1 .. 3 : c[d] \in 0 .. SUBLEN[d]
  BY ScratchIs
<1>2. \A d \in 1 .. 3 : i[d] = (c[d] - s.from[d]) \div s.step[d]
  OBVIOUS
<1>3. Fits(s.unit) /\ s.unit \in {1, 2, 4} /\ s.unit \in Int
  BY Shape DEF Fits
<1> HIDE DEF i
<1>4. ASSUME NEW d \in 1 .. 3
      PROVE  i[d] \in 0 .. s.dim[d] - 1 /\ s.from[d] + s.step[d] * i[d] = c[d]
  <2>1. Along(s, d, k = NStage) /\ (c[d] - s.from[d]) % s.step[d] = 0
    BY Shape, PatIs
  <2>2. SUBLEN[d] \in Nat \ {0} /\ SUBLEN[d] % BLOCK = 0 /\ c[d] \in 0 .. SUBLEN[d]
    BY <1>1, SublenIs
  <2>3. k < NStage \/ c[d] < SUBLEN[d]
    <3>1. c \in Box(SUBLEN) => c[d] \in 0 .. SUBLEN[d] - 1
      BY ScratchIs
    <3>2. c[d] \in 0 .. SUBLEN[d] - 1 => c[d] < SUBLEN[d]
      BY <2>2
    <3> QED
      BY <3>1, <3>2 DEF Within3
  <2>4. k \in Int /\ NStage \in Int
    BY NStageIs
  <2>5. i[d] = (c[d] - s.from[d]) \div s.step[d]
    BY <1>2
  <2> HIDE DEF s
  <2>6. CASE d = s.axis
    <3>1. s.from[d] = s.unit /\ s.step[d] = 2 * s.unit /\ s.dim[d] = SUBLEN[d] \div (2 * s.unit)
      BY <2>1, <2>6 DEF Along
    <3>2. (c[d] - s.unit) % (2 * s.unit) = 0
      BY <2>1, <3>1
    <3>3. /\ (c[d] - s.unit) \div (2 * s.unit) \in 0 .. SUBLEN[d] \div (2 * s.unit) - 1
          /\ s.unit + 2 * s.unit * ((c[d] - s.unit) \div (2 * s.unit)) = c[d]
      BY <1>3, <2>2, <3>2, AxisBetween
    <3> QED
      BY <2>5, <3>1, <3>3
  <2>7. CASE d # s.axis
    <3>1. s.from[d] = 0 /\ s.dim[d] = SUBLEN[d] \div s.step[d] + (IF k = NStage THEN 0 ELSE 1)
          /\ s.step[d] \in {s.unit, 2 * s.unit}
      BY <2>1, <2>7 DEF Along
    <3> DEFINE t == s.step[d]
               x == c[d]
    <3>2. c[d] - 0 = c[d] /\ t \in {s.unit, 2 * s.unit}
      BY <2>2, <3>1
    <3>3. x % t = 0 /\ i[d] = x \div t /\ s.dim[d] = SUBLEN[d] \div t + (IF k = NStage THEN 0 ELSE 1)
      BY <2>1, <2>5, <3>1, <3>2
    <3> HIDE DEF t, x
    <3>4. x \in 0 .. SUBLEN[d]
      BY <2>2 DEF x
    <3>5. /\ x \div t \in 0 .. SUBLEN[d] \div t /\ 0 + t * (x \div t) = x
          /\ x < SUBLEN[d] => x \div t \in 0 .. SUBLEN[d] \div t - 1
      <4> DEFINE n == SUBLEN[d]
      <4>1. t \in {s.unit, 2 * s.unit} /\ x \in 0 .. n /\ x % t = 0 /\ n \in Nat \ {0} /\ n % BLOCK = 0 /\ Fits(s.unit)
        BY <1>3, <2>2, <3>2, <3>3, <3>4
      <4> HIDE DEF n
      <4>2. x \div t \in 0 .. n \div t /\ 0 + t * (x \div t) = x /\ (x < n => x \div t \in 0 .. n \div t - 1)
        BY <4>1, AxisGrid, ZenonT(40)
      <4> QED
        BY <4>2 DEF n
    <3>6. SUBLEN[d] \div t \in Int
      BY <1>3, <2>2, <3>2
    <3>7. i[d] \in 0 .. s.dim[d] - 1
      <4> DEFINE m == SUBLEN[d] \div t
                 j == x \div t
      <4>1. m \in Int /\ j \in 0 .. m /\ (x < SUBLEN[d] => j \in 0 .. m - 1)
        BY <3>5, <3>6
      <4>2. i[d] = j /\ s.dim[d] = m + (IF k = NStage THEN 0 ELSE 1)
        BY <3>3
      <4> HIDE DEF m, j
      <4>3. k = NStage => x < SUBLEN[d]
        BY <2>3, <2>4 DEF x
      <4> QED
        BY <4>1, <4>2, <4>3
    <3>8. s.from[d] + s.step[d] * i[d] = c[d]
      BY <3>1, <3>3, <3>5 DEF t, x
    <3> QED
      BY <3>7, <3>8
  <2> QED
    BY <2>6, <2>7
<1>5. i \in Cells
  <2>1. \A d \in 1 .. 3 : i[d] \in Int
    <3>1. \A d \in 1 .. 3 : s.dim[d] \in Nat
      BY DimIs
    <3> HIDE DEF s
    <3> QED
      BY <1>4, <3>1
  <2>2. i = <<i[1], i[2], i[3]>>
    BY DEF i
  <2>3. i[1] \in Int /\ i[2] \in Int /\ i[3] \in Int
    BY <2>1
  <2> HIDE DEF i, s
  <2> QED
    BY <2>2, <2>3 DEF Cells
<1>6. i \in Box(s.dim)
  <2>1. s.dim[1] \in Int /\ s.dim[2] \in Int /\ s.dim[3] \in Int
    BY DimIs
  <2> HIDE DEF s
  <2> QED
    BY <1>4, <1>5, <2>1, BoxIs
<1>7. c = xyz_map(s, i)
  <2>1. xyz_map(s, i) = [d \in 1 .. 3 |-> c[d]]
    <3> HIDE DEF s
    <3> QED
      BY <1>4 DEF xyz_map
  <2>2. c \in [1 .. 3 -> Int]
    BY <1>1 DEF Cells
  <2> QED
    BY <2>1, <2>2
<1> QED
  BY <1>6, <1>7

(* What a stage's box reaches is the stage's, once.                          *)
LEMMA StageMaps ==
  ASSUME NEW k \in 1 .. NStage, NEW i \in Box(K(k).dim)
  PROVE  /\ xyz_map(K(k), i) \in Cells /\ Pat(k, xyz_map(K(k), i))
         /\ \A j \in Box(K(k).dim) : xyz_map(K(k), i) = xyz_map(K(k), j) => i = j
<1> DEFINE s == K(k)
           c == xyz_map(s, i)
<1>1. Fits(s.unit) /\ s.unit \in {1, 2, 4} /\ s.unit \in Int
  BY Shape DEF Fits
<1>2. \A j \in Box(s.dim) : j \in Cells /\ j[1] \in Int /\ j[2] \in Int /\ j[3] \in Int
  <2>1. s.dim[1] \in Int /\ s.dim[2] \in Int /\ s.dim[3] \in Int
    BY DimIs
  <2> HIDE DEF s
  <2>2. \A j \in Box(s.dim) : j \in Cells
    BY <2>1, BoxIs
  <2> QED
    BY <2>2 DEF Cells
<1>3. ASSUME NEW d \in 1 .. 3
      PROVE  s.step[d] \in {1, 2, 4, 8} /\ s.from[d] \in Int
  <2>1. s.step[d] \in {s.unit, 2 * s.unit} /\ s.from[d] \in {0, s.unit}
    BY Shape DEF Along
  <2> HIDE DEF s
  <2> QED
    BY <1>1, <2>1
<1> HIDE DEF s
<1>4. ASSUME NEW j \in Box(s.dim)
      PROVE  /\ xyz_map(s, j) \in Cells
             /\ \A d \in 1 .. 3 : xyz_map(s, j)[d] = s.from[d] + s.step[d] * j[d]
  <2>1. \A d \in 1 .. 3 : xyz_map(s, j)[d] = s.from[d] + s.step[d] * j[d]
    BY DEF xyz_map
  <2>2. \A d \in 1 .. 3 : j[d] \in Int
    BY <1>2
  <2>3. ASSUME NEW d \in 1 .. 3 PROVE xyz_map(s, j)[d] \in Int
    <3> DEFINE t == s.step[d]
               f == s.from[d]
    <3>1. t \in {1, 2, 4, 8} /\ f \in Int /\ j[d] \in Int
      BY <1>3, <2>2
    <3>2. xyz_map(s, j)[d] = f + t * j[d]
      BY <2>1
    <3> HIDE DEF t, f
    <3> QED
      BY <3>1, <3>2, AxisMap
  <2>4. xyz_map(s, j) = <<xyz_map(s, j)[1], xyz_map(s, j)[2], xyz_map(s, j)[3]>>
    BY DEF xyz_map
  <2>5. xyz_map(s, j)[1] \in Int /\ xyz_map(s, j)[2] \in Int /\ xyz_map(s, j)[3] \in Int
    BY <2>3
  <2> QED
    BY <2>1, <2>4, <2>5 DEF Cells
<1>5. i \in Box(s.dim)
  BY DEF s
<1>6. \A d \in 1 .. 3 : (xyz_map(s, i)[d] - s.from[d]) % s.step[d] = 0
  <2>1. ASSUME NEW d \in 1 .. 3 PROVE (xyz_map(s, i)[d] - s.from[d]) % s.step[d] = 0
    <3>1. i[d] \in Int
      BY <1>2, <1>5
    <3> DEFINE t == s.step[d]
               f == s.from[d]
    <3>2. t \in {1, 2, 4, 8} /\ f \in Int
      BY <1>3
    <3>3. xyz_map(s, i)[d] = f + t * i[d]
      BY <1>4, <1>5
    <3> HIDE DEF t, f
    <3>4. ((f + t * i[d]) - f) % t = 0
      BY <3>1, <3>2, AxisMap
    <3>5. (xyz_map(s, i)[d] - f) % t = 0
      BY <3>3, <3>4
    <3> QED
      BY <3>5 DEF t, f
  <2> QED
    BY <2>1
<1>7. ASSUME NEW j \in Box(s.dim), xyz_map(s, i) = xyz_map(s, j) PROVE i = j
  <2>1. ASSUME NEW d \in 1 .. 3 PROVE i[d] = j[d]
    <3>1. i[d] \in Int /\ j[d] \in Int
      BY <1>2, <1>5
    <3> DEFINE t == s.step[d]
               f == s.from[d]
    <3>2. t \in {1, 2, 4, 8} /\ f \in Int
      BY <1>3
    <3>3. f + t * i[d] = f + t * j[d]
      BY <1>4, <1>5, <1>7
    <3> HIDE DEF t, f
    <3> QED
      BY <3>1, <3>2, <3>3, AxisMap
  <2> QED
    BY <1>2, <1>5, <2>1, SameCell
<1>8. Pat(k, xyz_map(s, i))
  BY <1>6, PatIs DEF s
<1>9. /\ xyz_map(s, i) \in Cells /\ Pat(k, xyz_map(s, i))
      /\ \A j \in Box(s.dim) : xyz_map(s, i) = xyz_map(s, j) => i = j
  BY <1>4, <1>5, <1>7, <1>8
<1> QED
  BY <1>9 DEF s

-----------------------------------------------------------------------------
(* The loop over a box: an index for each cell, and a warp for each index.  *)
Idx(n, c) == c[1] + n[1] * (c[2] + n[2] * c[3])

Placed(a, b, e, x, y, z) ==
  LET i == x + a * (y + b * z)
  IN  i \in 0 .. a * b * e - 1 /\ i % a = x /\ (i \div a) % b = y /\ i \div (a * b) = z
Taken(a, b, e, i) ==
  /\ i % a \in 0 .. a - 1 /\ (i \div a) % b \in 0 .. b - 1 /\ i \div (a * b) \in 0 .. e - 1
  /\ i = (i % a) + a * (((i \div a) % b) + b * (i \div (a * b)))

(* The digits of an index in a box, and the index of digits.                 *)
LEMMA Digits ==
  ASSUME NEW a \in Nat \ {0}, NEW b \in Nat \ {0}, NEW e \in Nat \ {0}
  PROVE  /\ \A x \in 0 .. a - 1, y \in 0 .. b - 1, z \in 0 .. e - 1 : Placed(a, b, e, x, y, z)
         /\ \A i \in 0 .. a * b * e - 1 : Taken(a, b, e, i)
<1> DEFINE d == a * b
<1>1. d \in Nat \ {0} /\ d = b * a
  BY ProductOrder
<1> DEFINE Equal(x, y, z) == /\ x + a * (y + b * z) = z * d + (y * a + x)
                             /\ x + a * (y + b * z) = (y + b * z) * a + x
                             /\ y + b * z = z * b + y
<1>2. \A z \in Nat, y \in 0 .. b - 1, x \in 0 .. a - 1 : Equal(x, y, z)
  OBVIOUS
<1>7. d = a * b
  OBVIOUS
<1> HIDE DEF d, Equal
<1>3. ASSUME NEW x \in 0 .. a - 1, NEW y \in 0 .. b - 1 PROVE y * a + x \in 0 .. d - 1
  <2>1. y * a + a <= b * a /\ y * a \in Nat
    BY ProductOrder
  <2> DEFINE p == y * a
             m == b * a
  <2>2. p + a <= m /\ p \in Nat /\ m = d
    BY <1>1, <2>1
  <2> HIDE DEF p, m
  <2>3. p + x \in 0 .. d - 1
    BY <1>1, <2>2
  <2> QED
    BY <2>3 DEF p
<1>4. \A z \in Nat : z * d \in Nat /\ z * b \in Nat
  BY <1>1
<1>5. ASSUME NEW x \in 0 .. a - 1, NEW y \in 0 .. b - 1, NEW z \in 0 .. e - 1
      PROVE  Placed(a, b, e, x, y, z)
  <2> DEFINE i == x + a * (y + b * z)
             r == y * a + x
             q == y + b * z
  <2>0. z \in Nat
    OBVIOUS
  <2>7. r \in 0 .. d - 1
    BY <1>3
  <2>8. i = z * d + r /\ i = q * a + x /\ q = z * b + y
    <3>1. Equal(x, y, z)
      BY <1>2, <2>0
    <3> QED
      BY <3>1, Zenon DEF Equal
  <2>1. i = z * d + r /\ i = q * a + x /\ q = z * b + y /\ z \in Nat /\ r \in 0 .. d - 1
    BY <2>0, <2>7, <2>8, Zenon
  <2>2. q \in Nat
    BY <2>1, <1>4
  <2> HIDE DEF i, r, q
  <2>3. i \div d = z
    BY <1>1, <2>1, DivisionUnique
  <2>4. i \div a = q /\ i % a = x
    <3>1. a \in Nat \ {0} /\ q \in Nat /\ x \in 0 .. a - 1 /\ i = q * a + x
      BY <2>1, <2>2
    <3> QED
      BY <3>1, DivisionUnique
  <2>5. q % b = y
    BY <2>1, DivisionUnique
  <2>6. i \in 0 .. d * e - 1
    <3>1. z * d + d <= e * d /\ z * d \in Nat
      BY <1>1, ProductOrder
    <3>2. e * d = d * e
      BY <1>1
    <3> DEFINE p == z * d
               m == e * d
    <3>3. p + d <= m /\ p \in Nat /\ m = d * e /\ i = p + r /\ m \in Int
      BY <1>1, <2>1, <3>1, <3>2
    <3> HIDE DEF p, m
    <3>4. i \in 0 .. m - 1
      BY <1>1, <2>1, <3>3
    <3> QED
      BY <3>3, <3>4
  <2> QED
    BY <1>7, <2>3, <2>4, <2>5, <2>6, Zenon DEF i, Placed
<1>6. ASSUME NEW i \in 0 .. d * e - 1
      PROVE  Taken(a, b, e, i)
  <2> DEFINE q == i \div a
             x == i % a
             z == q \div b
             y == q % b
  <2>0. i \in Nat
    BY <1>1
  <2>1. q \in Nat /\ x \in 0 .. a - 1 /\ i = q * a + x
    BY <2>0, Division
  <2> HIDE DEF q, x
  <2>2. z \in Nat /\ y \in 0 .. b - 1 /\ q = z * b + y
    BY <2>1, Division
  <2> HIDE DEF z, y
  <2>3. i = x + a * (y + b * z) /\ i = z * d + (y * a + x)
    <3>1. x + a * (y + b * z) = (y + b * z) * a + x /\ y + b * z = z * b + y
          /\ x + a * (y + b * z) = z * d + (y * a + x)
      <4>1. Equal(x, y, z)
        BY <1>2, <2>1, <2>2
      <4> QED
        BY <4>1, Zenon DEF Equal
    <3> QED
      BY <2>1, <2>2, <3>1
  <2> DEFINE r == y * a + x
  <2>4. r \in 0 .. d - 1 /\ i = z * d + r
    BY <1>3, <2>1, <2>2, <2>3
  <2> HIDE DEF r
  <2>5. i \div d = z
    BY <1>1, <2>2, <2>4, DivisionUnique
  <2>6. z \in 0 .. e - 1
    <3>1. ASSUME ~(z < e) PROVE FALSE
      <4>1. e < z \/ e = z
        BY <2>2, <3>1
      <4>2. e * d <= z * d /\ e * d \in Nat /\ z * d \in Nat
        BY <1>1, <2>2, <4>1, ProductOrder
      <4>3. e * d = d * e
        BY <1>1
      <4> DEFINE p == z * d
                 m == d * e
      <4>4. m <= p /\ i = p + r /\ p \in Nat /\ m \in Nat /\ i < m
        BY <2>0, <2>4, <4>2, <4>3
      <4> HIDE DEF p, m
      <4> QED
        BY <2>4, <4>4, <1>1
    <3> QED
      BY <2>2, <3>1
  <2> QED
    BY <1>7, <2>1, <2>2, <2>3, <2>5, <2>6, Zenon DEF q, x, y, Taken
<1> QED
  BY <1>5, <1>6, <1>7, Zenon

Sized(n) == n[1] \in Nat /\ n[2] \in Nat /\ n[3] \in Nat

(* The cells of a box, by index.                                             *)
LEMMA CellOfIs ==
  ASSUME NEW n, Sized(n)
  PROVE  /\ \A i \in 0 .. n[1] * n[2] * n[3] - 1 : CellOf(n, i) \in Box(n) /\ Idx(n, CellOf(n, i)) = i
         /\ \A c \in Box(n) : Idx(n, c) \in 0 .. n[1] * n[2] * n[3] - 1 /\ CellOf(n, Idx(n, c)) = c
<1> DEFINE a == n[1]
           b == n[2]
           e == n[3]
<1>1. a \in Nat /\ b \in Nat /\ e \in Nat
  BY DEF Sized
<1>2. \A i : CellOf(n, i) = <<i % a, (i \div a) % b, i \div (a * b)>>
  BY DEF CellOf
<1>3. \A c : Idx(n, c) = c[1] + a * (c[2] + b * c[3])
  BY DEF Idx
<1>4. Box(n) = (0 .. a - 1) \X (0 .. b - 1) \X (0 .. e - 1)
  BY DEF Box
<1>5. ASSUME NEW i \in 0 .. n[1] * n[2] * n[3] - 1 PROVE CellOf(n, i) \in Box(n) /\ Idx(n, CellOf(n, i)) = i
  <2>1. i \in 0 .. a * b * e - 1
    OBVIOUS
  <2> HIDE DEF a, b, e
  <2>2. a # 0 /\ b # 0 /\ e # 0
    BY <1>1, <2>1
  <2>3. a \in Nat \ {0} /\ b \in Nat \ {0} /\ e \in Nat \ {0}
    BY <1>1, <2>2
  <2> DEFINE x == i % a
             y == (i \div a) % b
             z == i \div (a * b)
  <2>4. x \in 0 .. a - 1 /\ y \in 0 .. b - 1 /\ z \in 0 .. e - 1 /\ i = x + a * (y + b * z)
    <3>1. Taken(a, b, e, i)
      BY <2>1, <2>3, Digits
    <3> QED
      BY <3>1, Zenon DEF Taken
  <2>5. CellOf(n, i) = <<x, y, z>>
    BY <1>2
  <2> HIDE DEF x, y, z
  <2> QED
    BY <1>3, <1>4, <2>4, <2>5
<1>6. ASSUME NEW c \in Box(n) PROVE Idx(n, c) \in 0 .. n[1] * n[2] * n[3] - 1 /\ CellOf(n, Idx(n, c)) = c
  <2> HIDE DEF a, b, e
  <2> DEFINE x == c[1]
             y == c[2]
             z == c[3]
  <2>1. x \in 0 .. a - 1 /\ y \in 0 .. b - 1 /\ z \in 0 .. e - 1 /\ c = <<x, y, z>>
    BY <1>4
  <2>2. Idx(n, c) = x + a * (y + b * z)
    BY <1>3
  <2> HIDE DEF x, y, z
  <2>3. a \in Nat \ {0} /\ b \in Nat \ {0} /\ e \in Nat \ {0}
    BY <1>1, <2>1
  <2> DEFINE i == x + a * (y + b * z)
  <2>4. i \in 0 .. a * b * e - 1 /\ i % a = x /\ (i \div a) % b = y /\ i \div (a * b) = z
    <3>1. Placed(a, b, e, x, y, z)
      BY <2>1, <2>3, Digits
    <3> QED
      BY <3>1, Zenon DEF Placed
  <2> HIDE DEF i
  <2>5. Idx(n, c) = i
    BY <2>2 DEF i
  <2>6. CellOf(n, i) = c
    BY <1>2, <2>1, <2>4
  <2>7. i \in 0 .. n[1] * n[2] * n[3] - 1
    BY <2>4 DEF a, b, e
  <2> QED
    BY <2>5, <2>6, <2>7
<1> QED
  BY <1>5, <1>6

(* There are threads, and warps have some.                                   *)
LEMMA ThreadsAre == NTHREAD \in Nat \ {0} /\ WARP \in Nat \ {0}
<1>1. NTHREAD = (SUBS * BLOCK) * BLOCK /\ SUBS * BLOCK \in Nat \ {0} /\ BLOCK \in Nat \ {0}
  BY BlockIs DEF NTHREAD
<1> QED
  BY <1>1, ProductOrder, Constants

(* An index is some warp's.                                                  *)
LEMMA WarpOf ==
  ASSUME NEW i \in Nat
  PROVE  (i % NTHREAD) \div WARP \in Warps
<1>1. i % NTHREAD \in 0 .. NTHREAD - 1
  BY ThreadsAre, Division
<1> DEFINE m == i % NTHREAD
           t == NTHREAD - 1
<1>2. m \in Nat /\ t \in Nat /\ m <= t
  BY <1>1, ThreadsAre
<1> HIDE DEF m, t
<1>3. m \div WARP \in Nat /\ t \div WARP \in Nat /\ m \div WARP <= t \div WARP
  <2>1. m \div WARP \in Nat /\ t \div WARP \in Nat /\ m % WARP \in 0 .. WARP - 1 /\ t % WARP \in 0 .. WARP - 1
         /\ m = (m \div WARP) * WARP + (m % WARP) /\ t = (t \div WARP) * WARP + (t % WARP)
    BY <1>2, ThreadsAre, Division
  <2> DEFINE a == m \div WARP
             b == t \div WARP
  <2>2. ASSUME ~(a <= b) PROVE FALSE
    <3>1. b < a
      BY <2>1, <2>2
    <3> HIDE DEF a, b
    <3>2. b * WARP + WARP <= a * WARP /\ b * WARP \in Nat /\ a * WARP \in Nat
      BY <2>1, <3>1, ThreadsAre, ProductOrder DEF a, b
    <3> DEFINE p == a * WARP
               q == b * WARP
               u == m % WARP
               v == t % WARP
    <3>3. q + WARP <= p /\ p \in Nat /\ q \in Nat /\ m = p + u /\ t = q + v /\ u \in 0 .. WARP - 1 /\ v \in 0 .. WARP - 1
      BY <2>1, <3>2 DEF a, b
    <3> HIDE DEF p, q, u, v
    <3> QED
      BY <1>2, <3>3, ThreadsAre
  <2> QED
    BY <2>1, <2>2
<1> QED
  BY <1>3 DEF Warps, m, t

(* The warps' shares of a box are disjoint, and together the box.            *)
LEMMA ShareIs ==
  ASSUME NEW n, Sized(n)
  PROVE  /\ \A w : Share(w, n) \subseteq Box(n)
         /\ \A c \in Box(n) : \E w \in Warps : c \in Share(w, n)
         /\ \A v, w : \A c : c \in Share(v, n) /\ c \in Share(w, n) => v = w
<1> DEFINE N == n[1] * n[2] * n[3]
           WarpAt(i) == (i % NTHREAD) \div WARP
<1>1. /\ \A i \in 0 .. N - 1 : CellOf(n, i) \in Box(n) /\ Idx(n, CellOf(n, i)) = i
      /\ \A c \in Box(n) : Idx(n, c) \in 0 .. N - 1 /\ CellOf(n, Idx(n, c)) = c
  BY CellOfIs
<1>2. N \in Int
  BY DEF Sized
<1>3. \A w : InLoop(w, n) = {i \in 0 .. N - 1 : WarpAt(i) = w}
  BY DEF InLoop
<1> HIDE DEF N
<1>4. \A i \in 0 .. N - 1 : i \in Nat
  BY <1>2
<1>5. \A i \in 0 .. N - 1 : WarpAt(i) \in Warps
  BY <1>4, WarpOf
<1> HIDE DEF WarpAt
<1>6. \A w, c : c \in Share(w, n) <=> \E i \in 0 .. N - 1 : WarpAt(i) = w /\ c = CellOf(n, i)
  BY <1>3 DEF Share
<1>7. \A w : Share(w, n) \subseteq Box(n)
  BY <1>1, <1>6
<1>8. ASSUME NEW c \in Box(n) PROVE \E w \in Warps : c \in Share(w, n)
  BY <1>1, <1>5, <1>6
<1>9. ASSUME NEW v, NEW w, NEW c, c \in Share(v, n), c \in Share(w, n) PROVE v = w
  <2>1. WarpAt(Idx(n, c)) = v
    BY <1>1, <1>6, <1>9
  <2>2. WarpAt(Idx(n, c)) = w
    BY <1>1, <1>6, <1>9
  <2> QED
    BY <2>1, <2>2
<1> QED
  BY <1>7, <1>8, <1>9

-----------------------------------------------------------------------------
(* What compression computes, whoever computes it: the field, continued by  *)
(* 0, and its cells replaced stage by stage with what decompression sees.   *)
FieldOf(f) == [g \in Cells |-> IF g \in Box(f.len3) THEN f.data[g] ELSE 0]
Predict(v, k, g) == Mean(v[Shift(g, K(k).axis, -K(k).unit)], v[Shift(g, K(k).axis, K(k).unit)])
Code(v, k, g)    == Steps(v[g] - Predict(v, k, g)) + RADIUS
Refined(v, k)    == [g \in Cells |-> IF Pat(k, g) THEN Value(Predict(v, k, g), Code(v, k, g)) ELSE v[g]]

(* Every value is near the field's, and what is not yet known is the field's. *)
Close(f, v, k) == \A g \in Cells : Abs(v[g] - FieldOf(f)[g]) <= EB /\ (~Known(k, g) => v[g] = FieldOf(f)[g])
IdealTo(f, v, n) ==
  /\ v \in [0 .. n -> [Cells -> Int]] /\ v[0] = FieldOf(f)
  /\ \A k \in 1 .. n : v[k] = Refined(v[k - 1], k)
  /\ \A k \in 0 .. n : Close(f, v[k], k)

(* Whole multiples of 2 eb come within eb of an error.                      *)
LEMMA StepsBound ==
  ASSUME NEW e \in Int
  PROVE  Steps(e) \in Int /\ Abs(e - Steps(e) * (2 * EB)) <= EB /\ Steps(e) * (2 * EB) \in Int
<1> DEFINE a == Abs(e)
           d == 2 * EB
           n == (a + EB) \div d
           r == (a + EB) % d
<1>1. a \in Nat /\ EB \in Nat \ {0} /\ d \in Nat \ {0} /\ a + EB \in Nat
  BY Constants DEF Abs
<1>2. n \in Nat /\ r \in 0 .. d - 1 /\ a + EB = n * d + r
  <2> HIDE DEF a, d
  <2> QED
    BY <1>1, Division
<1>3. Steps(e) = IF e < 0 THEN -n ELSE n
  BY DEF Steps
<1>4. a = IF e < 0 THEN -e ELSE e
  BY DEF Abs
<1> DEFINE p == n * d
<1>5. p \in Int /\ (-n) * d = -p
  <2> HIDE DEF n, d
  <2> QED
    BY <1>1, <1>2
<1>6. d = EB + EB
  BY <1>1
<1> HIDE DEF n, r, p, a
<1>7. Steps(e) * d = IF e < 0 THEN -p ELSE p
  BY <1>3, <1>5 DEF p
<1> HIDE DEF d
<1>8. a + EB = p + r
  BY <1>2 DEF p
<1> DEFINE q == Steps(e) * d
<1>9. q = IF e < 0 THEN -p ELSE p
  BY <1>7
<1> HIDE DEF q
<1>10. Abs(e - q) <= EB /\ q \in Int
  BY <1>1, <1>2, <1>4, <1>5, <1>6, <1>8, <1>9 DEF Abs
<1>11. Steps(e) \in Int
  BY <1>2, <1>3
<1> QED
  BY <1>10, <1>11 DEF q, d

(* Refining keeps values close, and what is not yet known as it was.         *)
LEMMA RefinedClose ==
  ASSUME NEW f, FieldOf(f) \in [Cells -> Int], NEW k \in 1 .. NStage,
         NEW v \in [Cells -> Int], Close(f, v, k - 1)
  PROVE  Refined(v, k) \in [Cells -> Int] /\ Close(f, Refined(v, k), k)
<1>1. ASSUME NEW g \in Cells, Pat(k, g)
      PROVE  /\ Predict(v, k, g) \in Int
             /\ Value(Predict(v, k, g), Code(v, k, g)) \in Int
             /\ Abs(Value(Predict(v, k, g), Code(v, k, g)) - v[g]) <= EB
  <2>1. K(k).axis \in 1 .. 3 /\ K(k).unit \in Int /\ -K(k).unit \in Int
    BY Steps3
  <2>2. Shift(g, K(k).axis, -K(k).unit) \in Cells /\ Shift(g, K(k).axis, K(k).unit) \in Cells
    BY <2>1, ShiftIs
  <2> DEFINE p == Predict(v, k, g)
             x == v[Shift(g, K(k).axis, -K(k).unit)]
             y == v[Shift(g, K(k).axis, K(k).unit)]
  <2>3. x \in Int /\ y \in Int
    BY <2>2
  <2>4. p = Mean(x, y)
    BY DEF Predict
  <2> HIDE DEF x, y, p
  <2>5. p \in Int /\ v[g] \in Int
    BY <2>3, <2>4, Constants DEF Mean
  <2> DEFINE e == v[g] - p
             t == Steps(e)
  <2>6. e \in Int /\ v[g] = p + e
    BY <2>5
  <2> HIDE DEF e
  <2>7. t \in Int /\ Abs(e - t * (2 * EB)) <= EB /\ t * (2 * EB) \in Int
    BY <2>6, StepsBound
  <2>8. Code(v, k, g) = t + RADIUS
    BY DEF Code, e, p
  <2> HIDE DEF t
  <2>9. t + RADIUS \in Int /\ (t + RADIUS) - RADIUS = t /\ RADIUS \in Int /\ EB \in Int
    BY <2>7, Constants
  <2>10. Value(p, t + RADIUS) = p + t * 2 * EB
    BY <2>5, <2>9, Constants DEF Value
  <2>11. t * 2 * EB = t * (2 * EB)
    BY <2>7, <2>9
  <2> DEFINE q == t * (2 * EB)
  <2>12. q \in Int /\ Abs(e - q) <= EB /\ Value(p, t + RADIUS) = p + q
    BY <2>7, <2>10, <2>11
  <2> HIDE DEF q
  <2>13. p + q \in Int /\ Abs((p + q) - v[g]) <= EB
    BY <2>5, <2>6, <2>9, <2>12 DEF Abs
  <2>14. Value(Predict(v, k, g), Code(v, k, g)) = p + q
    BY <2>8, <2>12 DEF p
  <2> QED
    BY <2>5, <2>13, <2>14 DEF p
<1>2. \A g \in Cells : Refined(v, k)[g] = IF Pat(k, g) THEN Value(Predict(v, k, g), Code(v, k, g)) ELSE v[g]
  BY DEF Refined
<1>3. Refined(v, k) \in [Cells -> Int]
  <2>1. \A g \in Cells : (IF Pat(k, g) THEN Value(Predict(v, k, g), Code(v, k, g)) ELSE v[g]) \in Int
    BY <1>1
  <2> QED
    BY <2>1 DEF Refined
<1>4. ASSUME NEW g \in Cells
      PROVE  /\ Abs(Refined(v, k)[g] - FieldOf(f)[g]) <= EB
             /\ ~Known(k, g) => Refined(v, k)[g] = FieldOf(f)[g]
  <2>1. /\ Known(k, g) <=> Known(k - 1, g) \/ Pat(k, g)
        /\ ~(Known(k - 1, g) /\ Pat(k, g))
    BY Steps3
  <2>2. Abs(v[g] - FieldOf(f)[g]) <= EB /\ (~Known(k - 1, g) => v[g] = FieldOf(f)[g])
    BY DEF Close
  <2>3. CASE Pat(k, g)
    BY <1>1, <1>2, <2>1, <2>2, <2>3
  <2>4. CASE ~Pat(k, g)
    BY <1>2, <2>1, <2>2, <2>4
  <2> QED
    BY <2>3, <2>4
<1> QED
  BY <1>3, <1>4 DEF Close

(* There are ideal values, stage by stage.                                   *)
LEMMA IdealExists ==
  ASSUME NEW f, FieldOf(f) \in [Cells -> Int]
  PROVE  \E v : IdealTo(f, v, NStage)
<1> DEFINE S == {m \in 0 .. NStage : ~(\E v : IdealTo(f, v, m))}
<1>1. SUFFICES ASSUME S # {} PROVE FALSE
  <2>1. NStage \in 0 .. NStage
    BY NStageIs
  <2> QED
    BY <2>1, Zenon
<1>2. S \in SUBSET Nat
  <2>1. \A m \in S : m \in Nat
    BY DEF S
  <2> HIDE DEF S
  <2> QED
    BY <2>1
<1> HIDE DEF S
<1>3. PICK m \in S : \A k \in S : m <= k
  BY <1>1, <1>2, Least
<1>4. m \in 0 .. NStage /\ m \in Nat /\ ~(\E v : IdealTo(f, v, m))
  BY <1>3 DEF S
<1>5. m # 0
  <2> DEFINE v == [k \in 0 .. m |-> FieldOf(f)]
  <2>1. ASSUME m = 0 PROVE IdealTo(f, v, m)
    <3>1. v \in [0 .. m -> [Cells -> Int]] /\ \A k \in 0 .. m : v[k] = FieldOf(f) /\ k = 0
      BY <2>1
    <3>2. Close(f, FieldOf(f), 0)
      <4>1. \A g \in Cells : FieldOf(f)[g] \in Int
        OBVIOUS
      <4>2. \A x \in Int : Abs(x - x) <= EB
        BY Constants DEF Abs
      <4> QED
        BY <4>1, <4>2 DEF Close
    <3>3. 0 \in 0 .. m /\ 1 .. m = {}
      BY <2>1
    <3> HIDE DEF v
    <3> QED
      BY <3>1, <3>2, <3>3 DEF IdealTo
  <2> QED
    BY <1>4, <2>1
<1>6. m - 1 \in 0 .. NStage /\ m - 1 \notin S /\ m \in 1 .. NStage
  BY <1>3, <1>4, <1>5, NStageIs
<1>7. PICK v : IdealTo(f, v, m - 1)
  BY <1>6 DEF S
<1>8. /\ v \in [0 .. m - 1 -> [Cells -> Int]] /\ v[0] = FieldOf(f)
      /\ \A k \in 1 .. m - 1 : v[k] = Refined(v[k - 1], k)
      /\ \A k \in 0 .. m - 1 : Close(f, v[k], k)
  BY <1>7 DEF IdealTo
<1> DEFINE t == Refined(v[m - 1], m)
           u == [k \in 0 .. m |-> IF k = m THEN t ELSE v[k]]
<1>9. t \in [Cells -> Int] /\ Close(f, t, m)
  <2>1. v[m - 1] \in [Cells -> Int] /\ Close(f, v[m - 1], m - 1)
    BY <1>4, <1>5, <1>8
  <2> QED
    BY <1>6, <2>1, RefinedClose
<1>10. \A k \in 0 .. m : k # m => k \in 0 .. m - 1
  BY <1>4
<1> HIDE DEF t
<1>11. u \in [0 .. m -> [Cells -> Int]]
  BY <1>8, <1>9, <1>10
<1>12. u[0] = FieldOf(f) /\ \A k \in 0 .. m : u[k] = IF k = m THEN t ELSE v[k]
  BY <1>4, <1>5, <1>8
<1> HIDE DEF u
<1>13. \A k \in 0 .. m : Close(f, u[k], k)
  BY <1>8, <1>9, <1>10, <1>12
<1>14. ASSUME NEW k \in 1 .. m PROVE u[k] = Refined(u[k - 1], k)
  <2>1. k \in 0 .. m /\ k - 1 \in 0 .. m /\ k - 1 # m /\ (k # m => k \in 1 .. m - 1)
    BY <1>4
  <2>2. u[k - 1] = v[k - 1] /\ u[k] = IF k = m THEN t ELSE v[k]
    BY <1>12, <2>1
  <2>3. CASE k = m
    BY <2>2, <2>3 DEF t
  <2>4. CASE k # m
    BY <1>8, <2>1, <2>2, <2>4
  <2> QED
    BY <2>3, <2>4
<1>15. IdealTo(f, u, m)
  BY <1>11, <1>12, <1>13, <1>14 DEF IdealTo
<1> QED
  BY <1>4, <1>15

Ideal(f) == CHOOSE v : IdealTo(f, v, NStage)

(* A field, continued by 0.                                                  *)
LEMMA FieldIs ==
  ASSUME NEW f \in Fields
  PROVE  /\ FieldOf(f) \in [Cells -> Int] /\ Sized(f.len3) /\ \A d \in 1 .. 3 : f.len3[d] \in Nat \ {0}
         /\ DOMAIN f.data = Box(f.len3) /\ f.data \in [Box(f.len3) -> Int]
<1>1. /\ f.len3 \in (Nat \ {0}) \X (Nat \ {0}) \X (Nat \ {0})
      /\ f.data \in [(0 .. f.len3[1] - 1) \X (0 .. f.len3[2] - 1) \X (0 .. f.len3[3] - 1) -> Int]
  BY SplineAssumption
<1>2. f.data \in [Box(f.len3) -> Int]
  BY <1>1 DEF Box
<1>3. FieldOf(f) \in [Cells -> Int]
  BY <1>2 DEF FieldOf
<1>4. f.len3[1] \in Nat \ {0} /\ f.len3[2] \in Nat \ {0} /\ f.len3[3] \in Nat \ {0}
  BY <1>1
<1> QED
  BY <1>2, <1>3, <1>4 DEF Sized

(* The ideal values of a field are some.                                     *)
LEMMA IdealIs ==
  ASSUME NEW f \in Fields
  PROVE  IdealTo(f, Ideal(f), NStage)
BY FieldIs, IdealExists DEF Ideal

-----------------------------------------------------------------------------
(* The programs of the two kernels.                                         *)
Stages == {BLUE(u) : u \in {1, 2, 4}} \cup {YELLOW(u) : u \in {1, 2, 4}} \cup {HOLLOW(u) : u \in {1, 2, 4}}
Names  == {"c_reset", "x_reset", "load", "gather_anchor", "interpolate", "store", "sync"}
Lists(s, n) == s \in Seq(Names \X ({0} \cup Stages)) /\ Len(s) = n
Barrier == <<"sync", 0>>

(* A program of one stage.                                                   *)
LEMMA OneStage ==
  ASSUME NEW name \in Names, NEW arg \in {0} \cup Stages
  PROVE  Lists(Stage(name, arg), 1) /\ Stage(name, arg)[1] = <<name, arg>>
<1> HIDE DEF Stages, Names
<1> QED
  BY DEF Lists, Stage

(* A program of a barrier.                                                   *)
LEMMA OneSync == Lists(sync, 1) /\ sync[1] = Barrier
<1>1. "sync" \in Names /\ 0 \in {0} \cup Stages
  BY DEF Names
<1> HIDE DEF Stages, Names
<1> QED
  BY <1>1 DEF Lists, sync, Barrier

Glues(u, s, t, n, m) ==
  /\ Lists(u, n + m)
  /\ \A k \in 1 .. n : u[k] = s[k]
  /\ \A k \in 1 .. m : u[n + k] = t[k]

(* Two programs, one after the other.                                        *)
LEMMA Glued ==
  ASSUME NEW s, NEW t, NEW n \in Nat, NEW m \in Nat, Lists(s, n), Lists(t, m)
  PROVE  Glues(s \o t, s, t, n, m)
<1> DEFINE X == Names \X ({0} \cup Stages)
<1>1. s \in Seq(X) /\ Len(s) = n /\ t \in Seq(X) /\ Len(t) = m
  BY DEF Lists
<1> HIDE DEF X
<1>2. s \o t \in Seq(X) /\ Len(s \o t) = n + m
  BY <1>1
<1>3. \A k \in 1 .. n : (s \o t)[k] = s[k]
  BY <1>1
<1>4. \A k \in 1 .. m : (s \o t)[n + k] = t[k]
  <2>1. ASSUME NEW k \in 1 .. m PROVE (s \o t)[n + k] = t[k]
    <3>1. n + k \in 1 .. Len(s) + Len(t) /\ ~(n + k <= Len(s)) /\ n + k - Len(s) = k
      BY <1>1
    <3> QED
      BY <1>1, <3>1
  <2> QED
    BY <2>1
<1>5. Lists(s \o t, n + m)
  BY <1>2 DEF Lists, X
<1> QED
  BY <1>3, <1>4, <1>5 DEF Glues

(* A list followed by one stage and a barrier.                              *)
Extends(u, s, t, n) ==
  /\ Lists(u, n + 2) /\ \A k \in 1 .. n : u[k] = s[k]
  /\ u[n + 1] = t[1] /\ u[n + 2] = Barrier

(* A program with a stage and a barrier more.                                *)
LEMMA GluedStage ==
  ASSUME NEW s, NEW n \in Nat, Lists(s, n), NEW t, Lists(t, 1)
  PROVE  Extends(s \o t \o sync, s, t, n)
<1> DEFINE u == s \o t
           v == u \o sync
<1>1. Glues(u, s, t, n, 1)
  BY Glued
<1> HIDE DEF u
<1>2. Lists(u, n + 1) /\ (\A k \in 1 .. n : u[k] = s[k]) /\ u[n + 1] = t[1] /\ n + 1 \in Nat
  BY <1>1 DEF Glues
<1>3. Glues(v, u, sync, n + 1, 1)
  BY <1>2, OneSync, Glued
<1> HIDE DEF v
<1>4. Lists(v, n + 2) /\ (\A k \in 1 .. n + 1 : v[k] = u[k]) /\ v[n + 2] = Barrier
  <2>1. (n + 1) + 1 = n + 2
    OBVIOUS
  <2> QED
    BY <1>3, <2>1, OneSync DEF Glues
<1>5. Lists(v, n + 2) /\ (\A k \in 1 .. n : v[k] = s[k]) /\ v[n + 1] = t[1] /\ v[n + 2] = Barrier
  BY <1>2, <1>4
<1> QED
  BY <1>5 DEF v, u, Extends

IterationAt(s, u, n) ==
  /\ s[n + 1] = <<"interpolate", BLUE(u)>>   /\ s[n + 2] = Barrier
  /\ s[n + 3] = <<"interpolate", YELLOW(u)>> /\ s[n + 4] = Barrier
  /\ s[n + 5] = <<"interpolate", HOLLOW(u)>> /\ s[n + 6] = Barrier

(* The stages of a unit.                                                     *)
LEMMA IterationIs ==
  ASSUME NEW u \in {1, 2, 4}
  PROVE  Lists(iteration(u), 6) /\ IterationAt(iteration(u), u, 0)
<1> DEFINE a == Stage("interpolate", BLUE(u))
           b == Stage("interpolate", YELLOW(u))
           c == Stage("interpolate", HOLLOW(u))
           p2 == a \o sync
           p4 == p2 \o b \o sync
           p6 == p4 \o c \o sync
<1>1. /\ Lists(a, 1) /\ a[1] = <<"interpolate", BLUE(u)>>
      /\ Lists(b, 1) /\ b[1] = <<"interpolate", YELLOW(u)>>
      /\ Lists(c, 1) /\ c[1] = <<"interpolate", HOLLOW(u)>>
  <2>1. "interpolate" \in Names
    BY DEF Names
  <2>2. BLUE(u) \in Stages /\ YELLOW(u) \in Stages /\ HOLLOW(u) \in Stages
    BY DEF Stages
  <2> QED
    BY <2>1, <2>2, OneStage
<1>2. iteration(u) = p6
  BY DEF iteration
<1> HIDE DEF a, b, c
<1>3. Lists(p2, 2) /\ p2[1] = a[1] /\ p2[2] = Barrier
  <2>1. Glues(p2, a, sync, 1, 1)
    BY <1>1, OneSync, Glued
  <2> HIDE DEF p2
  <2> QED
    BY <2>1, OneSync DEF Glues
<1> HIDE DEF p2
<1>4. Lists(p4, 4) /\ p4[1] = a[1] /\ p4[2] = Barrier /\ p4[3] = b[1] /\ p4[4] = Barrier
  <2>1. Extends(p4, p2, b, 2)
    BY <1>1, <1>3, GluedStage
  <2> HIDE DEF p4
  <2> QED
    BY <1>3, <2>1 DEF Extends
<1> HIDE DEF p4
<1>5. /\ Lists(p6, 6) /\ p6[1] = a[1] /\ p6[2] = Barrier /\ p6[3] = b[1] /\ p6[4] = Barrier
      /\ p6[5] = c[1] /\ p6[6] = Barrier
  <2>1. Extends(p6, p4, c, 4)
    BY <1>1, <1>4, GluedStage
  <2> HIDE DEF p6
  <2> QED
    BY <1>4, <2>1 DEF Extends
<1> HIDE DEF p6
<1>6. IterationAt(p6, u, 0)
  BY <1>1, <1>5 DEF IterationAt
<1> QED
  BY <1>2, <1>5, <1>6

(* The recursion, unfolded.                                                  *)
LEMMA InterpolateIs ==
  /\ spline3d_layout2_interpolate[1] = iteration(1)
  /\ spline3d_layout2_interpolate[2] = iteration(2) \o iteration(1)
  /\ spline3d_layout2_interpolate[4] = iteration(4) \o (iteration(2) \o iteration(1))
<1> DEFINE D == {1, 2, 4}
           Eq(f) == f = [u \in D |-> IF u = 1 THEN iteration(1) ELSE iteration(u) \o f[u \div 2]]
           S == CHOOSE f : Eq(f)
           e1 == iteration(1)
           e2 == iteration(2) \o e1
           e4 == iteration(4) \o e2
           f == [u \in D |-> IF u = 1 THEN e1 ELSE IF u = 2 THEN e2 ELSE e4]
<1>1. f[1] = e1 /\ f[2] = e2 /\ f[4] = e4
  <2> HIDE DEF e1, e2, e4
  <2> QED
    OBVIOUS
<1>2. Eq(f)
  <2>1. 2 \div 2 = 1 /\ 4 \div 2 = 2
    OBVIOUS
  <2>2. \A u \in D : (IF u = 1 THEN e1 ELSE IF u = 2 THEN e2 ELSE e4)
                       = IF u = 1 THEN iteration(1) ELSE iteration(u) \o f[u \div 2]
    <3> HIDE DEF f
    <3> QED
      BY <1>1, <2>1
  <2> HIDE DEF e1, e2, e4
  <2> QED
    BY <2>2
<1> HIDE DEF f
<1>3. Eq(S)
  <2> HIDE DEF Eq
  <2> QED
    BY <1>2
<1>4. spline3d_layout2_interpolate = S
  BY DEF spline3d_layout2_interpolate
<1> HIDE DEF S
<1>5. S[1] = e1
  BY <1>3
<1>6. S[2] = iteration(2) \o S[1]
  <2>1. 2 \div 2 = 1
    OBVIOUS
  <2> QED
    BY <1>3, <2>1
<1>7. S[4] = iteration(4) \o S[2]
  <2>1. 4 \div 2 = 2
    OBVIOUS
  <2>2. S[4] = iteration(4) \o S[4 \div 2]
    <3>1. \A u \in D : S[u] = IF u = 1 THEN iteration(1) ELSE iteration(u) \o S[u \div 2]
      BY <1>3, Zenon
    <3>2. 4 \in D /\ 4 # 1
      OBVIOUS
    <3> QED
      BY <3>1, <3>2
  <2> QED
    BY <2>1, <2>2
<1> QED
  BY <1>4, <1>5, <1>6, <1>7

Interpolates(s) ==
  /\ Lists(s, 2 * NStage)
  /\ \A k \in 1 .. NStage : s[2 * k - 1] = <<"interpolate", K(k)>> /\ s[2 * k] = Barrier

(* The stages of interpolation, in their order.                              *)
LEMMA ProgramCore == Interpolates(spline3d_layout2_interpolate[UNIT])
<1> DEFINE e1 == iteration(1)
           e2 == iteration(2) \o e1
           e4 == iteration(4) \o e2
<1>1. Lists(e1, 6) /\ IterationAt(e1, 1, 0)
  BY IterationIs
<1> HIDE DEF e1
<1>2. Lists(e2, 12) /\ IterationAt(e2, 2, 0) /\ IterationAt(e2, 1, 6)
  <2> DEFINE i == iteration(2)
  <2>1. Lists(i, 6) /\ IterationAt(i, 2, 0)
    BY IterationIs
  <2> HIDE DEF i
  <2>2. Glues(i \o e1, i, e1, 6, 6)
    BY <1>1, <2>1, Glued
  <2>3. e2 = i \o e1
    BY DEF i
  <2> HIDE DEF e2
  <2>4. Lists(e2, 12) /\ (\A k \in 1 .. 6 : e2[k] = i[k]) /\ (\A k \in 1 .. 6 : e2[6 + k] = e1[k])
    <3>1. 6 + 6 = 12
      OBVIOUS
    <3> QED
      BY <2>2, <2>3, <3>1 DEF Glues
  <2> QED
    BY <1>1, <2>1, <2>4 DEF IterationAt
<1> HIDE DEF e2
<1>3. Lists(e4, 18) /\ IterationAt(e4, 4, 0) /\ IterationAt(e4, 2, 6) /\ IterationAt(e4, 1, 12)
  <2> DEFINE i == iteration(4)
  <2>1. Lists(i, 6) /\ IterationAt(i, 4, 0)
    BY IterationIs
  <2> HIDE DEF i
  <2>2. Glues(i \o e2, i, e2, 6, 12)
    BY <1>2, <2>1, Glued
  <2>3. e4 = i \o e2
    BY DEF i
  <2> HIDE DEF e4
  <2>4. Lists(e4, 18) /\ (\A k \in 1 .. 6 : e4[k] = i[k]) /\ (\A k \in 1 .. 12 : e4[6 + k] = e2[k])
    <3>1. 6 + 12 = 18
      OBVIOUS
    <3> QED
      BY <2>2, <2>3, <3>1 DEF Glues
  <2> QED
    BY <1>2, <2>1, <2>4 DEF IterationAt
<1> HIDE DEF e4
<1>4. /\ spline3d_layout2_interpolate[1] = e1
      /\ spline3d_layout2_interpolate[2] = e2
      /\ spline3d_layout2_interpolate[4] = e4
  BY InterpolateIs DEF e1, e2, e4
<1>5. CASE UNIT = 1
  <2>1. NStage = 3 /\ 1 .. NStage = {1, 2, 3}
    BY <1>5 DEF NStage
  <2>2. K(1) = BLUE(1) /\ K(2) = YELLOW(1) /\ K(3) = HOLLOW(1)
    BY <1>5 DEF K, Unit
  <2>3. \A k \in {1, 2, 3} : e1[2 * k - 1] = <<"interpolate", K(k)>> /\ e1[2 * k] = Barrier
    BY <1>1, <2>2 DEF IterationAt
  <2> QED
    BY <1>1, <1>4, <1>5, <2>1, <2>3 DEF Interpolates
<1>6. CASE UNIT = 2
  <2>1. NStage = 6 /\ 1 .. NStage = {1, 2, 3, 4, 5, 6}
    BY <1>6 DEF NStage
  <2>2. /\ K(1) = BLUE(2) /\ K(2) = YELLOW(2) /\ K(3) = HOLLOW(2)
        /\ K(4) = BLUE(1) /\ K(5) = YELLOW(1) /\ K(6) = HOLLOW(1)
    BY <1>6 DEF K, Unit
  <2>3. \A k \in {1, 2, 3, 4, 5, 6} : e2[2 * k - 1] = <<"interpolate", K(k)>> /\ e2[2 * k] = Barrier
    BY <1>2, <2>2 DEF IterationAt
  <2> QED
    BY <1>2, <1>4, <1>6, <2>1, <2>3 DEF Interpolates
<1>7. CASE UNIT = 4
  <2>1. NStage = 9 /\ 1 .. NStage = {1, 2, 3, 4, 5, 6, 7, 8, 9}
    BY <1>7 DEF NStage
  <2>2. /\ K(1) = BLUE(4) /\ K(2) = YELLOW(4) /\ K(3) = HOLLOW(4)
        /\ K(4) = BLUE(2) /\ K(5) = YELLOW(2) /\ K(6) = HOLLOW(2)
        /\ K(7) = BLUE(1) /\ K(8) = YELLOW(1) /\ K(9) = HOLLOW(1)
    BY <1>7 DEF K, Unit
  <2>3. \A k \in {1, 2, 3, 4, 5, 6, 7, 8, 9} : e4[2 * k - 1] = <<"interpolate", K(k)>> /\ e4[2 * k] = Barrier
    BY <1>3, <2>2 DEF IterationAt
  <2> QED
    BY <1>3, <1>4, <1>7, <2>1, <2>3 DEF Interpolates
<1> QED
  BY <1>5, <1>6, <1>7, Constants

ConstructProg(p) ==
  /\ Len(p) = 8 + 2 * NStage
  /\ p[1] = <<"c_reset", 0>> /\ p[3] = <<"load", 0>> /\ p[5] = <<"gather_anchor", 0>>
  /\ \A k \in 1 .. NStage : p[5 + 2 * k] = <<"interpolate", K(k)>>
  /\ p[7 + 2 * NStage] = <<"store", 0>>
  /\ \A j \in 1 .. 4 + NStage : p[2 * j] = Barrier

ReconstructProg(p) ==
  /\ Len(p) = 6 + 2 * NStage
  /\ p[1] = <<"x_reset", 0>> /\ p[3] = <<"load", 0>>
  /\ \A k \in 1 .. NStage : p[3 + 2 * k] = <<"interpolate", K(k)>>
  /\ p[5 + 2 * NStage] = <<"store", 0>>
  /\ \A j \in 1 .. 3 + NStage : p[2 * j] = Barrier

(* Compression's kernel, stage by stage.                                     *)
LEMMA ConstructIs == ConstructProg(c_spline3d)
<1> DEFINE a == Stage("c_reset", 0)
           b == Stage("load", 0)
           c == Stage("gather_anchor", 0)
           e == spline3d_layout2_interpolate[UNIT]
           o == Stage("store", 0)
           p2 == a \o sync
           p4 == p2 \o b \o sync
           p6 == p4 \o c \o sync
           p7 == p6 \o e
           p9 == p7 \o o \o sync
           n == NStage
<1>1. /\ Lists(a, 1) /\ a[1] = <<"c_reset", 0>> /\ Lists(b, 1) /\ b[1] = <<"load", 0>>
      /\ Lists(c, 1) /\ c[1] = <<"gather_anchor", 0>> /\ Lists(o, 1) /\ o[1] = <<"store", 0>>
  BY OneStage DEF Names
<1>2. /\ Lists(e, 2 * n) /\ n \in Nat
      /\ \A k \in 1 .. n : e[2 * k - 1] = <<"interpolate", K(k)>> /\ e[2 * k] = Barrier
  BY ProgramCore, NStageIs DEF Interpolates
<1>3. c_spline3d = p9
  BY DEF c_spline3d
<1> HIDE DEF a, b, c, e, o, n
<1>4. Lists(p2, 2) /\ p2[1] = a[1] /\ p2[2] = Barrier
  <2>1. Glues(p2, a, sync, 1, 1)
    BY <1>1, OneSync, Glued
  <2> HIDE DEF p2
  <2> QED
    BY <2>1, OneSync DEF Glues
<1> HIDE DEF p2
<1>5. Lists(p4, 4) /\ p4[1] = a[1] /\ p4[2] = Barrier /\ p4[3] = b[1] /\ p4[4] = Barrier
  <2>1. Extends(p4, p2, b, 2)
    BY <1>1, <1>4, GluedStage
  <2> HIDE DEF p4
  <2> QED
    BY <1>4, <2>1 DEF Extends
<1> HIDE DEF p4
<1>6. /\ Lists(p6, 6) /\ p6[1] = a[1] /\ p6[2] = Barrier /\ p6[3] = b[1] /\ p6[4] = Barrier
      /\ p6[5] = c[1] /\ p6[6] = Barrier
  <2>1. Extends(p6, p4, c, 4)
    BY <1>1, <1>5, GluedStage
  <2> HIDE DEF p6
  <2> QED
    BY <1>5, <2>1 DEF Extends
<1> HIDE DEF p6
<1>7. /\ Lists(p7, 6 + 2 * n) /\ \A k \in 1 .. 6 : p7[k] = p6[k]
      /\ \A k \in 1 .. 2 * n : p7[6 + k] = e[k]
  <2>1. Glues(p7, p6, e, 6, 2 * n)
    BY <1>2, <1>6, Glued
  <2> HIDE DEF p7
  <2> QED
    BY <2>1 DEF Glues
<1> HIDE DEF p7
<1>8. /\ Lists(p9, (6 + 2 * n) + 2) /\ \A k \in 1 .. 6 + 2 * n : p9[k] = p7[k]
      /\ p9[(6 + 2 * n) + 1] = o[1] /\ p9[(6 + 2 * n) + 2] = Barrier
  <2>1. 6 + 2 * n \in Nat
    BY <1>2
  <2>2. Extends(p9, p7, o, 6 + 2 * n)
    BY <1>1, <1>7, <2>1, GluedStage
  <2> HIDE DEF p9
  <2> QED
    BY <2>2 DEF Extends
<1> HIDE DEF p9
<1>9. Len(p9) = 8 + 2 * n /\ p9[7 + 2 * n] = o[1] /\ p9[8 + 2 * n] = Barrier
  <2>1. (6 + 2 * n) + 2 = 8 + 2 * n /\ (6 + 2 * n) + 1 = 7 + 2 * n
    BY <1>2
  <2> QED
    BY <1>8, <2>1 DEF Lists
<1>10. \A k \in 1 .. 6 : p9[k] = p6[k]
  BY <1>2, <1>7, <1>8
<1>11. \A k \in 1 .. 2 * n : p9[6 + k] = e[k]
  <2>1. ASSUME NEW k \in 1 .. 2 * n PROVE p9[6 + k] = e[k]
    <3>1. 6 + k \in 1 .. 6 + 2 * n
      BY <1>2
    <3> QED
      BY <1>7, <1>8, <3>1
  <2> QED
    BY <2>1
<1>12. ASSUME NEW k \in 1 .. n PROVE p9[5 + 2 * k] = <<"interpolate", K(k)>> /\ p9[6 + 2 * k] = Barrier
  <2>1. 2 * k - 1 \in 1 .. 2 * n /\ 2 * k \in 1 .. 2 * n /\ 6 + (2 * k - 1) = 5 + 2 * k
    BY <1>2
  <2>2. p9[6 + (2 * k - 1)] = e[2 * k - 1] /\ p9[6 + 2 * k] = e[2 * k]
    BY <1>11, <2>1
  <2> QED
    BY <1>2, <2>1, <2>2
<1>13. ASSUME NEW j \in 1 .. 4 + n PROVE p9[2 * j] = Barrier
  <2>1. j = 1 \/ j = 2 \/ j = 3 \/ j = 4 + n \/ j - 3 \in 1 .. n
    BY <1>2
  <2>2. ASSUME j - 3 \in 1 .. n PROVE p9[2 * j] = Barrier
    <3>1. 6 + 2 * (j - 3) = 2 * j
      BY <1>2
    <3> QED
      BY <1>12, <2>2, <3>1
  <2>3. ASSUME j = 4 + n PROVE p9[2 * j] = Barrier
    <3>1. 2 * j = 8 + 2 * n
      BY <1>2, <2>3
    <3> QED
      BY <1>9, <3>1
  <2>4. p9[2] = Barrier /\ p9[4] = Barrier /\ p9[6] = Barrier
    BY <1>6, <1>10
  <2> QED
    BY <2>1, <2>2, <2>3, <2>4
<1>14. p9[1] = a[1] /\ p9[3] = b[1] /\ p9[5] = c[1]
  BY <1>6, <1>10
<1>15. ConstructProg(p9)
  BY <1>1, <1>9, <1>12, <1>13, <1>14 DEF ConstructProg, n
<1> QED
  BY <1>3, <1>15

(* Decompression's kernel, stage by stage.                                   *)
LEMMA ReconstructIs == ReconstructProg(x_spline3d)
<1> DEFINE a == Stage("x_reset", 0)
           b == Stage("load", 0)
           e == spline3d_layout2_interpolate[UNIT]
           o == Stage("store", 0)
           p2 == a \o sync
           p4 == p2 \o b \o sync
           p7 == p4 \o e
           p9 == p7 \o o \o sync
           n == NStage
<1>1. /\ Lists(a, 1) /\ a[1] = <<"x_reset", 0>> /\ Lists(b, 1) /\ b[1] = <<"load", 0>>
      /\ Lists(o, 1) /\ o[1] = <<"store", 0>>
  BY OneStage DEF Names
<1>2. /\ Lists(e, 2 * n) /\ n \in Nat
      /\ \A k \in 1 .. n : e[2 * k - 1] = <<"interpolate", K(k)>> /\ e[2 * k] = Barrier
  BY ProgramCore, NStageIs DEF Interpolates
<1>3. x_spline3d = p9
  BY DEF x_spline3d
<1> HIDE DEF a, b, e, o, n
<1>4. Lists(p2, 2) /\ p2[1] = a[1] /\ p2[2] = Barrier
  <2>1. Glues(p2, a, sync, 1, 1)
    BY <1>1, OneSync, Glued
  <2> HIDE DEF p2
  <2> QED
    BY <2>1, OneSync DEF Glues
<1> HIDE DEF p2
<1>5. Lists(p4, 4) /\ p4[1] = a[1] /\ p4[2] = Barrier /\ p4[3] = b[1] /\ p4[4] = Barrier
  <2>1. Extends(p4, p2, b, 2)
    BY <1>1, <1>4, GluedStage
  <2> HIDE DEF p4
  <2> QED
    BY <1>4, <2>1 DEF Extends
<1> HIDE DEF p4
<1>7. /\ Lists(p7, 4 + 2 * n) /\ \A k \in 1 .. 4 : p7[k] = p4[k]
      /\ \A k \in 1 .. 2 * n : p7[4 + k] = e[k]
  <2>1. Glues(p7, p4, e, 4, 2 * n)
    BY <1>2, <1>5, Glued
  <2> HIDE DEF p7
  <2> QED
    BY <2>1 DEF Glues
<1> HIDE DEF p7
<1>8. /\ Lists(p9, (4 + 2 * n) + 2) /\ \A k \in 1 .. 4 + 2 * n : p9[k] = p7[k]
      /\ p9[(4 + 2 * n) + 1] = o[1] /\ p9[(4 + 2 * n) + 2] = Barrier
  <2>1. 4 + 2 * n \in Nat
    BY <1>2
  <2>2. Extends(p9, p7, o, 4 + 2 * n)
    BY <1>1, <1>7, <2>1, GluedStage
  <2> HIDE DEF p9
  <2> QED
    BY <2>2 DEF Extends
<1> HIDE DEF p9
<1>9. Len(p9) = 6 + 2 * n /\ p9[5 + 2 * n] = o[1] /\ p9[6 + 2 * n] = Barrier
  <2>1. (4 + 2 * n) + 2 = 6 + 2 * n /\ (4 + 2 * n) + 1 = 5 + 2 * n
    BY <1>2
  <2> QED
    BY <1>8, <2>1 DEF Lists
<1>10. \A k \in 1 .. 4 : p9[k] = p4[k]
  BY <1>2, <1>7, <1>8
<1>11. \A k \in 1 .. 2 * n : p9[4 + k] = e[k]
  <2>1. ASSUME NEW k \in 1 .. 2 * n PROVE p9[4 + k] = e[k]
    <3>1. 4 + k \in 1 .. 4 + 2 * n
      BY <1>2
    <3> QED
      BY <1>7, <1>8, <3>1
  <2> QED
    BY <2>1
<1>12. ASSUME NEW k \in 1 .. n PROVE p9[3 + 2 * k] = <<"interpolate", K(k)>> /\ p9[4 + 2 * k] = Barrier
  <2>1. 2 * k - 1 \in 1 .. 2 * n /\ 2 * k \in 1 .. 2 * n /\ 4 + (2 * k - 1) = 3 + 2 * k
    BY <1>2
  <2>2. p9[4 + (2 * k - 1)] = e[2 * k - 1] /\ p9[4 + 2 * k] = e[2 * k]
    BY <1>11, <2>1
  <2> QED
    BY <1>2, <2>1, <2>2
<1>13. ASSUME NEW j \in 1 .. 3 + n PROVE p9[2 * j] = Barrier
  <2>1. j = 1 \/ j = 2 \/ j = 3 + n \/ j - 2 \in 1 .. n
    BY <1>2
  <2>2. ASSUME j - 2 \in 1 .. n PROVE p9[2 * j] = Barrier
    <3>1. 4 + 2 * (j - 2) = 2 * j
      BY <1>2
    <3> QED
      BY <1>12, <2>2, <3>1
  <2>3. ASSUME j = 3 + n PROVE p9[2 * j] = Barrier
    <3>1. 2 * j = 6 + 2 * n
      BY <1>2, <2>3
    <3> QED
      BY <1>9, <3>1
  <2>4. p9[2] = Barrier /\ p9[4] = Barrier
    BY <1>5, <1>10
  <2> QED
    BY <2>1, <2>2, <2>3, <2>4
<1>14. p9[1] = a[1] /\ p9[3] = b[1]
  BY <1>5, <1>10
<1>15. ReconstructProg(p9)
  BY <1>1, <1>9, <1>12, <1>13, <1>14 DEF ReconstructProg, n
<1> QED
  BY <1>3, <1>15

-----------------------------------------------------------------------------
(* Blocks on the field.                                                     *)
Blocks(f)     == divide3(f.len3, SUBLEN)
Aligned(f)    == [d \in 1 .. 3 |-> Blocks(f)[d] * SUBLEN[d]]
AnchorLen(f)  == divide3(f.len3, <<BLOCK, BLOCK, BLOCK>>)
NBlocks(f)    == Blocks(f)[1] * Blocks(f)[2] * Blocks(f)[3]
Lay(f, b, c)  == [d \in 1 .. 3 |-> c[d] + CellOf(Blocks(f), b)[d] * SUBLEN[d]]
Inner(f, g)   == \A d \in 1 .. 3 : ((g[d] + BLOCK - 1) \div BLOCK) * BLOCK < Aligned(f)[d]

(* The lengths, of the field alone.                                          *)
LEMMA Geometry ==
  /\ nblock = Blocks(field) /\ aligned_len3 = Aligned(field) /\ anchor_len3 = AnchorLen(field)
  /\ NBlock = NBlocks(field)
<1>1. nblock = Blocks(field)
  BY DEF nblock, Blocks
<1>2. aligned_len3 = Aligned(field)
  BY <1>1 DEF aligned_len3, Aligned
<1> QED
  BY <1>1, <1>2 DEF anchor_len3, AnchorLen, NBlock, NBlocks

(* Where a cell of the block lies in the field.                              *)
LEMMA OfCells ==
  /\ \A c : Global(c) = Lay(field, block, c)
  /\ \A g : FromStored(g) <=> Inner(field, g)
<1>1. BlockId = CellOf(Blocks(field), block)
  BY Geometry DEF BlockId, CellOf
<1>2. \A c : Global(c) = Lay(field, block, c)
  BY <1>1 DEF Global, Lay
<1>3. \A g : FromStored(g) <=> Inner(field, g)
  BY Geometry DEF FromStored, Inner
<1> QED
  BY <1>2, <1>3

(* Blocks cover an axis.                                                    *)
LEMMA AxisBlocks ==
  ASSUME NEW l \in Nat \ {0}, NEW s \in Nat \ {0}
  PROVE  /\ (l - 1) \div s + 1 \in Nat \ {0} /\ ((l - 1) \div s + 1) * s >= l
         /\ ((l - 1) \div s + 1) * s \in Nat
<1> DEFINE q == (l - 1) \div s
           r == (l - 1) % s
<1>1. q \in Nat /\ r \in 0 .. s - 1 /\ l - 1 = q * s + r
  <2> DEFINE m == l - 1
  <2>1. m \in Nat
    OBVIOUS
  <2> HIDE DEF m
  <2>2. m \div s \in Nat /\ m % s \in 0 .. s - 1 /\ m = (m \div s) * s + (m % s)
    BY <2>1, Division
  <2> QED
    BY <2>2 DEF m
<1> HIDE DEF q, r
<1>2. (q + 1) * s = q * s + s /\ q * s \in Nat
  BY <1>1
<1> DEFINE p == q * s
           t == (q + 1) * s
<1>3. t = p + s /\ p \in Nat /\ l - 1 = p + r
  BY <1>1, <1>2
<1> HIDE DEF p, t
<1>4. t >= l /\ t \in Nat
  BY <1>1, <1>3
<1> QED
  BY <1>1, <1>4 DEF q, t

(* The lengths are positive, and the blocks cover the field.                 *)
LEMMA BlocksAre ==
  ASSUME NEW f \in Fields
  PROVE  /\ Sized(Blocks(f)) /\ Sized(Aligned(f)) /\ Sized(AnchorLen(f))
         /\ \A d \in 1 .. 3 : /\ Blocks(f)[d] \in Nat \ {0} /\ AnchorLen(f)[d] \in Nat \ {0}
                              /\ Aligned(f)[d] \in Nat /\ f.len3[d] <= Aligned(f)[d]
                              /\ Aligned(f)[d] = Blocks(f)[d] * SUBLEN[d]
                              /\ AnchorLen(f)[d] = (f.len3[d] - 1) \div BLOCK + 1
         /\ NBlocks(f) \in Nat \ {0}
<1> DEFINE A3 == <<BLOCK, BLOCK, BLOCK>>
<1>1. ASSUME NEW d \in 1 .. 3
      PROVE  /\ Blocks(f)[d] \in Nat \ {0} /\ AnchorLen(f)[d] \in Nat \ {0}
             /\ Aligned(f)[d] \in Nat /\ f.len3[d] <= Aligned(f)[d]
             /\ Aligned(f)[d] = Blocks(f)[d] * SUBLEN[d]
             /\ AnchorLen(f)[d] = (f.len3[d] - 1) \div BLOCK + 1
  <2> DEFINE l == f.len3[d]
             s == SUBLEN[d]
  <2>1. l \in Nat \ {0} /\ s \in Nat \ {0} /\ BLOCK \in Nat \ {0}
    BY FieldIs, SublenIs, BlockIs
  <2>2. Blocks(f)[d] = (l - 1) \div s + 1 /\ Aligned(f)[d] = Blocks(f)[d] * s
    BY DEF Blocks, Aligned, divide3
  <2>3. A3[d] = BLOCK
    OBVIOUS
  <2>4. AnchorLen(f)[d] = (l - 1) \div BLOCK + 1
    BY <2>3 DEF AnchorLen, divide3
  <2> HIDE DEF l, s
  <2>5. /\ (l - 1) \div s + 1 \in Nat \ {0} /\ ((l - 1) \div s + 1) * s >= l
        /\ ((l - 1) \div s + 1) * s \in Nat
    BY <2>1, AxisBlocks
  <2>6. (l - 1) \div BLOCK + 1 \in Nat \ {0}
    BY <2>1, AxisBlocks
  <2>7. Blocks(f)[d] \in Nat \ {0} /\ AnchorLen(f)[d] \in Nat \ {0} /\ Aligned(f)[d] \in Nat
         /\ l <= Aligned(f)[d]
    BY <2>1, <2>2, <2>4, <2>5, <2>6
  <2> QED
    BY <2>2, <2>4, <2>7 DEF l, s
<1>2. Blocks(f)[1] \in Nat \ {0} /\ Blocks(f)[2] \in Nat \ {0} /\ Blocks(f)[3] \in Nat \ {0}
  BY <1>1
<1>3. NBlocks(f) \in Nat \ {0}
  <2> DEFINE x == Blocks(f)[1]
             y == Blocks(f)[2]
             z == Blocks(f)[3]
  <2>1. NBlocks(f) = (x * y) * z
    BY DEF NBlocks
  <2>2. x \in Nat \ {0} /\ y \in Nat \ {0} /\ z \in Nat \ {0}
    BY <1>2
  <2> HIDE DEF x, y, z
  <2>3. x * y \in Nat \ {0}
    BY <2>2
  <2> DEFINE p == x * y
  <2>4. p \in Nat \ {0}
    BY <2>3
  <2> HIDE DEF p
  <2>5. p * z \in Nat \ {0}
    BY <2>2, <2>4
  <2> QED
    BY <2>1, <2>5 DEF p
<1> QED
  BY <1>1, <1>2, <1>3 DEF Sized

(* Where a block lies, a whole number of anchors from the field's corner.    *)
LEMMA LayIs ==
  ASSUME NEW f \in Fields, NEW b \in 0 .. NBlocks(f) - 1, NEW c \in Cells
  PROVE  /\ Lay(f, b, c) \in Cells
         /\ \E o \in Cells : \A d \in 1 .. 3 : Lay(f, b, c)[d] = c[d] + o[d] /\ o[d] % BLOCK = 0 /\ o[d] \in Nat
                                            /\ o[d] + SUBLEN[d] <= Aligned(f)[d]
<1> DEFINE k == CellOf(Blocks(f), b)
           o == [d \in 1 .. 3 |-> k[d] * SUBLEN[d]]
<1>1. k \in Box(Blocks(f))
  BY BlocksAre, CellOfIs DEF NBlocks
<1>2. \A d \in 1 .. 3 : k[d] \in 0 .. Blocks(f)[d] - 1
  BY <1>1, BlocksAre, BoxIs DEF Sized
<1>3. \A d \in 1 .. 3 : Lay(f, b, c)[d] = c[d] + k[d] * SUBLEN[d]
  BY DEF Lay
<1> HIDE DEF k
<1>4. ASSUME NEW d \in 1 .. 3
      PROVE  o[d] \in Nat /\ o[d] % BLOCK = 0 /\ o[d] + SUBLEN[d] <= Aligned(f)[d]
  <2> DEFINE q == k[d]
             s == SUBLEN[d]
             m == Blocks(f)[d]
  <2>1. q \in Nat /\ q < m /\ m \in Nat \ {0} /\ s \in Nat \ {0} /\ s % BLOCK = 0 /\ BLOCK \in {2, 4, 8}
    BY <1>2, BlocksAre, SublenIs, BlockIs
  <2>2. o[d] = q * s /\ Aligned(f)[d] = m * s
    BY BlocksAre
  <2> HIDE DEF q, s, m
  <2>3. q * s + s <= m * s /\ q * s \in Nat
    BY <2>1, ProductOrder
  <2>4. (q * s) % BLOCK = 0
    <3> DEFINE t == s \div BLOCK
    <3>1. s = t * BLOCK /\ t \in Nat
      BY <2>1
    <3> HIDE DEF t
    <3>2. q * s = (q * t) * BLOCK
      <4>1. \A x \in {2, 4, 8} : q * (t * x) = (q * t) * x
        BY <2>1, <3>1
      <4> QED
        BY <2>1, <3>1, <4>1
    <3> DEFINE p == q * t
    <3>3. p \in Nat
      BY <2>1, <3>1
    <3> HIDE DEF p
    <3>4. (p * BLOCK) % BLOCK = 0
      BY <2>1, <3>3
    <3> QED
      BY <3>2, <3>4 DEF p
  <2> QED
    BY <2>2, <2>3, <2>4 DEF s
<1>5. \A d \in 1 .. 3 : o[d] \in Int /\ c[d] \in Int
  <2>1. \A d \in 1 .. 3 : c[d] \in Int
    BY DEF Cells
  <2> QED
    BY <1>4, <2>1
<1>6. o \in Cells
  <2>1. o[1] \in Int /\ o[2] \in Int /\ o[3] \in Int
    BY <1>5
  <2>2. o = <<o[1], o[2], o[3]>>
    OBVIOUS
  <2> HIDE DEF o
  <2> QED
    BY <2>1, <2>2 DEF Cells
<1>7. \A d \in 1 .. 3 : Lay(f, b, c)[d] = c[d] + o[d]
  BY <1>3
<1> HIDE DEF o
<1>8. Lay(f, b, c) \in Cells
  <2> DEFINE g == Lay(f, b, c)
  <2>1. g[1] \in Int /\ g[2] \in Int /\ g[3] \in Int
    BY <1>5, <1>7
  <2>2. g = <<g[1], g[2], g[3]>>
    BY DEF Lay
  <2> HIDE DEF g
  <2> QED
    BY <2>1, <2>2 DEF Cells, g
<1> QED
  BY <1>4, <1>6, <1>7, <1>8

(* A block's place does not change what is on a grid.                        *)
LEMMA AxisMoved ==
  ASSUME NEW t \in {1, 2, 4, 8}, BLOCK % t = 0, NEW x \in Int, NEW o \in Int, o % BLOCK = 0
  PROVE  (x + o) % t = 0 <=> x % t = 0
<1>1. BLOCK \in {2, 4, 8}
  BY BlockIs
<1>2. CASE BLOCK = 2
  BY <1>2
<1>3. CASE BLOCK = 4
  BY <1>3
<1>4. CASE BLOCK = 8
  BY <1>4
<1> QED
  BY <1>1, <1>2, <1>3, <1>4

(* A block sees the stages' patterns where they lie on the field.            *)
LEMMA LayPattern ==
  ASSUME NEW f \in Fields, NEW b \in 0 .. NBlocks(f) - 1, NEW c \in Cells, NEW k \in 1 .. NStage
  PROVE  /\ Pat(k, Lay(f, b, c)) <=> Pat(k, c)
         /\ Known(k - 1, Lay(f, b, c)) <=> Known(k - 1, c)
         /\ Lay(f, b, Shift(c, K(k).axis, K(k).unit)) = Shift(Lay(f, b, c), K(k).axis, K(k).unit)
         /\ Lay(f, b, Shift(c, K(k).axis, -K(k).unit)) = Shift(Lay(f, b, c), K(k).axis, -K(k).unit)
<1> DEFINE g == Lay(f, b, c)
           s == K(k)
<1>1. PICK o \in Cells : \A d \in 1 .. 3 : g[d] = c[d] + o[d] /\ o[d] % BLOCK = 0
  BY LayIs
<1>2. g \in Cells
  BY LayIs
<1>3. \A d \in 1 .. 3 : c[d] \in Int /\ o[d] \in Int
  BY DEF Cells
<1>4. ASSUME NEW d \in 1 .. 3
      PROVE  s.step[d] \in {1, 2, 4, 8} /\ BLOCK % s.step[d] = 0 /\ s.from[d] \in Int
  <2>1. Fits(s.unit) /\ Along(s, d, k = NStage)
    BY Shape
  <2> DEFINE t == s.step[d]
             u == s.unit
  <2>2. Fits(u) /\ t \in {u, 2 * u} /\ (s.from[d] = 0 \/ s.from[d] = u)
    BY <2>1 DEF Along
  <2> HIDE DEF t, u, s
  <2>3. u \in {1, 2, 4} /\ (BLOCK = 2 * u \/ BLOCK = 4 * u \/ BLOCK = 8 * u)
    BY <2>2 DEF Fits
  <2>4. t \in {1, 2, 4, 8} /\ BLOCK % t = 0
    BY <2>2, <2>3
  <2> QED
    BY <2>2, <2>3, <2>4 DEF t
<1>5. \A h \in Cells : Known(k - 1, h) <=> \A d \in 1 .. 3 : h[d] % s.step[d] = 0
  <2>1. k - 1 # NStage /\ (k - 1) + 1 = k
    BY NStageIs
  <2>2. 1 .. 3 = {1, 2, 3}
    OBVIOUS
  <2> QED
    BY <2>1, <2>2 DEF Known, OnGrid
<1>6. \A h \in Cells : Pat(k, h) <=> \A d \in 1 .. 3 : (h[d] - s.from[d]) % s.step[d] = 0
  BY PatIs
<1> HIDE DEF g, s
<1>7. ASSUME NEW d \in 1 .. 3
      PROVE  /\ g[d] % s.step[d] = 0 <=> c[d] % s.step[d] = 0
             /\ (g[d] - s.from[d]) % s.step[d] = 0 <=> (c[d] - s.from[d]) % s.step[d] = 0
  <2> DEFINE x == c[d]
             y == o[d]
             t == s.step[d]
             m == s.from[d]
  <2>1. x \in Int /\ y \in Int /\ t \in {1, 2, 4, 8} /\ m \in Int /\ y % BLOCK = 0 /\ BLOCK % t = 0 /\ g[d] = x + y
    BY <1>1, <1>3, <1>4
  <2> HIDE DEF x, y, t, m
  <2>2. (x + y) % t = 0 <=> x % t = 0
    BY <2>1, AxisMoved
  <2>3. x - m \in Int /\ (x + y) - m = (x - m) + y
    BY <2>1
  <2>4. ((x - m) + y) % t = 0 <=> (x - m) % t = 0
    BY <2>1, <2>3, AxisMoved
  <2>5. (g[d] - m) = (x - m) + y
    BY <2>1, <2>3
  <2>6. (g[d] % t = 0 <=> x % t = 0) /\ ((g[d] - m) % t = 0 <=> (x - m) % t = 0)
    BY <2>1, <2>2, <2>4, <2>5
  <2> QED
    BY <2>6 DEF x, t, m
<1>8. (Pat(k, g) <=> Pat(k, c)) /\ (Known(k - 1, g) <=> Known(k - 1, c))
  BY <1>2, <1>5, <1>6, <1>7
<1>9. s.axis \in 1 .. 3 /\ s.unit \in Int /\ -s.unit \in Int
  <2>1. s.axis \in 1 .. 3 /\ s.unit \in {1, 2, 4}
    BY Shape DEF Fits, s
  <2> QED
    BY <2>1
<1>10. ASSUME NEW n \in Int PROVE Lay(f, b, Shift(c, s.axis, n)) = Shift(g, s.axis, n)
  <2> DEFINE e == Shift(c, s.axis, n)
             h == Lay(f, b, e)
             p == Shift(g, s.axis, n)
             q == CellOf(Blocks(f), b)
  <2>1. e \in Cells /\ \A d \in 1 .. 3 : e[d] = IF d = s.axis THEN c[d] + n ELSE c[d]
    BY <1>9, ShiftIs
  <2>2. p \in Cells /\ \A d \in 1 .. 3 : p[d] = IF d = s.axis THEN g[d] + n ELSE g[d]
    BY <1>2, <1>9, ShiftIs
  <2>3. /\ \A d \in 1 .. 3 : h[d] = e[d] + q[d] * SUBLEN[d]
        /\ \A d \in 1 .. 3 : g[d] = c[d] + q[d] * SUBLEN[d]
    BY DEF Lay, g
  <2> HIDE DEF e
  <2>4. h \in Cells
    BY <2>1, LayIs
  <2>5. \A d \in 1 .. 3 : q[d] * SUBLEN[d] \in Int
    <3>1. q \in Box(Blocks(f))
      BY BlocksAre, CellOfIs DEF NBlocks
    <3>2. \A d \in 1 .. 3 : q[d] \in 0 .. Blocks(f)[d] - 1
      BY <3>1, BlocksAre, BoxIs DEF Sized
    <3> HIDE DEF q
    <3>3. \A d \in 1 .. 3 : q[d] \in Int /\ SUBLEN[d] \in Int
      BY <3>2, BlocksAre, SublenIs
    <3> QED
      BY <3>3
  <2> HIDE DEF h, p, q
  <2>6. ASSUME NEW d \in 1 .. 3 PROVE h[d] = p[d]
    <3> DEFINE z == q[d] * SUBLEN[d]
    <3>1. z \in Int /\ c[d] \in Int /\ h[d] = e[d] + z /\ g[d] = c[d] + z
      BY <1>3, <2>3, <2>5
    <3> HIDE DEF z
    <3> QED
      BY <2>1, <2>2, <3>1
  <2>7. h = p
    BY <2>2, <2>4, <2>6, SameCell
  <2> QED
    BY <2>7 DEF h, p, e
<1> QED
  BY <1>8, <1>9, <1>10 DEF g, s

-----------------------------------------------------------------------------
(* What is stored of a cell is stored of the cells it is interpolated from.  *)
LEMMA AxisInner ==
  ASSUME NEW u, Fits(u), NEW x \in Int, (x - u) % (2 * u) = 0
  PROVE  /\ ((x + u + BLOCK - 1) \div BLOCK) * BLOCK <= ((x + BLOCK - 1) \div BLOCK) * BLOCK
         /\ (((x - u) + BLOCK - 1) \div BLOCK) * BLOCK <= ((x + BLOCK - 1) \div BLOCK) * BLOCK
<1>1. \/ u = 1 /\ BLOCK = 2
      \/ u = 1 /\ BLOCK = 4
      \/ u = 1 /\ BLOCK = 8
      \/ u = 2 /\ BLOCK = 4
      \/ u = 2 /\ BLOCK = 8
      \/ u = 4 /\ BLOCK = 8
  BY BlockIs DEF Fits
<1>2. CASE u = 1 /\ BLOCK = 2
  BY <1>2
<1>3. CASE u = 1 /\ BLOCK = 4
  BY <1>3
<1>4. CASE u = 1 /\ BLOCK = 8
  BY <1>4
<1>5. CASE u = 2 /\ BLOCK = 4
  BY <1>5
<1>6. CASE u = 2 /\ BLOCK = 8
  BY <1>6
<1>7. CASE u = 4 /\ BLOCK = 8
  BY <1>7
<1> QED
  BY <1>1, <1>2, <1>3, <1>4, <1>5, <1>6, <1>7

UpTo(x) == ((x + BLOCK - 1) \div BLOCK) * BLOCK

(* Rounding up to an anchor.                                                 *)
LEMMA UpToIs ==
  ASSUME NEW x \in Int
  PROVE  UpTo(x) \in Int /\ x <= UpTo(x)
<1>1. BLOCK \in {2, 4, 8}
  BY BlockIs
<1>2. CASE BLOCK = 2
  BY <1>2 DEF UpTo
<1>3. CASE BLOCK = 4
  BY <1>3 DEF UpTo
<1>4. CASE BLOCK = 8
  BY <1>4 DEF UpTo
<1> QED
  BY <1>1, <1>2, <1>3, <1>4

(* The neighbours of what comes from stored codes do so too.                 *)
LEMMA InnerKept ==
  ASSUME NEW f \in Fields, NEW k \in 1 .. NStage, NEW g \in Cells, Pat(k, g), Inner(f, g)
  PROVE  /\ Inner(f, Shift(g, K(k).axis, K(k).unit))
         /\ Inner(f, Shift(g, K(k).axis, -K(k).unit))
<1> DEFINE s == K(k)
           a == s.axis
           u == s.unit
<1>1. Fits(u) /\ a \in 1 .. 3 /\ u \in {1, 2, 4} /\ s.from[a] = u /\ s.step[a] = 2 * u
  BY Shape DEF Along, Fits
<1>2. (g[a] - u) % (2 * u) = 0
  BY <1>1, PatIs
<1>3. \A d \in 1 .. 3 : g[d] \in Int
  BY DEF Cells
<1>4. \A d \in 1 .. 3 : UpTo(g[d]) < Aligned(f)[d] /\ Aligned(f)[d] \in Int
  BY BlocksAre DEF Inner, UpTo
<1> HIDE DEF s, a, u
<1>5. UpTo(g[a] + u) <= UpTo(g[a]) /\ UpTo(g[a] - u) <= UpTo(g[a])
  <2> DEFINE x == g[a]
  <2>1. x \in Int /\ (x - u) % (2 * u) = 0
    BY <1>1, <1>2, <1>3
  <2> HIDE DEF x
  <2>2. UpTo(x + u) <= UpTo(x) /\ UpTo(x - u) <= UpTo(x)
    BY <1>1, <2>1, AxisInner, ZenonT(40) DEF UpTo
  <2> QED
    BY <2>2 DEF x
<1>6. ASSUME NEW n \in Int, UpTo(g[a] + n) <= UpTo(g[a]) PROVE Inner(f, Shift(g, a, n))
  <2>1. \A d \in 1 .. 3 : Shift(g, a, n)[d] = IF d = a THEN g[d] + n ELSE g[d]
    BY <1>1, ShiftIs
  <2>2. ASSUME NEW d \in 1 .. 3 PROVE UpTo(Shift(g, a, n)[d]) < Aligned(f)[d]
    <3>1. CASE d = a
      <4>1. UpTo(g[a] + n) \in Int /\ UpTo(g[a]) \in Int
        BY <1>1, <1>3, UpToIs
      <4> QED
        BY <1>1, <1>4, <1>6, <2>1, <3>1, <4>1
    <3>2. CASE d # a
      BY <1>4, <2>1, <3>2
    <3> QED
      BY <3>1, <3>2
  <2> QED
    BY <2>2 DEF Inner, UpTo
<1>7. u \in Int /\ -u \in Int /\ g[a] + -u = g[a] - u
  BY <1>1, <1>3
<1>8. Inner(f, Shift(g, a, u)) /\ Inner(f, Shift(g, a, -u))
  BY <1>5, <1>6, <1>7
<1> QED
  BY <1>8 DEF a, u, s

(* What comes from stored codes has a code.                                  *)
LEMMA InnerInside ==
  ASSUME NEW f \in Fields, NEW g \in Cells, \A d \in 1 .. 3 : g[d] >= 0, Inner(f, g)
  PROVE  g \in Box(Aligned(f)) /\ Within(g, Aligned(f))
<1>1. ASSUME NEW d \in 1 .. 3 PROVE g[d] \in 0 .. Aligned(f)[d] - 1 /\ g[d] < Aligned(f)[d]
  <2>1. g[d] \in Int /\ g[d] >= 0 /\ Aligned(f)[d] \in Int
    BY BlocksAre DEF Cells
  <2>2. UpTo(g[d]) < Aligned(f)[d]
    BY DEF Inner, UpTo
  <2>3. UpTo(g[d]) \in Int /\ g[d] <= UpTo(g[d])
    BY <2>1, UpToIs
  <2> QED
    BY <2>1, <2>2, <2>3
<1>2. g \in Box(Aligned(f))
  BY <1>1, BlocksAre, BoxIs DEF Sized
<1> QED
  BY <1>1, <1>2 DEF Within

(* A cell is of the field when its coordinates are below the lengths.        *)
LEMMA WithinIs ==
  ASSUME NEW g \in Cells, \A d \in 1 .. 3 : g[d] >= 0, NEW n, Sized(n)
  PROVE  Within(g, n) <=> g \in Box(n)
<1>1. \A d \in 1 .. 3 : g[d] \in Int /\ g[d] >= 0 /\ n[d] \in Int
  BY DEF Sized, Cells
<1>2. \A d \in 1 .. 3 : g[d] < n[d] <=> g[d] \in 0 .. n[d] - 1
  BY <1>1
<1>3. g \in Box(n) <=> \A d \in 1 .. 3 : g[d] \in 0 .. n[d] - 1
  BY BoxIs DEF Sized
<1> QED
  BY <1>2, <1>3 DEF Within

(* The field lies within the blocks.                                         *)
LEMMA FieldInside ==
  ASSUME NEW f \in Fields, NEW g \in Box(f.len3)
  PROVE  g \in Cells /\ g \in Box(Aligned(f)) /\ \A d \in 1 .. 3 : g[d] \in Nat
<1>1. g \in Cells /\ \A d \in 1 .. 3 : g[d] \in 0 .. f.len3[d] - 1
  BY FieldIs, BoxIs DEF Sized
<1>2. \A d \in 1 .. 3 : f.len3[d] \in Nat /\ Aligned(f)[d] \in Nat /\ f.len3[d] <= Aligned(f)[d]
  BY FieldIs, BlocksAre
<1>3. \A d \in 1 .. 3 : g[d] \in 0 .. Aligned(f)[d] - 1 /\ g[d] \in Nat
  BY <1>1, <1>2
<1>4. g \in Box(Aligned(f))
  BY <1>1, <1>3, BlocksAre, BoxIs DEF Sized
<1> QED
  BY <1>1, <1>3, <1>4

(* The blocks cover the field, and the codes' array.                         *)
LEMMA Tiles ==
  ASSUME NEW f \in Fields, NEW g \in Box(Aligned(f))
  PROVE  \E b \in 0 .. NBlocks(f) - 1 : \E c \in Box(SUBLEN) : Lay(f, b, c) = g
<1> DEFINE q == <<g[1] \div SUBLEN[1], g[2] \div SUBLEN[2], g[3] \div SUBLEN[3]>>
           c == <<g[1] % SUBLEN[1], g[2] % SUBLEN[2], g[3] % SUBLEN[3]>>
           b == Idx(Blocks(f), q)
<1>1. g \in Cells /\ \A d \in 1 .. 3 : g[d] \in 0 .. Aligned(f)[d] - 1
  BY BlocksAre, BoxIs DEF Sized
<1>2. \A d \in 1 .. 3 : q[d] = g[d] \div SUBLEN[d] /\ c[d] = g[d] % SUBLEN[d]
  OBVIOUS
<1>3. q = <<q[1], q[2], q[3]>> /\ c = <<c[1], c[2], c[3]>>
  OBVIOUS
<1> HIDE DEF q, c
<1>4. ASSUME NEW d \in 1 .. 3
      PROVE  q[d] \in 0 .. Blocks(f)[d] - 1 /\ c[d] \in 0 .. SUBLEN[d] - 1 /\ g[d] = c[d] + q[d] * SUBLEN[d]
              /\ q[d] \in Int /\ c[d] \in Int
  <2> DEFINE s == SUBLEN[d]
             x == g[d]
             n == Blocks(f)[d]
             y == x \div s
             r == x % s
  <2>1. s \in Nat \ {0} /\ n \in Nat \ {0} /\ x \in 0 .. n * s - 1
    BY <1>1, BlocksAre, SublenIs
  <2>2. q[d] = y /\ c[d] = r
    BY <1>2
  <2> HIDE DEF s, x, n
  <2>3. x \in Nat
    BY <2>1
  <2>4. y \in Nat /\ r \in 0 .. s - 1 /\ x = y * s + r
    BY <2>1, <2>3, Division
  <2> HIDE DEF y, r
  <2>5. y < n
    <3>1. ASSUME ~(y < n) PROVE FALSE
      <4>1. n < y \/ n = y
        BY <2>1, <2>4, <3>1
      <4>2. n * s <= y * s /\ n * s \in Nat /\ y * s \in Nat
        BY <2>1, <2>4, <4>1, ProductOrder
      <4> DEFINE p == y * s
                 t == n * s
      <4>3. t <= p /\ p \in Nat /\ t \in Nat /\ x = p + r /\ x \in 0 .. t - 1
        BY <2>1, <2>4, <4>2
      <4> HIDE DEF p, t
      <4> QED
        BY <2>1, <2>4, <4>3
    <3> QED
      BY <3>1
  <2>6. x = r + y * s
    <3>1. y * s \in Nat
      BY <2>1, <2>4, ProductOrder
    <3> QED
      BY <2>1, <2>4, <3>1
  <2>7. y \in 0 .. n - 1 /\ r \in 0 .. s - 1 /\ y \in Int /\ r \in Int
    BY <2>1, <2>4, <2>5
  <2> QED
    BY <2>2, <2>6, <2>7 DEF s, x, n
<1>5. q \in Cells /\ c \in Cells
  <2>1. q[1] \in Int /\ q[2] \in Int /\ q[3] \in Int /\ c[1] \in Int /\ c[2] \in Int /\ c[3] \in Int
    BY <1>4
  <2> QED
    BY <1>3, <2>1 DEF Cells
<1>6. q \in Box(Blocks(f))
  BY <1>4, <1>5, BlocksAre, BoxIs DEF Sized
<1>7. c \in Box(SUBLEN)
  BY <1>4, <1>5, ScratchIs
<1>8. b \in 0 .. NBlocks(f) - 1 /\ CellOf(Blocks(f), b) = q
  BY <1>6, BlocksAre, CellOfIs DEF NBlocks
<1> HIDE DEF b
<1>9. Lay(f, b, c) = g
  <2>1. \A d \in 1 .. 3 : Lay(f, b, c)[d] = c[d] + q[d] * SUBLEN[d]
    BY <1>8 DEF Lay
  <2>2. \A d \in 1 .. 3 : Lay(f, b, c)[d] = g[d]
    BY <1>4, <2>1
  <2>3. Lay(f, b, c) \in Cells
    BY <1>5, <1>8, LayIs
  <2> QED
    BY <1>1, <2>2, <2>3, SameCell
<1> QED
  BY <1>7, <1>8, <1>9

(* Anchors: every BLOCK-th cell of an axis.                                  *)
OnAnchor(g) == \A d \in 1 .. 3 : g[d] % BLOCK = 0
Face == <<SUBLEN[1], BLOCK, 1>>

(* A block's anchors are the field's, and lie on one face of it.             *)
LEMMA AnchorsLie ==
  ASSUME NEW f \in Fields, NEW b \in 0 .. NBlocks(f) - 1, NEW c \in Cells
  PROVE  /\ OnAnchor(Lay(f, b, c)) <=> IsAnchor(c)
         /\ IsAnchor(c) /\ c \in Box(SUBLEN) => c \in Box(Face)
         /\ Known(0, c) <=> IsAnchor(c)
<1>1. PICK o \in Cells : \A d \in 1 .. 3 : Lay(f, b, c)[d] = c[d] + o[d] /\ o[d] % BLOCK = 0
  BY LayIs
<1>2. \A d \in 1 .. 3 : c[d] \in Int /\ o[d] \in Int
  BY DEF Cells
<1>3. BLOCK \in {1, 2, 4, 8} /\ BLOCK % BLOCK = 0
  BY BlockIs
<1>4. \A d \in 1 .. 3 : (c[d] + o[d]) % BLOCK = 0 <=> c[d] % BLOCK = 0
  BY <1>1, <1>2, <1>3, AxisMoved
<1>5. OnAnchor(Lay(f, b, c)) <=> IsAnchor(c)
  BY <1>1, <1>4 DEF OnAnchor, IsAnchor
<1>6. ASSUME IsAnchor(c), c \in Box(SUBLEN) PROVE c \in Box(Face)
  <2>1. \A d \in 1 .. 3 : c[d] \in 0 .. SUBLEN[d] - 1 /\ c[d] % BLOCK = 0
    BY <1>6, ScratchIs DEF IsAnchor
  <2>2. SUBLEN[1] \in Nat /\ SUBLEN[2] = BLOCK /\ SUBLEN[3] = BLOCK /\ BLOCK \in {2, 4, 8}
    BY BlockIs, SublenIs
  <2>3. c[3] \in 0 .. BLOCK - 1 /\ c[3] % BLOCK = 0
    BY <2>1, <2>2
  <2>4. c[3] = 0
    BY <2>2, <2>3
  <2>5. Face[1] = SUBLEN[1] /\ Face[2] = BLOCK /\ Face[3] = 1
    BY DEF Face
  <2>6. c[1] \in 0 .. Face[1] - 1 /\ c[2] \in 0 .. Face[2] - 1 /\ c[3] \in 0 .. Face[3] - 1
    BY <2>1, <2>2, <2>4, <2>5
  <2>7. \A d \in 1 .. 3 : c[d] \in 0 .. Face[d] - 1
    <3>1. \A d \in 1 .. 3 : d = 1 \/ d = 2 \/ d = 3
      OBVIOUS
    <3> QED
      BY <2>6, <3>1
  <2>8. Face[1] \in Int /\ Face[2] \in Int /\ Face[3] \in Int
    BY <2>2, <2>5
  <2> QED
    BY <2>7, <2>8, BoxIs
<1>7. Known(0, c) <=> IsAnchor(c)
  <2>1. 0 # NStage /\ 0 + 1 = 1
    BY NStageIs
  <2>2. K(1).step = <<BLOCK, BLOCK, BLOCK>>
    <3>1. K(1) = BLUE(UNIT)
      BY DEF K, Unit
    <3> QED
      BY <3>1 DEF BLUE, BLOCK
  <2>3. 1 .. 3 = {1, 2, 3}
    OBVIOUS
  <2> QED
    BY <2>1, <2>2, <2>3 DEF Known, OnGrid, IsAnchor
<1> QED
  BY <1>5, <1>6, <1>7

(* An anchor's place in the array of anchors.                                *)
LEMMA AnchorCells ==
  ASSUME NEW f \in Fields, NEW g \in Cells, \A d \in 1 .. 3 : g[d] >= 0, OnAnchor(g)
  PROVE  /\ AnchorOf(g) \in Cells /\ [d \in 1 .. 3 |-> BLOCK * AnchorOf(g)[d]] = g
         /\ Within(AnchorOf(g), AnchorLen(f)) <=> g \in Box(f.len3)
         /\ AnchorOf(g) \in Box(AnchorLen(f)) <=> g \in Box(f.len3)
<1> DEFINE a == AnchorOf(g)
<1>1. \A d \in 1 .. 3 : a[d] = g[d] \div BLOCK
  BY DEF AnchorOf
<1>2. a = <<a[1], a[2], a[3]>>
  BY DEF AnchorOf
<1> HIDE DEF a
<1>3. ASSUME NEW d \in 1 .. 3
      PROVE  /\ a[d] \in Nat /\ BLOCK * a[d] = g[d] /\ g[d] \in Int
             /\ a[d] < AnchorLen(f)[d] <=> g[d] < f.len3[d]
  <2> DEFINE x == g[d]
             l == f.len3[d]
  <2>1. x \in Int /\ x >= 0 /\ x % BLOCK = 0 /\ l \in Nat \ {0} /\ BLOCK \in {2, 4, 8}
         /\ a[d] = x \div BLOCK /\ AnchorLen(f)[d] = (l - 1) \div BLOCK + 1
    BY <1>1, FieldIs, BlocksAre, BlockIs DEF OnAnchor, Cells
  <2> HIDE DEF x, l
  <2>2. x \div BLOCK \in Nat /\ BLOCK * (x \div BLOCK) = x
         /\ (x \div BLOCK < (l - 1) \div BLOCK + 1 <=> x < l)
    <3>1. CASE BLOCK = 2
      BY <2>1, <3>1
    <3>2. CASE BLOCK = 4
      BY <2>1, <3>2
    <3>3. CASE BLOCK = 8
      BY <2>1, <3>3
    <3> QED
      BY <2>1, <3>1, <3>2, <3>3
  <2> QED
    BY <2>1, <2>2 DEF x, l
<1>4. a \in Cells /\ \A d \in 1 .. 3 : a[d] >= 0
  <2>1. a[1] \in Int /\ a[2] \in Int /\ a[3] \in Int /\ \A d \in 1 .. 3 : a[d] \in Nat
    BY <1>3
  <2> QED
    BY <1>2, <2>1 DEF Cells
<1>5. [d \in 1 .. 3 |-> BLOCK * a[d]] = g
  <2>1. g \in [1 .. 3 -> Int]
    BY DEF Cells
  <2>2. [d \in 1 .. 3 |-> BLOCK * a[d]] = [d \in 1 .. 3 |-> g[d]]
    BY <1>3
  <2> QED
    BY <2>1, <2>2
<1>6. Within(a, AnchorLen(f)) <=> Within(g, f.len3)
  BY <1>3 DEF Within
<1>7. Within(g, f.len3) <=> g \in Box(f.len3)
  BY FieldIs, WithinIs
<1>8. Within(a, AnchorLen(f)) <=> a \in Box(AnchorLen(f))
  BY <1>4, BlocksAre, WithinIs
<1>9. /\ a \in Cells /\ [d \in 1 .. 3 |-> BLOCK * a[d]] = g
      /\ Within(a, AnchorLen(f)) <=> g \in Box(f.len3)
      /\ a \in Box(AnchorLen(f)) <=> g \in Box(f.len3)
  BY <1>4, <1>5, <1>6, <1>7, <1>8
<1> QED
  BY <1>9 DEF a

-----------------------------------------------------------------------------
(* The values after k stages, and the code that stage m gives a cell.        *)
Val(f, k)     == Ideal(f)[k]
Want(f, m, g) == Code(Val(f, m - 1), m, g)

(* The ideal values: integers, close to the field, each from its code.       *)
LEMMA ValIs ==
  ASSUME NEW f \in Fields
  PROVE  /\ \A k \in 0 .. NStage : Val(f, k) \in [Cells -> Int]
         /\ Val(f, 0) = FieldOf(f)
         /\ \A g \in Cells : Abs(Val(f, NStage)[g] - FieldOf(f)[g]) <= EB
         /\ \A k \in 1 .. NStage : \A g \in Cells :
              /\ ~Pat(k, g) => Val(f, k)[g] = Val(f, k - 1)[g]
              /\ Pat(k, g) => /\ Val(f, k)[g] = Value(Predict(Val(f, k - 1), k, g), Want(f, k, g))
                              /\ Predict(Val(f, k - 1), k, g) \in Int /\ Want(f, k, g) \in Int
<1>1. /\ Ideal(f) \in [0 .. NStage -> [Cells -> Int]] /\ Ideal(f)[0] = FieldOf(f)
      /\ \A k \in 1 .. NStage : Ideal(f)[k] = Refined(Ideal(f)[k - 1], k)
      /\ \A k \in 0 .. NStage : Close(f, Ideal(f)[k], k)
  BY IdealIs DEF IdealTo
<1>2. \A k \in 0 .. NStage : Val(f, k) \in [Cells -> Int]
  BY <1>1 DEF Val
<1>3. NStage \in 0 .. NStage
  BY NStageIs
<1>4. \A g \in Cells : Abs(Val(f, NStage)[g] - FieldOf(f)[g]) <= EB
  BY <1>1, <1>3 DEF Val, Close
<1>5. ASSUME NEW k \in 1 .. NStage, NEW g \in Cells
      PROVE  /\ ~Pat(k, g) => Val(f, k)[g] = Val(f, k - 1)[g]
             /\ Pat(k, g) => /\ Val(f, k)[g] = Value(Predict(Val(f, k - 1), k, g), Want(f, k, g))
                             /\ Predict(Val(f, k - 1), k, g) \in Int /\ Want(f, k, g) \in Int
  <2> DEFINE v == Val(f, k - 1)
  <2>1. Val(f, k) = Refined(v, k) /\ v \in [Cells -> Int]
    <3>1. k - 1 \in 0 .. NStage
      BY NStageIs
    <3> QED
      BY <1>1, <1>2, <3>1 DEF Val
  <2>2. Want(f, k, g) = Code(v, k, g)
    BY DEF Want
  <2> HIDE DEF v
  <2>3. Val(f, k)[g] = IF Pat(k, g) THEN Value(Predict(v, k, g), Code(v, k, g)) ELSE v[g]
    BY <2>1 DEF Refined
  <2>4. Predict(v, k, g) \in Int
    <3>1. K(k).axis \in 1 .. 3 /\ K(k).unit \in Int /\ -K(k).unit \in Int
      BY Steps3
    <3>2. Shift(g, K(k).axis, -K(k).unit) \in Cells /\ Shift(g, K(k).axis, K(k).unit) \in Cells
      BY <3>1, ShiftIs
    <3>3. v[Shift(g, K(k).axis, -K(k).unit)] \in Int /\ v[Shift(g, K(k).axis, K(k).unit)] \in Int
      BY <2>1, <3>2
    <3>4. \A x, y \in Int : Mean(x, y) \in Int
      BY Constants DEF Mean
    <3> QED
      BY <3>3, <3>4 DEF Predict
  <2>5. Code(v, k, g) \in Int
    <3> DEFINE e == v[g] - Predict(v, k, g)
    <3>1. e \in Int
      BY <2>1, <2>4
    <3>2. Code(v, k, g) = Steps(e) + RADIUS
      BY DEF Code
    <3> HIDE DEF e
    <3>3. Steps(e) \in Int
      BY <3>1, StepsBound
    <3> QED
      BY <3>2, <3>3, Constants
  <2>6. /\ ~Pat(k, g) => Val(f, k)[g] = v[g]
        /\ Pat(k, g) => /\ Val(f, k)[g] = Value(Predict(v, k, g), Want(f, k, g))
                        /\ Predict(v, k, g) \in Int /\ Want(f, k, g) \in Int
    BY <2>2, <2>3, <2>4, <2>5
  <2> QED
    BY <2>6 DEF v
<1>6. Val(f, 0) = FieldOf(f)
  BY <1>1 DEF Val
<1> QED
  BY <1>2, <1>4, <1>5, <1>6

(* What is known stays known, so no cell is interpolated twice.              *)
LEMMA KnownGrows ==
  ASSUME NEW k \in 0 .. NStage, NEW m \in 0 .. NStage, k <= m, NEW g \in Cells, Known(k, g)
  PROVE  Known(m, g)
<1> DEFINE S == {i \in k .. m : ~Known(i, g)}
<1>1. SUFFICES ASSUME S # {} PROVE FALSE
  <2>1. m \in k .. m
    OBVIOUS
  <2> QED
    BY <2>1
<1>2. S \in SUBSET Nat
  <2>1. \A i \in S : i \in Nat
    OBVIOUS
  <2> QED
    BY <2>1
<1> HIDE DEF S
<1>3. PICK i \in S : \A j \in S : i <= j
  BY <1>1, <1>2, Least
<1>4. i \in k .. m /\ ~Known(i, g)
  BY <1>3 DEF S
<1>5. i # k
  BY <1>4
<1>6. i - 1 \in k .. m /\ i \in 1 .. NStage
  BY <1>4, <1>5, NStageIs
<1>7. i - 1 \notin S
  BY <1>3, <1>4
<1>8. Known(i - 1, g)
  BY <1>6, <1>7 DEF S
<1> QED
  BY <1>4, <1>6, <1>8, Steps3

(* A cell is of one stage at most.                                           *)
LEMMA PatternsApart ==
  ASSUME NEW k \in 1 .. NStage, NEW m \in 1 .. NStage, m < k, NEW g \in Cells, Pat(m, g)
  PROVE  ~Pat(k, g)
<1>1. Known(m, g)
  BY Steps3
<1>2. k - 1 \in 0 .. NStage /\ m \in 0 .. NStage /\ m <= k - 1
  BY NStageIs
<1>3. Known(k - 1, g)
  BY <1>1, <1>2, KnownGrows
<1> QED
  BY <1>3, Steps3

-----------------------------------------------------------------------------
(* Operations come at odd places of a program, operation j at 2j + 1, and    *)
(* barriers at even ones.                                                    *)
Kernels   == {"construct", "reconstruct"}
First(ph) == IF ph = "construct" THEN 2 ELSE 1
Halt(ph)  == First(ph) + NStage + 2
Turn(j)   == \A w \in Warps : at[w] \in {2 * j + 1, 2 * j + 2}
OpOf(ph, j) == IF j = 0 THEN IF ph = "construct" THEN "c_reset" ELSE "x_reset"
               ELSE IF j = 1 THEN "load"
               ELSE IF j = First(ph) THEN "gather_anchor"
               ELSE IF j = First(ph) + NStage + 1 THEN "store" ELSE "interpolate"

(* The kernel's program: operations, each with its barrier.                  *)
LEMMA ProgramIs ==
  ASSUME phase \in Kernels
  PROVE  /\ Len(Program) = 2 * Halt(phase)
         /\ \A j \in 1 .. Halt(phase) : Program[2 * j] = Barrier
         /\ \A j \in 0 .. Halt(phase) - 1 : Program[2 * j + 1][1] = OpOf(phase, j)
         /\ \A k \in 1 .. NStage : Program[2 * (First(phase) + k) + 1] = <<"interpolate", K(k)>>
<1> DEFINE n == NStage
<1>1. n \in Nat \ {0}
  BY NStageIs
<1>2. CASE phase = "construct"
  <2> DEFINE p == c_spline3d
  <2>1. Program = p /\ First(phase) = 2 /\ Halt(phase) = 4 + n
    BY <1>1, <1>2 DEF Program, First, Halt
  <2>2. ConstructProg(p)
    BY ConstructIs
  <2> HIDE DEF p
  <2>3. /\ Len(p) = 8 + 2 * n
        /\ p[1] = <<"c_reset", 0>> /\ p[3] = <<"load", 0>> /\ p[5] = <<"gather_anchor", 0>>
        /\ \A k \in 1 .. n : p[5 + 2 * k] = <<"interpolate", K(k)>>
        /\ p[7 + 2 * n] = <<"store", 0>>
        /\ \A j \in 1 .. 4 + n : p[2 * j] = Barrier
    BY <2>2 DEF ConstructProg
  <2> HIDE DEF n
  <2>4. ASSUME NEW k \in 1 .. n PROVE p[2 * (2 + k) + 1] = <<"interpolate", K(k)>>
    <3>1. 2 * (2 + k) + 1 = 5 + 2 * k
      BY <1>1
    <3> QED
      BY <2>3, <3>1
  <2>5. ASSUME NEW j \in 0 .. 4 + n - 1 PROVE p[2 * j + 1][1] = OpOf(phase, j)
    <3>1. CASE j = 0
      BY <1>2, <2>3, <3>1 DEF OpOf
    <3>2. CASE j = 1
      BY <1>2, <2>3, <3>2 DEF OpOf
    <3>3. CASE j = 2
      BY <1>2, <2>1, <2>3, <3>3 DEF OpOf
    <3>4. CASE j = 3 + n
      <4>1. 2 * j + 1 = 7 + 2 * n /\ j # 0 /\ j # 1 /\ j # 2
        BY <1>1, <3>4
      <4> QED
        BY <1>1, <2>1, <2>3, <3>4, <4>1 DEF OpOf, n
    <3>5. CASE j - 2 \in 1 .. n
      <4>1. 2 * (2 + (j - 2)) + 1 = 2 * j + 1 /\ j # 0 /\ j # 1 /\ j # 2 /\ j # 2 + n + 1
        BY <1>1, <3>5
      <4>2. p[2 * j + 1] = <<"interpolate", K(j - 2)>>
        BY <2>4, <3>5, <4>1
      <4> QED
        BY <2>1, <4>1, <4>2 DEF OpOf, n
    <3> QED
      BY <1>1, <3>1, <3>2, <3>3, <3>4, <3>5
  <2>6. Len(p) = 2 * (4 + n)
    BY <1>1, <2>3
  <2>7. \A j \in 1 .. Halt(phase) : Program[2 * j] = Barrier
    BY <2>1, <2>3
  <2>8. \A j \in 0 .. Halt(phase) - 1 : Program[2 * j + 1][1] = OpOf(phase, j)
    <3>1. ASSUME NEW j \in 0 .. Halt(phase) - 1 PROVE Program[2 * j + 1][1] = OpOf(phase, j)
      <4>1. j \in 0 .. 4 + n - 1
        BY <1>1, <2>1
      <4>2. p[2 * j + 1][1] = OpOf(phase, j)
        BY <2>5, <4>1
      <4> QED
        BY <2>1, <4>2
    <3> QED
      BY <3>1
  <2>9. \A k \in 1 .. NStage : Program[2 * (First(phase) + k) + 1] = <<"interpolate", K(k)>>
    <3>1. ASSUME NEW k \in 1 .. NStage
          PROVE  Program[2 * (First(phase) + k) + 1] = <<"interpolate", K(k)>>
      <4>1. k \in 1 .. n
        BY DEF n
      <4>2. p[2 * (2 + k) + 1] = <<"interpolate", K(k)>>
        BY <2>4, <4>1
      <4> QED
        BY <2>1, <4>2
    <3> QED
      BY <3>1
  <2> QED
    BY <2>1, <2>6, <2>7, <2>8, <2>9
<1>3. CASE phase = "reconstruct"
  <2> DEFINE p == x_spline3d
  <2>1. Program = p /\ First(phase) = 1 /\ Halt(phase) = 3 + n /\ phase # "construct"
    BY <1>1, <1>3 DEF Program, First, Halt
  <2>2. ReconstructProg(p)
    BY ReconstructIs
  <2> HIDE DEF p
  <2>3. /\ Len(p) = 6 + 2 * n
        /\ p[1] = <<"x_reset", 0>> /\ p[3] = <<"load", 0>>
        /\ \A k \in 1 .. n : p[3 + 2 * k] = <<"interpolate", K(k)>>
        /\ p[5 + 2 * n] = <<"store", 0>>
        /\ \A j \in 1 .. 3 + n : p[2 * j] = Barrier
    BY <2>2 DEF ReconstructProg
  <2> HIDE DEF n
  <2>4. ASSUME NEW k \in 1 .. n PROVE p[2 * (1 + k) + 1] = <<"interpolate", K(k)>>
    <3>1. 2 * (1 + k) + 1 = 3 + 2 * k
      BY <1>1
    <3> QED
      BY <2>3, <3>1
  <2>5. ASSUME NEW j \in 0 .. 3 + n - 1 PROVE p[2 * j + 1][1] = OpOf(phase, j)
    <3>1. CASE j = 0
      BY <2>1, <2>3, <3>1 DEF OpOf
    <3>2. CASE j = 1
      BY <2>1, <2>3, <3>2 DEF OpOf
    <3>4. CASE j = 2 + n
      <4>1. 2 * j + 1 = 5 + 2 * n /\ j # 0 /\ j # 1
        BY <1>1, <3>4
      <4> QED
        BY <1>1, <2>1, <2>3, <3>4, <4>1 DEF OpOf, n
    <3>5. CASE j - 1 \in 1 .. n
      <4>1. 2 * (1 + (j - 1)) + 1 = 2 * j + 1 /\ j # 0 /\ j # 1 /\ j # 1 + n + 1
        BY <1>1, <3>5
      <4>2. p[2 * j + 1] = <<"interpolate", K(j - 1)>>
        BY <2>4, <3>5, <4>1
      <4> QED
        BY <2>1, <4>1, <4>2 DEF OpOf, n
    <3> QED
      BY <1>1, <3>1, <3>2, <3>4, <3>5
  <2>6. Len(p) = 2 * (3 + n)
    BY <1>1, <2>3
  <2>7. \A j \in 1 .. Halt(phase) : Program[2 * j] = Barrier
    BY <2>1, <2>3
  <2>8. \A j \in 0 .. Halt(phase) - 1 : Program[2 * j + 1][1] = OpOf(phase, j)
    <3>1. ASSUME NEW j \in 0 .. Halt(phase) - 1 PROVE Program[2 * j + 1][1] = OpOf(phase, j)
      <4>1. j \in 0 .. 3 + n - 1
        BY <1>1, <2>1
      <4>2. p[2 * j + 1][1] = OpOf(phase, j)
        BY <2>5, <4>1
      <4> QED
        BY <2>1, <4>2
    <3> QED
      BY <3>1
  <2>9. \A k \in 1 .. NStage : Program[2 * (First(phase) + k) + 1] = <<"interpolate", K(k)>>
    <3>1. ASSUME NEW k \in 1 .. NStage
          PROVE  Program[2 * (First(phase) + k) + 1] = <<"interpolate", K(k)>>
      <4>1. k \in 1 .. n
        BY DEF n
      <4>2. p[2 * (1 + k) + 1] = <<"interpolate", K(k)>>
        BY <2>4, <4>1
      <4> QED
        BY <2>1, <4>2
    <3> QED
      BY <3>1
  <2> QED
    BY <2>1, <2>6, <2>7, <2>8, <2>9
<1> QED
  BY <1>2, <1>3 DEF Kernels

(* A warp at an operation is at the turn's.                                  *)
LEMMA AtTurn ==
  ASSUME NEW w \in Warps, NEW name, Op(w, name), name # "sync", NEW j \in 0 .. Halt(phase), Turn(j)
  PROVE  /\ phase \in Kernels /\ at[w] = 2 * j + 1 /\ j \in 0 .. Halt(phase) - 1 /\ OpOf(phase, j) = name
         /\ \A k \in 1 .. NStage : j = First(phase) + k => Program[at[w]][2] = K(k)
<1>1. phase \in Kernels /\ at[w] <= Len(Program) /\ Program[at[w]][1] = name
  BY DEF Op, Kernels
<1>2. /\ Len(Program) = 2 * Halt(phase)
      /\ \A i \in 1 .. Halt(phase) : Program[2 * i] = Barrier
      /\ \A i \in 0 .. Halt(phase) - 1 : Program[2 * i + 1][1] = OpOf(phase, i)
      /\ \A k \in 1 .. NStage : Program[2 * (First(phase) + k) + 1] = <<"interpolate", K(k)>>
  BY <1>1, ProgramIs
<1>3. Halt(phase) \in Nat
  BY NStageIs DEF Halt, First
<1>4. at[w] = 2 * j + 1 \/ at[w] = 2 * j + 2
  BY DEF Turn
<1>5. at[w] # 2 * j + 2
  <2>1. ASSUME at[w] = 2 * j + 2 PROVE FALSE
    <3>1. j + 1 \in 1 .. Halt(phase) /\ at[w] = 2 * (j + 1)
      BY <1>1, <1>2, <1>3, <2>1
    <3>2. Program[at[w]] = <<"sync", 0>>
      BY <1>2, <3>1 DEF Barrier
    <3> QED
      BY <1>1, <3>2
  <2> QED
    BY <2>1
<1>6. j \in 0 .. Halt(phase) - 1
  BY <1>1, <1>2, <1>3, <1>4, <1>5
<1>7. \A k \in 1 .. NStage : j = First(phase) + k => Program[at[w]][2] = K(k)
  BY <1>2, <1>4, <1>5
<1> QED
  BY <1>1, <1>2, <1>4, <1>5, <1>6, <1>7

-----------------------------------------------------------------------------
(* The cells of shared memory that an operation of a warp writes.            *)
Mine(k, w) == {xyz_map(K(k), i) : i \in Share(w, K(k).dim)} \cap Scratch
Part(ph, j, w) ==
  IF j \in {0, 1} THEN ScratchOf(w)
  ELSE IF j - First(ph) \in 1 .. NStage THEN Mine(j - First(ph), w) ELSE {}

(* The warps' shares of shared memory.                                       *)
LEMMA ScratchShares ==
  /\ \A w : ScratchOf(w) \subseteq Scratch
  /\ \A c \in Scratch : \E w \in Warps : c \in ScratchOf(w)
  /\ \A v, w : \A c : c \in ScratchOf(v) /\ c \in ScratchOf(w) => v = w
<1> DEFINE n == [d \in 1 .. 3 |-> SUBLEN[d] + 1]
<1>1. n[1] = SUBLEN[1] + 1 /\ n[2] = SUBLEN[2] + 1 /\ n[3] = SUBLEN[3] + 1
  OBVIOUS
<1>2. Sized(n)
  BY <1>1, SublenIs DEF Sized
<1>3. Scratch = Box(n) /\ \A w : ScratchOf(w) = Share(w, n)
  BY DEF Scratch, ScratchOf
<1> HIDE DEF n
<1>4. /\ \A w : Share(w, n) \subseteq Box(n)
      /\ \A c \in Box(n) : \E w \in Warps : c \in Share(w, n)
      /\ \A v, w : \A c : c \in Share(v, n) /\ c \in Share(w, n) => v = w
  BY <1>2, ShareIs
<1> QED
  BY <1>3, <1>4

(* The warps' cells of a stage: disjoint, and together the stage's.          *)
LEMMA MineIs ==
  ASSUME NEW k \in 1 .. NStage
  PROVE  /\ \A w : \A c \in Mine(k, w) : c \in Scratch /\ Pat(k, c)
         /\ \A c \in Scratch : Pat(k, c) /\ Within3(k, c) => \E w \in Warps : c \in Mine(k, w)
         /\ \A v, w : \A c : c \in Mine(k, v) /\ c \in Mine(k, w) => v = w
<1> DEFINE s == K(k)
           n == s.dim
           M(i) == xyz_map(s, i)
<1>1. Sized(n)
  BY DimIs DEF Sized
<1>2. /\ \A i \in Box(n) : Pat(k, M(i))
      /\ \A i, j \in Box(n) : M(i) = M(j) => i = j
  BY StageMaps
<1>3. \A w : Mine(k, w) = {M(i) : i \in Share(w, n)} \cap Scratch
  BY DEF Mine
<1>4. \A c \in Scratch : Pat(k, c) /\ Within3(k, c) => \E i \in Box(n) : c = M(i)
  BY StageCovers
<1> HIDE DEF M, n, s
<1>5. /\ \A w : Share(w, n) \subseteq Box(n)
      /\ \A c \in Box(n) : \E w \in Warps : c \in Share(w, n)
      /\ \A v, w : \A c : c \in Share(v, n) /\ c \in Share(w, n) => v = w
  BY <1>1, ShareIs
<1>6. ASSUME NEW w, NEW c \in Mine(k, w) PROVE c \in Scratch /\ Pat(k, c)
  BY <1>2, <1>3, <1>5
<1>7. ASSUME NEW c \in Scratch, Pat(k, c), Within3(k, c) PROVE \E w \in Warps : c \in Mine(k, w)
  BY <1>3, <1>4, <1>5, <1>7
<1>8. ASSUME NEW v, NEW w, NEW c, c \in Mine(k, v), c \in Mine(k, w) PROVE v = w
  <2>1. PICK i \in Share(v, n) : c = M(i)
    BY <1>3, <1>8
  <2>2. PICK j \in Share(w, n) : c = M(j)
    BY <1>3, <1>8
  <2>3. i = j
    BY <1>2, <1>5, <2>1, <2>2
  <2> QED
    BY <1>5, <2>1, <2>2, <2>3
<1> QED
  BY <1>6, <1>7, <1>8

(* No two warps write one cell at a turn.                                    *)
LEMMA PartIs ==
  ASSUME NEW ph \in Kernels, NEW j \in 0 .. Halt(ph)
  PROVE  /\ \A w : Part(ph, j, w) \subseteq Scratch
         /\ \A v, w : \A c : c \in Part(ph, j, v) /\ c \in Part(ph, j, w) => v = w
<1>1. CASE j \in {0, 1}
  <2>1. \A w : Part(ph, j, w) = ScratchOf(w)
    BY <1>1 DEF Part
  <2> QED
    BY <2>1, ScratchShares
<1>2. CASE j \notin {0, 1} /\ j - First(ph) \in 1 .. NStage
  <2> DEFINE k == j - First(ph)
  <2>1. k \in 1 .. NStage /\ \A w : Part(ph, j, w) = Mine(k, w)
    BY <1>2 DEF Part
  <2> HIDE DEF k
  <2> QED
    BY <2>1, MineIs
<1>3. CASE j \notin {0, 1} /\ j - First(ph) \notin 1 .. NStage
  <2>1. \A w : Part(ph, j, w) = {}
    BY <1>3 DEF Part
  <2> QED
    BY <2>1
<1> QED
  BY <1>1, <1>2, <1>3

-----------------------------------------------------------------------------
(* What is claimed of a cell of shared memory, its value x and its code e,   *)
(* before operation i: first by compression, then by decompression, which    *)
(* is told the codes err and knows the values that come from them.           *)
CClaim(f, b, i, c, x, e) ==
  LET g == Lay(f, b, c)
  IN  /\ i = 1 => x = 0
      /\ i = 2 => x = Val(f, 0)[g]
      /\ i - 3 \in 0 .. NStage - 1 => x = Val(f, i - 3)[g]
      /\ \A m \in 1 .. NStage : m <= i - 3 /\ Pat(m, g) /\ Within3(m, c) => e = Kept(Want(f, m, g))
RClaim(f, b, err, i, c, x, e) ==
  LET g == Lay(f, b, c)
  IN  Inner(f, g) =>
        /\ i = 1 /\ IsAnchor(c) => x = Val(f, 0)[g]
        /\ i - 2 \in 0 .. NStage /\ Known(i - 2, c) /\ Within3(i - 2, c) => x = Val(f, i - 2)[g]
        /\ i - 2 \in 0 .. NStage => e = err[g]
Fit(err) == \A g \in DOMAIN err : err[g] # Undef
Claim(ph, f, b, err, i, c, x, e) ==
  IF ph = "construct" THEN CClaim(f, b, i, c, x, e) ELSE Fit(err) => RClaim(f, b, err, i, c, x, e)

(* The operation that a cell is before: a warp is done with its own.         *)
Reached(ph, a, j, c) == IF \E w \in Warps : a[w] = 2 * j + 2 /\ c \in Part(ph, j, w) THEN j + 1 ELSE j
Shared(j) ==
  \A c \in Scratch : Claim(phase, field, block, errctrl, Reached(phase, at, j, c), c, shm_data[c], shm_errctrl[c])

(* What has reached global memory: the anchors and the codes of cells C of   *)
(* block b, and what decompression makes of them.                            *)
CodeKept(f, g, e) == \A m \in 1 .. NStage : Pat(m, g) => e = Kept(Want(f, m, g))
AnchorsOf(f, b, C, anc) ==
  \A c \in C : IsAnchor(c) /\ Lay(f, b, c) \in Box(f.len3) => anc[AnchorOf(Lay(f, b, c))] = f.data[Lay(f, b, c)]
CodesOf(f, b, C, err) == \A c \in C : CodeKept(f, Lay(f, b, c), err[Lay(f, b, c)])
OutsOf(f, b, C, xd) ==
  \A c \in C : Lay(f, b, c) \in Box(f.len3) /\ Inner(f, Lay(f, b, c)) => xd[Lay(f, b, c)] = Val(f, NStage)[Lay(f, b, c)]

Codes == 0 .. CAP \cup {Undef}
Types ==
  /\ field \in Fields /\ phase \in {"launch", "construct", "reconstruct", "done"}
  /\ block \in 0 .. NBlocks(field) - 1 /\ at \in [Warps -> Nat]
  /\ shm_data \in [Scratch -> Number] /\ shm_errctrl \in [Scratch -> Codes]
  /\ anchor \in [Box(AnchorLen(field)) -> Number] /\ errctrl \in [Box(Aligned(field)) -> Codes]
  /\ xdata \in [Box(field.len3) -> Number]
Working ==
  /\ phase \in Kernels => \E j \in 0 .. Halt(phase) : Turn(j) /\ Shared(j)
  /\ phase \notin Kernels => (phase = "launch" => block = 0) /\ \A w \in Warps : at[w] = 1
Bounded == phase \in Kernels => \A w \in Warps : at[w] <= 2 * Halt(phase) + 1
Compressing ==
  phase = "construct" =>
    /\ \A b \in 0 .. block - 1 : AnchorsOf(field, b, Box(Face), anchor) /\ CodesOf(field, b, Box(SUBLEN), errctrl)
    /\ \A w \in Warps : at[w] >= 6 => AnchorsOf(field, block, Share(w, Face), anchor)
    /\ \A w \in Warps : at[w] >= 8 + 2 * NStage => CodesOf(field, block, Share(w, SUBLEN), errctrl)
Archived(f, anc, err) ==
  /\ \A g \in Box(f.len3) : OnAnchor(g) => anc[AnchorOf(g)] = f.data[g]
  /\ \A g \in Box(Aligned(f)) : CodeKept(f, g, err[g])
Compressed == phase \in {"reconstruct", "done"} => Archived(field, anchor, errctrl)
Decompressing ==
  phase = "reconstruct" /\ Fit(errctrl) =>
    /\ \A b \in 0 .. block - 1 : OutsOf(field, b, Box(SUBLEN), xdata)
    /\ \A w \in Warps : at[w] >= 6 + 2 * NStage => OutsOf(field, block, Share(w, SUBLEN), xdata)
Decompressed ==
  phase = "done" /\ Fit(errctrl) =>
    \A g \in Box(field.len3) : Inner(field, g) => xdata[g] = Val(field, NStage)[g]

SplineInv == Types /\ Working /\ Bounded /\ Compressing /\ Compressed /\ Decompressing /\ Decompressed

-----------------------------------------------------------------------------
(* A warp that takes an operation moves the claims of its part, if they hold *)
(* there and it leaves the rest alone.                                       *)
LEMMA Took ==
  ASSUME at \in [Warps -> Nat], NEW j \in 0 .. Halt(phase), Turn(j),
         NEW w \in Warps, at[w] = 2 * j + 1, Advance(w)
  PROVE  /\ Turn(j)' /\ at' \in [Warps -> Nat] /\ at'[w] = 2 * j + 2
         /\ \A u \in Warps : u # w => at'[u] = at[u]
         /\ field' = field /\ phase' = phase /\ block' = block
<1>1. at' = [at EXCEPT ![w] = @ + 1] /\ field' = field /\ phase' = phase /\ block' = block
  BY DEF Advance
<1>2. at[w] + 1 = 2 * j + 2 /\ at[w] + 1 \in Nat
  OBVIOUS
<1>3. at' \in [Warps -> Nat] /\ at'[w] = 2 * j + 2 /\ \A u \in Warps : u # w => at'[u] = at[u]
  BY <1>1, <1>2
<1>4. Turn(j)'
  BY <1>3 DEF Turn
<1> QED
  BY <1>1, <1>3, <1>4

(* A cell that its warp has yet to write.                                    *)
LEMMA ReachedIs ==
  ASSUME NEW ph \in Kernels, NEW a, NEW j \in 0 .. Halt(ph), NEW w \in Warps, a[w] = 2 * j + 1,
         NEW c \in Part(ph, j, w)
  PROVE  Reached(ph, a, j, c) = j
<1>1. ASSUME NEW u \in Warps, a[u] = 2 * j + 2, c \in Part(ph, j, u) PROVE FALSE
  <2>1. u = w
    BY <1>1, PartIs
  <2> QED
    BY <1>1, <2>1
<1> QED
  BY <1>1 DEF Reached

(* A cell that nobody writes.                                                *)
LEMMA ReachedUntouched ==
  ASSUME NEW ph, NEW a, NEW j, NEW c, \A w \in Warps : c \notin Part(ph, j, w)
  PROVE  Reached(ph, a, j, c) = j
BY DEF Reached

(* A warp's step moves the cells of its part.                                *)
LEMMA ReachedNext ==
  ASSUME NEW ph \in Kernels, NEW a, NEW b, NEW j \in 0 .. Halt(ph), NEW w \in Warps, a[w] = 2 * j + 1,
         b[w] = 2 * j + 2, \A u \in Warps : u # w => b[u] = a[u], NEW c
  PROVE  /\ c \in Part(ph, j, w) => Reached(ph, b, j, c) = j + 1
         /\ c \notin Part(ph, j, w) => Reached(ph, b, j, c) = Reached(ph, a, j, c)
<1>1. ASSUME c \in Part(ph, j, w) PROVE Reached(ph, b, j, c) = j + 1
  BY <1>1 DEF Reached
<1>2. ASSUME c \notin Part(ph, j, w)
      PROVE (\E u \in Warps : a[u] = 2 * j + 2 /\ c \in Part(ph, j, u))
              <=> (\E u \in Warps : b[u] = 2 * j + 2 /\ c \in Part(ph, j, u))
  BY <1>2
<1> QED
  BY <1>1, <1>2 DEF Reached

(* So the claims move with it.                                               *)
LEMMA ClaimsMove ==
  ASSUME phase \in Kernels, at \in [Warps -> Nat], NEW j \in 0 .. Halt(phase), Turn(j), Shared(j),
         NEW w \in Warps, at[w] = 2 * j + 1, Advance(w),
         phase = "construct" \/ errctrl' = errctrl,
         \A c \in Scratch : c \notin Part(phase, j, w) => shm_data'[c] = shm_data[c] /\ shm_errctrl'[c] = shm_errctrl[c],
         \A c \in Part(phase, j, w) : Claim(phase, field, block, errctrl, j + 1, c, shm_data'[c], shm_errctrl'[c])
  PROVE  Shared(j)'
<1>1. /\ at'[w] = 2 * j + 2 /\ \A u \in Warps : u # w => at'[u] = at[u]
      /\ field' = field /\ phase' = phase /\ block' = block
  BY Took
<1>2. ASSUME NEW c \in Scratch
      PROVE  Claim(phase, field, block, errctrl, Reached(phase, at', j, c), c, shm_data'[c], shm_errctrl'[c])
  <2>1. CASE c \in Part(phase, j, w)
    <3>1. Reached(phase, at', j, c) = j + 1
      BY <1>1, <2>1, ReachedNext
    <3> QED
      BY <2>1, <3>1
  <2>2. CASE c \notin Part(phase, j, w)
    <3>1. Reached(phase, at', j, c) = Reached(phase, at, j, c)
      BY <1>1, <2>2, ReachedNext
    <3>2. Claim(phase, field, block, errctrl, Reached(phase, at, j, c), c, shm_data[c], shm_errctrl[c])
      BY DEF Shared
    <3>3. shm_data'[c] = shm_data[c] /\ shm_errctrl'[c] = shm_errctrl[c]
      BY <2>2
    <3> QED
      BY <3>1, <3>2, <3>3
  <2> QED
    BY <2>1, <2>2
<1>3. ASSUME NEW c \in Scratch, NEW i, NEW x, NEW e, Claim(phase, field, block, errctrl, i, c, x, e)
      PROVE  Claim(phase, field, block, errctrl', i, c, x, e)
  BY <1>3, Zenon DEF Claim
<1>4. ASSUME NEW c \in Scratch
      PROVE  Claim(phase', field', block', errctrl', Reached(phase', at', j, c), c, shm_data'[c], shm_errctrl'[c])
  BY <1>1, <1>2, <1>3
<1> QED
  BY <1>4 DEF Shared

-----------------------------------------------------------------------------
(* The steps.                                                                *)
LEMMA OverIs ==
  ASSUME NEW D, NEW R, NEW f \in [D -> R], NEW g, DOMAIN g \subseteq D, \A x \in DOMAIN g : g[x] \in R
  PROVE  /\ Over(f, g) \in [D -> R]
         /\ \A x \in DOMAIN g : Over(f, g)[x] = g[x]
         /\ \A x \in D : x \notin DOMAIN g => Over(f, g)[x] = f[x]
<1>1. DOMAIN f \cup DOMAIN g = D
  OBVIOUS
<1>2. Over(f, g) = [x \in D |-> IF x \in DOMAIN g THEN g[x] ELSE f[x]]
  BY <1>1 DEF Over
<1> QED
  BY <1>2

(* The turns, by their operations.                                           *)
LEMMA OpIs ==
  ASSUME NEW ph \in Kernels, NEW j \in 0 .. Halt(ph) - 1
  PROVE  /\ OpOf(ph, j) = "c_reset" => j = 0 /\ ph = "construct"
         /\ OpOf(ph, j) = "x_reset" => j = 0 /\ ph = "reconstruct"
         /\ OpOf(ph, j) = "load" => j = 1
         /\ OpOf(ph, j) = "gather_anchor" => j = 2 /\ ph = "construct"
         /\ OpOf(ph, j) = "store" => j = First(ph) + NStage + 1
         /\ OpOf(ph, j) = "interpolate" => j - First(ph) \in 1 .. NStage
         /\ OpOf(ph, j) = "gather_anchor" <=> j = 2 /\ ph = "construct"
         /\ OpOf(ph, j) = "store" <=> j = First(ph) + NStage + 1
<1>1. NStage \in Nat \ {0}
  BY NStageIs
<1>2. CASE ph = "construct"
  BY <1>1, <1>2 DEF OpOf, First, Halt
<1>3. CASE ph = "reconstruct"
  BY <1>1, <1>3 DEF OpOf, First, Halt
<1> QED
  BY <1>2, <1>3 DEF Kernels

TurnOf(w, name, j) ==
  /\ phase \in Kernels /\ j \in 0 .. Halt(phase) - 1 /\ j \in 0 .. Halt(phase)
  /\ Turn(j) /\ Shared(j) /\ at[w] = 2 * j + 1 /\ OpOf(phase, j) = name
  /\ \A k \in 1 .. NStage : j = First(phase) + k => Program[at[w]][2] = K(k)

(* A warp that can take an operation is at its turn.                         *)
LEMMA AtOp ==
  ASSUME Working, NEW w \in Warps, NEW name, Op(w, name), name # "sync"
  PROVE  \E j \in Nat : TurnOf(w, name, j)
<1>1. phase \in Kernels
  BY DEF Op, Kernels
<1>2. PICK j \in 0 .. Halt(phase) : Turn(j) /\ Shared(j)
  BY <1>1 DEF Working
<1>3. /\ phase \in Kernels /\ at[w] = 2 * j + 1 /\ j \in 0 .. Halt(phase) - 1 /\ OpOf(phase, j) = name
      /\ \A k \in 1 .. NStage : j = First(phase) + k => Program[at[w]][2] = K(k)
  BY <1>2, AtTurn
<1>4. j \in Nat
  BY <1>3
<1> QED
  BY <1>2, <1>3, <1>4 DEF TurnOf

(* Until a kernel gathers or stores, global memory is as it was.             *)
LEMMA Quiet ==
  ASSUME SplineInv, NEW w \in Warps, NEW name, NEW j, TurnOf(w, name, j), Advance(w),
         UNCHANGED global, name \notin {"gather_anchor", "store"}
  PROVE  Compressing' /\ Compressed' /\ Decompressing' /\ Decompressed'
<1>1. /\ at' = [at EXCEPT ![w] = @ + 1] /\ field' = field /\ phase' = phase /\ block' = block
      /\ anchor' = anchor /\ errctrl' = errctrl /\ xdata' = xdata
  BY DEF Advance, global
<1>2. at \in [Warps -> Nat] /\ j \in Nat /\ NStage \in Nat \ {0}
  BY NStageIs DEF SplineInv, Types, TurnOf
<1>3. at'[w] = 2 * j + 2 /\ at[w] = 2 * j + 1 /\ \A u \in Warps : u # w => at'[u] = at[u]
  BY <1>1, <1>2 DEF TurnOf
<1>4. phase \in Kernels /\ j \in 0 .. Halt(phase) - 1 /\ j # First(phase) + NStage + 1
      /\ ~(j = 2 /\ phase = "construct")
  BY OpIs DEF TurnOf
<1>5. Compressing'
  <2>1. CASE phase = "construct"
    <3>1. j # 2 /\ j # 3 + NStage
      BY <1>2, <1>4, <2>1 DEF First
    <3>2. \A u \in Warps : (at'[u] >= 6 => at[u] >= 6) /\ (at'[u] >= 8 + 2 * NStage => at[u] >= 8 + 2 * NStage)
      BY <1>2, <1>3, <3>1
    <3>3. Compressing
      BY DEF SplineInv
    <3> QED
      BY <1>1, <2>1, <3>2, <3>3 DEF Compressing
  <2> QED
    BY <1>1, <2>1 DEF Compressing
<1>6. Decompressing'
  <2>1. CASE phase = "reconstruct"
    <3>1. j # 2 + NStage
      BY <1>2, <1>4, <2>1 DEF First
    <3>2. \A u \in Warps : at'[u] >= 6 + 2 * NStage => at[u] >= 6 + 2 * NStage
      BY <1>2, <1>3, <3>1
    <3>3. Decompressing
      BY DEF SplineInv
    <3> QED
      BY <1>1, <2>1, <3>2, <3>3 DEF Decompressing
  <2> QED
    BY <1>1, <2>1 DEF Decompressing
<1>7. Compressed' /\ Decompressed'
  BY <1>1 DEF SplineInv, Compressed, Decompressed
<1> QED
  BY <1>5, <1>6, <1>7

(* An operation that writes shared memory only.                              *)
LEMMA SharedStep ==
  ASSUME SplineInv, NEW w \in Warps, NEW name, NEW j, TurnOf(w, name, j), Advance(w),
         UNCHANGED global, name \notin {"gather_anchor", "store"},
         shm_data' \in [Scratch -> Number], shm_errctrl' \in [Scratch -> Codes],
         \A c \in Scratch : c \notin Part(phase, j, w) => shm_data'[c] = shm_data[c] /\ shm_errctrl'[c] = shm_errctrl[c],
         \A c \in Part(phase, j, w) : Claim(phase, field, block, errctrl, j + 1, c, shm_data'[c], shm_errctrl'[c])
  PROVE  SplineInv'
<1>1. /\ phase \in Kernels /\ at \in [Warps -> Nat] /\ j \in 0 .. Halt(phase) /\ Turn(j) /\ Shared(j)
      /\ at[w] = 2 * j + 1 /\ (phase = "construct" \/ errctrl' = errctrl)
  BY DEF SplineInv, Types, TurnOf, global
<1>2. Shared(j)'
  BY <1>1, ClaimsMove
<1>3. /\ Turn(j)' /\ at' \in [Warps -> Nat] /\ field' = field /\ phase' = phase /\ block' = block
  BY <1>1, Took
<1>4. Working'
  BY <1>1, <1>2, <1>3 DEF Working
<1>5. anchor' = anchor /\ errctrl' = errctrl /\ xdata' = xdata
  BY DEF global
<1>6. Types'
  BY <1>3, <1>5 DEF SplineInv, Types
<1>7. Compressing' /\ Compressed' /\ Decompressing' /\ Decompressed'
  BY Quiet
<1>8. Bounded'
  <2>1. Halt(phase) \in Nat /\ j \in 0 .. Halt(phase) - 1
    BY NStageIs DEF TurnOf, Halt, First
  <2> QED
    BY <1>3, <2>1 DEF Bounded, Turn
<1> QED
  BY <1>4, <1>6, <1>7, <1>8 DEF SplineInv

(* Compression clears shared memory.                                         *)
LEMMA CResetStep ==
  ASSUME SplineInv, NEW w \in Warps, c_reset_scratch(w)
  PROVE  SplineInv'
<1>1. PICK j \in Nat : TurnOf(w, "c_reset", j)
  BY AtOp DEF SplineInv, c_reset_scratch
<1>2. j = 0 /\ phase = "construct" /\ Part(phase, j, w) = ScratchOf(w)
  BY <1>1, OpIs DEF TurnOf, Part
<1>3. ScratchOf(w) \subseteq Scratch
  BY ScratchShares
<1> DEFINE g == [c \in ScratchOf(w) |-> 0]
           h == [c \in {c \in ScratchOf(w) : IsAnchor(c)} |-> RADIUS]
<1>4. shm_data \in [Scratch -> Number] /\ shm_errctrl \in [Scratch -> Codes]
  BY DEF SplineInv, Types
<1>5. shm_data' = Over(shm_data, g) /\ shm_errctrl' = Over(shm_errctrl, h)
  BY DEF c_reset_scratch
<1>6. DOMAIN g = ScratchOf(w) /\ \A c \in DOMAIN g : g[c] = 0 /\ g[c] \in Number
  BY DEF Number
<1>7. DOMAIN h \subseteq ScratchOf(w) /\ \A c \in DOMAIN h : h[c] \in Codes
  BY Constants DEF Codes
<1> HIDE DEF g, h
<1>8. /\ shm_data' \in [Scratch -> Number] /\ \A c \in ScratchOf(w) : shm_data'[c] = 0
      /\ \A c \in Scratch : c \notin ScratchOf(w) => shm_data'[c] = shm_data[c]
  BY <1>3, <1>4, <1>5, <1>6, OverIs
<1>9. /\ shm_errctrl' \in [Scratch -> Codes]
      /\ \A c \in Scratch : c \notin ScratchOf(w) => shm_errctrl'[c] = shm_errctrl[c]
  BY <1>3, <1>4, <1>5, <1>7, OverIs
<1>10. ASSUME NEW c \in Part(phase, j, w)
       PROVE  Claim(phase, field, block, errctrl, j + 1, c, shm_data'[c], shm_errctrl'[c])
  <2>1. shm_data'[c] = 0 /\ j + 1 = 1
    BY <1>2, <1>8
  <2>2. NStage \in Nat /\ \A i \in 1 .. NStage : ~(i <= 1 - 3)
    BY NStageIs
  <2>3. CClaim(field, block, 1, c, 0, shm_errctrl'[c])
    BY <2>2 DEF CClaim
  <2> QED
    BY <1>2, <2>1, <2>3 DEF Claim
<1>11. Advance(w) /\ UNCHANGED global
  BY DEF c_reset_scratch
<1> QED
  BY <1>1, <1>2, <1>8, <1>9, <1>10, <1>11, SharedStep

(* Where the cells of shared memory lie.                                     *)
LEMMA LayCells ==
  ASSUME NEW f \in Fields, NEW b \in 0 .. NBlocks(f) - 1, NEW c \in Scratch
  PROVE  /\ c \in Cells /\ Lay(f, b, c) \in Cells /\ \A d \in 1 .. 3 : Lay(f, b, c)[d] >= 0
         /\ Within(Lay(f, b, c), f.len3) <=> Lay(f, b, c) \in Box(f.len3)
         /\ Within(Lay(f, b, c), Aligned(f)) <=> Lay(f, b, c) \in Box(Aligned(f))
         /\ c \in Box(SUBLEN) => Lay(f, b, c) \in Box(Aligned(f))
<1>1. c \in Cells /\ \A d \in 1 .. 3 : c[d] \in 0 .. SUBLEN[d]
  BY ScratchIs
<1> DEFINE g == Lay(f, b, c)
<1>2. g \in Cells /\ \E o \in Cells : \A d \in 1 .. 3 : g[d] = c[d] + o[d] /\ o[d] % BLOCK = 0 /\ o[d] \in Nat
                                                     /\ o[d] + SUBLEN[d] <= Aligned(f)[d]
  BY <1>1, LayIs
<1> HIDE DEF g
<1>3. PICK o \in Cells : \A d \in 1 .. 3 : g[d] = c[d] + o[d] /\ o[d] \in Nat /\ o[d] + SUBLEN[d] <= Aligned(f)[d]
  BY <1>2
<1>4. \A d \in 1 .. 3 : g[d] >= 0 /\ g[d] \in Nat
  BY <1>1, <1>3
<1>5. Sized(f.len3) /\ Sized(Aligned(f)) /\ \A d \in 1 .. 3 : Aligned(f)[d] \in Nat
  BY FieldIs, BlocksAre
<1>6. (Within(g, f.len3) <=> g \in Box(f.len3)) /\ (Within(g, Aligned(f)) <=> g \in Box(Aligned(f)))
  BY <1>2, <1>4, <1>5, WithinIs
<1>7. ASSUME c \in Box(SUBLEN) PROVE g \in Box(Aligned(f))
  <2>1. \A d \in 1 .. 3 : c[d] \in 0 .. SUBLEN[d] - 1 /\ SUBLEN[d] \in Nat
    BY <1>7, ScratchIs, SublenIs
  <2>2. \A d \in 1 .. 3 : g[d] < Aligned(f)[d]
    BY <1>3, <1>5, <2>1
  <2> QED
    BY <1>6, <2>2 DEF Within
<1> QED
  BY <1>1, <1>2, <1>4, <1>6, <1>7 DEF g

(* Compression loads the field, decompression the codes.                     *)
LEMMA LoadStep ==
  ASSUME SplineInv, NEW w \in Warps, global2shmem(w)
  PROVE  SplineInv'
<1>1. PICK j \in Nat : TurnOf(w, "load", j)
  BY AtOp DEF SplineInv, global2shmem
<1>2. j = 1 /\ Part(phase, j, w) = ScratchOf(w) /\ phase \in Kernels
  BY <1>1, OpIs DEF TurnOf, Part
<1>3. ScratchOf(w) \subseteq Scratch
  BY ScratchShares
<1>4. /\ shm_data \in [Scratch -> Number] /\ shm_errctrl \in [Scratch -> Codes]
      /\ field \in Fields /\ block \in 0 .. NBlocks(field) - 1 /\ errctrl \in [Box(Aligned(field)) -> Codes]
  BY DEF SplineInv, Types
<1>5. Advance(w) /\ UNCHANGED global
  BY DEF global2shmem
<1>6. aligned_len3 = Aligned(field) /\ \A c : Global(c) = Lay(field, block, c)
  BY Geometry, OfCells
<1> DEFINE G(c) == Lay(field, block, c)
<1>7. ASSUME NEW c \in ScratchOf(w)
      PROVE  Claim(phase, field, block, errctrl, 1, c, shm_data[c], shm_errctrl[c])
  <2>1. Reached(phase, at, j, c) = j /\ c \in Scratch
    BY <1>1, <1>2, <1>3, <1>7, ReachedIs DEF TurnOf
  <2> QED
    BY <1>1, <1>2, <2>1 DEF TurnOf, Shared
<1>8. ASSUME NEW c \in Scratch
      PROVE  /\ Within(G(c), field.len3) <=> G(c) \in Box(field.len3)
             /\ Within(G(c), Aligned(field)) <=> G(c) \in Box(Aligned(field))
             /\ G(c) \in Cells /\ c \in Cells /\ \A d \in 1 .. 3 : G(c)[d] >= 0
  BY <1>4, <1>8, LayCells
<1> HIDE DEF G
<1>9. CASE phase = "construct"
  <2> DEFINE S == {c \in ScratchOf(w) : Within(Global(c), field.len3)}
             g == [c \in S |-> field.data[Global(c)]]
  <2>1. shm_data' = Over(shm_data, g) /\ shm_errctrl' = shm_errctrl
    BY <1>9 DEF global2shmem
  <2>2. DOMAIN g = S /\ S \subseteq ScratchOf(w)
    OBVIOUS
  <2>3. \A c \in ScratchOf(w) : c \in S <=> G(c) \in Box(field.len3)
    BY <1>3, <1>6, <1>8 DEF G
  <2>4. \A c \in S : g[c] = field.data[G(c)] /\ field.data[G(c)] \in Int
    <3>1. field.data \in [Box(field.len3) -> Int]
      BY <1>4, FieldIs
    <3> QED
      BY <1>6, <2>3, <3>1 DEF G
  <2> HIDE DEF g, S
  <2>5. /\ shm_data' \in [Scratch -> Number]
        /\ \A c \in S : shm_data'[c] = field.data[G(c)]
        /\ \A c \in Scratch : c \notin S => shm_data'[c] = shm_data[c]
    <3>1. DOMAIN g \subseteq Scratch /\ \A c \in DOMAIN g : g[c] \in Number
      BY <1>3, <2>2, <2>4 DEF Number
    <3>2. /\ Over(shm_data, g) \in [Scratch -> Number]
          /\ \A c \in DOMAIN g : Over(shm_data, g)[c] = g[c]
          /\ \A c \in Scratch : c \notin DOMAIN g => Over(shm_data, g)[c] = shm_data[c]
      <4>1. shm_data \in [Scratch -> Number]
        BY <1>4
      <4> QED
        BY <3>1, <4>1, OverIs
    <3>3. DOMAIN g = S /\ shm_data' = Over(shm_data, g)
      BY <2>1, <2>2
    <3>4. ASSUME NEW c \in S PROVE shm_data'[c] = field.data[G(c)]
      <4>1. Over(shm_data, g)[c] = g[c]
        BY <3>2, <3>3
      <4>2. g[c] = field.data[G(c)]
        BY <2>4
      <4> QED
        BY <3>3, <4>1, <4>2
    <3> QED
      BY <3>2, <3>3, <3>4
  <2>6. ASSUME NEW c \in ScratchOf(w) PROVE shm_data'[c] = Val(field, 0)[G(c)]
    <3>1. c \in Scratch /\ G(c) \in Cells
      BY <1>3, <1>8
    <3>2. Val(field, 0)[G(c)] = IF G(c) \in Box(field.len3) THEN field.data[G(c)] ELSE 0
      BY <1>4, <3>1, ValIs DEF FieldOf
    <3>3. shm_data[c] = 0
      <4>1. CClaim(field, block, 1, c, shm_data[c], shm_errctrl[c])
        BY <1>7, <1>9 DEF Claim
      <4> QED
        BY <4>1 DEF CClaim
    <3> QED
      BY <2>3, <2>5, <3>1, <3>2, <3>3
  <2>7. ASSUME NEW c \in Part(phase, j, w)
        PROVE  Claim(phase, field, block, errctrl, j + 1, c, shm_data'[c], shm_errctrl'[c])
    <3>1. shm_data'[c] = Val(field, 0)[Lay(field, block, c)]
      BY <1>2, <2>6 DEF G
    <3>2. NStage \in Nat /\ \A i \in 1 .. NStage : ~(i <= 2 - 3)
      BY NStageIs
    <3>3. CClaim(field, block, 2, c, shm_data'[c], shm_errctrl'[c])
      BY <3>1, <3>2 DEF CClaim
    <3> QED
      BY <1>2, <1>9, <3>3 DEF Claim
  <2> QED
    BY <1>1, <1>2, <1>4, <1>5, <2>1, <2>2, <2>5, <2>7, SharedStep
<1>10. CASE phase = "reconstruct"
  <2> DEFINE S == {c \in ScratchOf(w) : Within(Global(c), aligned_len3)}
             g == [c \in S |-> errctrl[Global(c)]]
  <2>1. shm_errctrl' = Over(shm_errctrl, g) /\ shm_data' = shm_data
    BY <1>10 DEF global2shmem
  <2>2. DOMAIN g = S /\ S \subseteq ScratchOf(w)
    OBVIOUS
  <2>3. \A c \in ScratchOf(w) : c \in S <=> G(c) \in Box(Aligned(field))
    BY <1>3, <1>6, <1>8 DEF G
  <2>4. \A c \in S : g[c] = errctrl[G(c)] /\ errctrl[G(c)] \in Codes
    BY <1>4, <1>6, <2>3 DEF G
  <2> HIDE DEF g, S
  <2>5. /\ shm_errctrl' \in [Scratch -> Codes]
        /\ \A c \in S : shm_errctrl'[c] = errctrl[G(c)]
        /\ \A c \in Scratch : c \notin S => shm_errctrl'[c] = shm_errctrl[c]
    <3>1. DOMAIN g \subseteq Scratch /\ \A c \in DOMAIN g : g[c] \in Codes
      BY <1>3, <2>2, <2>4
    <3>2. /\ Over(shm_errctrl, g) \in [Scratch -> Codes]
          /\ \A c \in DOMAIN g : Over(shm_errctrl, g)[c] = g[c]
          /\ \A c \in Scratch : c \notin DOMAIN g => Over(shm_errctrl, g)[c] = shm_errctrl[c]
      <4>1. shm_errctrl \in [Scratch -> Codes]
        BY <1>4
      <4> QED
        BY <3>1, <4>1, OverIs
    <3>3. DOMAIN g = S /\ shm_errctrl' = Over(shm_errctrl, g)
      BY <2>1, <2>2
    <3>4. ASSUME NEW c \in S PROVE shm_errctrl'[c] = errctrl[G(c)]
      <4>1. Over(shm_errctrl, g)[c] = g[c]
        BY <3>2, <3>3
      <4>2. g[c] = errctrl[G(c)]
        BY <2>4
      <4> QED
        BY <3>3, <4>1, <4>2
    <3> QED
      BY <3>2, <3>3, <3>4
  <2>6. ASSUME NEW c \in Part(phase, j, w)
        PROVE  Claim(phase, field, block, errctrl, j + 1, c, shm_data'[c], shm_errctrl'[c])
    <3>1. c \in ScratchOf(w) /\ c \in Scratch
      BY <1>2, <1>3
    <3>2. SUFFICES ASSUME Fit(errctrl), Inner(field, G(c))
                   PROVE  /\ Known(0, c) => shm_data[c] = Val(field, 0)[G(c)]
                          /\ shm_errctrl'[c] = errctrl[G(c)]
      <4>1. NStage \in {3, 6, 9}
        BY NStageIs
      <4> QED
        BY <1>2, <1>10, <2>1, <3>2, <4>1 DEF Claim, RClaim, G
    <3>3. shm_errctrl'[c] = errctrl[G(c)]
      <4>1. G(c) \in Box(Aligned(field))
        BY <1>4, <1>8, <3>1, <3>2, InnerInside
      <4> QED
        BY <2>3, <2>5, <3>1, <4>1
    <3>4. ASSUME Known(0, c) PROVE shm_data[c] = Val(field, 0)[G(c)]
      <4>1. IsAnchor(c)
        BY <1>4, <1>8, <3>1, <3>4, AnchorsLie
      <4>2. RClaim(field, block, errctrl, 1, c, shm_data[c], shm_errctrl[c])
        BY <1>7, <1>10, <3>1, <3>2 DEF Claim
      <4> QED
        BY <3>2, <4>1, <4>2 DEF RClaim, G
    <3> QED
      BY <3>3, <3>4
  <2> QED
    BY <1>1, <1>2, <1>4, <1>5, <2>1, <2>2, <2>5, <2>6, SharedStep
<1> QED
  BY <1>2, <1>9, <1>10 DEF Kernels

(* The same, of what a step leaves.                                          *)
LEMMA OverOn ==
  ASSUME NEW D, NEW R, NEW f, f \in [D -> R], NEW S, S \subseteq D, NEW g, DOMAIN g = S, \A x \in S : g[x] \in R,
         NEW h, h = Over(f, g)
  PROVE  /\ h \in [D -> R]
         /\ \A x \in S : h[x] = g[x]
         /\ \A x \in D : x \notin S => h[x] = f[x]
<1>1. /\ Over(f, g) \in [D -> R]
      /\ \A x \in DOMAIN g : Over(f, g)[x] = g[x]
      /\ \A x \in D : x \notin DOMAIN g => Over(f, g)[x] = f[x]
  BY OverIs
<1> QED
  BY <1>1

(* Decompression loads the anchors.                                          *)
LEMMA XResetStep ==
  ASSUME SplineInv, NEW w \in Warps, x_reset_scratch(w)
  PROVE  SplineInv'
<1>1. PICK j \in Nat : TurnOf(w, "x_reset", j)
  BY AtOp DEF SplineInv, x_reset_scratch
<1>2. j = 0 /\ phase = "reconstruct" /\ Part(phase, j, w) = ScratchOf(w)
  BY <1>1, OpIs DEF TurnOf, Part
<1>3. ScratchOf(w) \subseteq Scratch
  BY ScratchShares
<1>4. /\ shm_data \in [Scratch -> Number] /\ shm_errctrl \in [Scratch -> Codes]
      /\ field \in Fields /\ block \in 0 .. NBlocks(field) - 1
  BY DEF SplineInv, Types
<1>5. anchor \in [Box(AnchorLen(field)) -> Number]
  BY DEF SplineInv, Types
<1>6. Advance(w) /\ UNCHANGED global
  BY DEF x_reset_scratch
<1> DEFINE G(c) == Lay(field, block, c)
<1>7. anchor_len3 = AnchorLen(field) /\ \A c : Global(c) = G(c)
  BY Geometry, OfCells
<1>8. Archived(field, anchor, errctrl)
  BY <1>2 DEF SplineInv, Compressed
<1>9. ASSUME NEW c \in Scratch
      PROVE  /\ G(c) \in Cells /\ c \in Cells /\ \A d \in 1 .. 3 : G(c)[d] >= 0
             /\ OnAnchor(G(c)) <=> IsAnchor(c)
             /\ IsAnchor(c) => /\ Within(AnchorOf(G(c)), AnchorLen(field)) <=> G(c) \in Box(field.len3)
                               /\ AnchorOf(G(c)) \in Box(AnchorLen(field)) <=> G(c) \in Box(field.len3)
  <2>1. G(c) \in Cells /\ c \in Cells /\ \A d \in 1 .. 3 : G(c)[d] >= 0
    BY <1>4, <1>9, LayCells
  <2>2. OnAnchor(G(c)) <=> IsAnchor(c)
    BY <1>4, <2>1, AnchorsLie
  <2> HIDE DEF G
  <2> QED
    BY <1>4, <2>1, <2>2, AnchorCells
<1> DEFINE S == {c \in ScratchOf(w) : IsAnchor(c)}
           val(c) == LET a == AnchorOf(Global(c)) IN IF Within(a, anchor_len3) THEN anchor[a] ELSE 0
           g == [c \in S |-> val(c)]
           h == [c \in ScratchOf(w) |-> 0]
<1>10. shm_data' = Over(shm_data, g) /\ shm_errctrl' = Over(shm_errctrl, h)
  BY DEF x_reset_scratch
<1>11. ASSUME NEW c \in S PROVE val(c) \in Number /\ val(c) = Val(field, 0)[G(c)]
  <2>1. c \in Scratch /\ IsAnchor(c)
    BY <1>3, <1>11
  <2>2. /\ G(c) \in Cells /\ OnAnchor(G(c))
        /\ Within(AnchorOf(G(c)), AnchorLen(field)) <=> G(c) \in Box(field.len3)
        /\ AnchorOf(G(c)) \in Box(AnchorLen(field)) <=> G(c) \in Box(field.len3)
    BY <1>9, <2>1
  <2>3. val(c) = IF G(c) \in Box(field.len3) THEN anchor[AnchorOf(G(c))] ELSE 0
    BY <1>7, <2>2
  <2> HIDE DEF val, G
  <2>4. Val(field, 0)[G(c)] = IF G(c) \in Box(field.len3) THEN field.data[G(c)] ELSE 0
    BY <1>4, <2>2, ValIs DEF FieldOf
  <2>5. G(c) \in Box(field.len3) => anchor[AnchorOf(G(c))] = field.data[G(c)] /\ anchor[AnchorOf(G(c))] \in Number
    BY <1>5, <1>8, <2>2 DEF Archived
  <2> QED
    BY <2>3, <2>4, <2>5 DEF Number
<1>12. DOMAIN g = S /\ S \subseteq Scratch /\ \A c \in S : g[c] = val(c) /\ g[c] \in Number
  BY <1>3, <1>11
<1>13. DOMAIN h = ScratchOf(w) /\ \A c \in ScratchOf(w) : h[c] \in Codes
  BY Constants DEF Codes
<1>14. \A c : c \in S <=> c \in ScratchOf(w) /\ IsAnchor(c)
  OBVIOUS
<1> HIDE DEF g, h, S, val, G
<1>15. /\ shm_data' \in [Scratch -> Number] /\ \A c \in S : shm_data'[c] = g[c]
       /\ \A c \in Scratch : c \notin S => shm_data'[c] = shm_data[c]
  <2>1. shm_data \in [Scratch -> Number] /\ \A c \in S : g[c] \in Number
    BY <1>4, <1>12
  <2> QED
    BY <1>10, <1>12, <2>1, OverOn
<1>16. /\ shm_errctrl' \in [Scratch -> Codes]
       /\ \A c \in Scratch : c \notin ScratchOf(w) => shm_errctrl'[c] = shm_errctrl[c]
  <2>1. shm_errctrl \in [Scratch -> Codes]
    BY <1>4
  <2> QED
    BY <1>3, <1>10, <1>13, <2>1, OverOn
<1>17. ASSUME NEW c \in Part(phase, j, w)
       PROVE  Claim(phase, field, block, errctrl, j + 1, c, shm_data'[c], shm_errctrl'[c])
  <2>1. IsAnchor(c) => shm_data'[c] = Val(field, 0)[G(c)]
    BY <1>2, <1>11, <1>12, <1>14, <1>15
  <2>2. NStage \in Nat /\ 1 - 2 \notin 0 .. NStage
    BY NStageIs
  <2>3. RClaim(field, block, errctrl, 1, c, shm_data'[c], shm_errctrl'[c])
    BY <2>1, <2>2 DEF RClaim, G
  <2>4. j + 1 = 1 /\ phase # "construct"
    BY <1>2
  <2> QED
    BY <2>3, <2>4 DEF Claim
<1>18. \A c \in Scratch : c \notin Part(phase, j, w) => shm_data'[c] = shm_data[c] /\ shm_errctrl'[c] = shm_errctrl[c]
  BY <1>2, <1>14, <1>15, <1>16
<1> QED
  BY <1>1, <1>6, <1>15, <1>16, <1>17, <1>18, SharedStep

(* An operation that leaves shared memory alone.                             *)
LEMMA GlobalStep ==
  ASSUME SplineInv, NEW w \in Warps, NEW name \in {"gather_anchor", "store"}, NEW j, TurnOf(w, name, j), Advance(w),
         UNCHANGED <<shm_data, shm_errctrl>>, phase = "construct" \/ errctrl' = errctrl
  PROVE  /\ Working' /\ Bounded' /\ field' = field /\ phase' = phase /\ block' = block /\ at' \in [Warps -> Nat]
         /\ at'[w] = 2 * j + 2 /\ \A u \in Warps : u # w => at'[u] = at[u]
         /\ shm_data' = shm_data /\ shm_errctrl' = shm_errctrl
         /\ j \in Nat /\ NStage \in Nat \ {0}
         /\ name = "gather_anchor" => j = 2 /\ phase = "construct"
         /\ name = "store" => j = First(phase) + NStage + 1
<1>1. /\ phase \in Kernels /\ at \in [Warps -> Nat] /\ j \in 0 .. Halt(phase) /\ Turn(j) /\ Shared(j)
      /\ at[w] = 2 * j + 1 /\ j \in 0 .. Halt(phase) - 1 /\ OpOf(phase, j) = name
  BY DEF SplineInv, Types, TurnOf
<1>2. NStage \in Nat \ {0} /\ Halt(phase) \in Nat /\ j \in Nat
  BY <1>1, NStageIs DEF Halt, First
<1>3. /\ name = "gather_anchor" => j = 2 /\ phase = "construct"
      /\ name = "store" => j = First(phase) + NStage + 1
  BY <1>1, OpIs
<1>4. Part(phase, j, w) = {}
  BY <1>1, <1>2, <1>3 DEF Part, First, Kernels
<1>5. Shared(j)'
  BY <1>1, <1>4, ClaimsMove
<1>6. /\ Turn(j)' /\ at' \in [Warps -> Nat] /\ field' = field /\ phase' = phase /\ block' = block
      /\ at'[w] = 2 * j + 2 /\ \A u \in Warps : u # w => at'[u] = at[u]
  BY <1>1, Took
<1>7. Working'
  BY <1>1, <1>5, <1>6 DEF Working
<1>8. Bounded'
  BY <1>1, <1>2, <1>6 DEF Bounded, Turn
<1> QED
  BY <1>2, <1>3, <1>6, <1>7, <1>8

(* The boxes that are gathered and stored lie in shared memory.              *)
LEMMA FaceIs ==
  /\ Sized(Face) /\ Box(Face) \subseteq Scratch /\ Sized(SUBLEN) /\ Box(SUBLEN) \subseteq Scratch
  /\ \A w : Share(w, Face) \subseteq Box(Face) /\ Share(w, SUBLEN) \subseteq Box(SUBLEN)
<1>1. Face[1] = SUBLEN[1] /\ Face[2] = BLOCK /\ Face[3] = 1 /\ BLOCK \in {2, 4, 8}
  BY BlockIs DEF Face
<1>2. SUBLEN[1] \in Nat \ {0} /\ SUBLEN[2] = BLOCK /\ SUBLEN[3] = BLOCK
  BY BlockIs
<1>3. Sized(Face) /\ Sized(SUBLEN)
  BY <1>1, <1>2 DEF Sized
<1>4. ASSUME NEW c \in Box(Face) PROVE c \in Scratch
  <2>1. c \in Cells /\ \A d \in 1 .. 3 : c[d] \in 0 .. Face[d] - 1
    BY <1>1, <1>2, BoxIs
  <2>2. \A d \in 1 .. 3 : c[d] \in 0 .. SUBLEN[d]
    BY <1>1, <1>2, <2>1
  <2> QED
    BY <2>1, <2>2, ScratchIs
<1>5. Box(SUBLEN) \subseteq Scratch
  BY ScratchIs
<1>6. \A w : Share(w, Face) \subseteq Box(Face) /\ Share(w, SUBLEN) \subseteq Box(SUBLEN)
  BY <1>3, ShareIs
<1> QED
  BY <1>3, <1>4, <1>5, <1>6

(* Anchors that are gathered twice are the same.                             *)
LEMMA AnchorsStay ==
  ASSUME NEW f \in Fields, NEW b \in 0 .. NBlocks(f) - 1, NEW C, C \subseteq Scratch, NEW old, NEW new,
         AnchorsOf(f, b, C, old),
         \A g \in Box(f.len3) : OnAnchor(g) => new[AnchorOf(g)] = f.data[g] \/ new[AnchorOf(g)] = old[AnchorOf(g)]
  PROVE  AnchorsOf(f, b, C, new)
<1>1. ASSUME NEW c \in C, IsAnchor(c), Lay(f, b, c) \in Box(f.len3)
      PROVE  new[AnchorOf(Lay(f, b, c))] = f.data[Lay(f, b, c)]
  <2>1. OnAnchor(Lay(f, b, c))
    BY <1>1, LayCells, AnchorsLie
  <2>2. old[AnchorOf(Lay(f, b, c))] = f.data[Lay(f, b, c)]
    BY <1>1 DEF AnchorsOf
  <2> QED
    BY <1>1, <2>1, <2>2
<1> QED
  BY <1>1 DEF AnchorsOf

(* Compression gathers the anchors.                                          *)
LEMMA GatherStep ==
  ASSUME SplineInv, NEW w \in Warps, c_gather_anchor(w)
  PROVE  SplineInv'
<1>1. PICK j \in Nat : TurnOf(w, "gather_anchor", j)
  BY AtOp DEF SplineInv, c_gather_anchor
<1>2. Advance(w) /\ UNCHANGED <<shm_data, shm_errctrl>> /\ errctrl' = errctrl /\ xdata' = xdata
  BY DEF c_gather_anchor
<1>3. /\ Working' /\ Bounded' /\ field' = field /\ phase' = phase /\ block' = block /\ at' \in [Warps -> Nat]
      /\ at'[w] = 6 /\ \A u \in Warps : u # w => at'[u] = at[u]
      /\ shm_data' = shm_data /\ shm_errctrl' = shm_errctrl
      /\ NStage \in Nat \ {0} /\ phase = "construct"
  <2>1. "gather_anchor" \in {"gather_anchor", "store"}
    OBVIOUS
  <2> QED
    BY <1>1, <1>2, <2>1, GlobalStep
<1>4. field \in Fields /\ block \in 0 .. NBlocks(field) - 1 /\ anchor \in [Box(AnchorLen(field)) -> Number]
  BY DEF SplineInv, Types
<1> DEFINE G(c) == Lay(field, block, c)
           mine == {c \in Share(w, Face) : IsAnchor(c) /\ Gathered(c)}
           S == {AnchorOf(Global(c)) : c \in mine}
           X(a) == [d \in 1 .. 3 |-> BLOCK * a[d]]
           val(a) == LET g == X(a) IN IF g \in DOMAIN field.data THEN field.data[g] ELSE Undef
           h == [a \in S |-> val(a)]
<1>5. anchor' = Over(anchor, h)
  BY DEF c_gather_anchor, Face
<1>6. \A c : Global(c) = G(c)
  BY OfCells
<1>7. ASSUME NEW g \in Box(field.len3), OnAnchor(g)
      PROVE  /\ X(AnchorOf(g)) = g /\ AnchorOf(g) \in Box(AnchorLen(field))
             /\ val(AnchorOf(g)) = field.data[g] /\ field.data[g] \in Int
  <2>1. g \in Cells /\ \A d \in 1 .. 3 : g[d] >= 0
    <3>1. g \in Cells /\ \A d \in 1 .. 3 : g[d] \in Nat
      BY <1>4, FieldInside
    <3> QED
      BY <3>1
  <2>2. X(AnchorOf(g)) = g /\ AnchorOf(g) \in Box(AnchorLen(field))
    BY <1>4, <1>7, <2>1, AnchorCells
  <2>3. DOMAIN field.data = Box(field.len3) /\ field.data \in [Box(field.len3) -> Int]
    BY <1>4, FieldIs
  <2> QED
    BY <2>2, <2>3
<1>8. ASSUME NEW c \in mine PROVE G(c) \in Box(field.len3) /\ OnAnchor(G(c))
  <2>1. c \in Scratch /\ IsAnchor(c) /\ Within(Global(c), field.len3)
    BY FaceIs DEF Gathered, OfField
  <2> QED
    BY <1>4, <1>6, <2>1, LayCells, AnchorsLie
<1>9. ASSUME NEW c \in Share(w, Face), IsAnchor(c), G(c) \in Box(field.len3) PROVE AnchorOf(G(c)) \in S
  <2>1. c \in Scratch
    BY FaceIs
  <2>2. Within(Global(c), field.len3)
    BY <1>4, <1>6, <1>9, <2>1, LayCells
  <2> QED
    BY <1>6, <1>9, <2>2 DEF Gathered, OfField
<1>10. ASSUME NEW a \in S PROVE a \in Box(AnchorLen(field)) /\ val(a) \in Number
  <2>1. PICK c \in mine : a = AnchorOf(Global(c))
    OBVIOUS
  <2>2. a = AnchorOf(G(c)) /\ G(c) \in Box(field.len3) /\ OnAnchor(G(c))
    BY <1>6, <1>8, <2>1
  <2> HIDE DEF G, mine, S, val
  <2> QED
    BY <1>7, <2>2 DEF Number
<1>11. DOMAIN h = S /\ S \subseteq Box(AnchorLen(field)) /\ \A a \in S : h[a] = val(a) /\ h[a] \in Number
  BY <1>10
<1> HIDE DEF S, h, val, G, X
<1>12. /\ anchor' \in [Box(AnchorLen(field)) -> Number]
       /\ \A a \in S : anchor'[a] = h[a]
       /\ \A a \in Box(AnchorLen(field)) : a \notin S => anchor'[a] = anchor[a]
  <2>1. anchor \in [Box(AnchorLen(field)) -> Number] /\ \A a \in S : h[a] \in Number
    BY <1>4, <1>11
  <2> QED
    BY <1>5, <1>11, <2>1, OverOn
<1>13. ASSUME NEW g \in Box(field.len3), OnAnchor(g)
       PROVE  IF AnchorOf(g) \in S THEN anchor'[AnchorOf(g)] = field.data[g]
                                   ELSE anchor'[AnchorOf(g)] = anchor[AnchorOf(g)]
  BY <1>7, <1>11, <1>12, <1>13
<1>14. ASSUME NEW b \in 0 .. NBlocks(field) - 1, NEW C, C \subseteq Scratch, AnchorsOf(field, b, C, anchor)
       PROVE  AnchorsOf(field, b, C, anchor')
  <2>1. \A g \in Box(field.len3) : OnAnchor(g) =>
           anchor'[AnchorOf(g)] = field.data[g] \/ anchor'[AnchorOf(g)] = anchor[AnchorOf(g)]
    BY <1>13
  <2> QED
    BY <1>4, <1>14, <2>1, AnchorsStay
<1>15. AnchorsOf(field, block, Share(w, Face), anchor')
  <2>1. ASSUME NEW c \in Share(w, Face), IsAnchor(c), Lay(field, block, c) \in Box(field.len3)
        PROVE  anchor'[AnchorOf(Lay(field, block, c))] = field.data[Lay(field, block, c)]
    <3>1. c \in Scratch
      BY FaceIs
    <3>2. OnAnchor(Lay(field, block, c))
      BY <1>4, <2>1, <3>1, LayCells, AnchorsLie
    <3>3. AnchorOf(Lay(field, block, c)) \in S
      BY <1>9, <2>1 DEF G
    <3> QED
      BY <1>13, <2>1, <3>2, <3>3
  <2> QED
    BY <2>1 DEF AnchorsOf
<1>16. Compressing
  BY DEF SplineInv
<1>17. Compressing'
  <2>1. ASSUME NEW b \in 0 .. block - 1
        PROVE  AnchorsOf(field, b, Box(Face), anchor') /\ CodesOf(field, b, Box(SUBLEN), errctrl)
    <3>1. b \in 0 .. NBlocks(field) - 1
      BY <1>4, BlocksAre
    <3>2. AnchorsOf(field, b, Box(Face), anchor) /\ CodesOf(field, b, Box(SUBLEN), errctrl)
      BY <1>3, <1>16 DEF Compressing
    <3> QED
      BY <1>14, <3>1, <3>2, FaceIs
  <2>2. ASSUME NEW u \in Warps, at'[u] >= 6 PROVE AnchorsOf(field, block, Share(u, Face), anchor')
    <3>1. CASE u = w
      BY <1>15, <3>1
    <3>2. CASE u # w
      <4>1. AnchorsOf(field, block, Share(u, Face), anchor)
        BY <1>3, <1>16, <2>2, <3>2 DEF Compressing
      <4>2. Share(u, Face) \subseteq Scratch
        BY FaceIs
      <4> QED
        BY <1>4, <1>14, <4>1, <4>2
    <3> QED
      BY <3>1, <3>2
  <2>3. ASSUME NEW u \in Warps, at'[u] >= 8 + 2 * NStage PROVE CodesOf(field, block, Share(u, SUBLEN), errctrl)
    <3>1. u # w
      BY <1>3, <2>3
    <3> QED
      BY <1>3, <1>16, <2>3, <3>1 DEF Compressing
  <2> QED
    BY <1>2, <1>3, <2>1, <2>2, <2>3 DEF Compressing
<1>18. Types'
  BY <1>2, <1>3, <1>12 DEF SplineInv, Types
<1>19. Compressed' /\ Decompressing' /\ Decompressed'
  BY <1>3 DEF Compressed, Decompressing, Decompressed
<1> QED
  BY <1>3, <1>17, <1>18, <1>19 DEF SplineInv

(* Values and codes are of their types.                                      *)
LEMMA NumbersAre ==
  /\ \A a, b \in Number : Mean(a, b) \in Number
  /\ \A a, b \in Number : Value(a, b) \in Number
  /\ \A e : Kept(e) \in Codes
  /\ \A e \in Int : Kept(e) # Undef => Kept(e) = e
  /\ \A a, b \in Number : (IF Undef \in {a, b} THEN Undef ELSE Steps(b - a) + RADIUS) \in Number
<1> USE Constants
<1>1. \A a, b \in Number : Mean(a, b) \in Number
  BY DEF Number, Mean
<1>2. ASSUME NEW a \in Number, NEW b \in Number PROVE Value(a, b) \in Number
  <2>1. CASE Undef \in {a, b}
    BY <2>1 DEF Value, Number
  <2>2. CASE Undef \notin {a, b}
    <3>1. a \in Int /\ b \in Int
      BY <2>2 DEF Number
    <3>2. Value(a, b) = a + (b - RADIUS) * 2 * EB
      BY <2>2 DEF Value
    <3>3. (b - RADIUS) * 2 \in Int
      BY <3>1
    <3>4. ((b - RADIUS) * 2) * EB \in Int
      BY <3>3
    <3> QED
      BY <3>1, <3>2, <3>4 DEF Number
  <2> QED
    BY <2>1, <2>2
<1>3. \A e : Kept(e) \in Codes
  BY DEF Kept, Codes
<1>4. \A e \in Int : Kept(e) # Undef => Kept(e) = e
  BY DEF Kept
<1>5. ASSUME NEW a \in Number, NEW b \in Number
      PROVE  (IF Undef \in {a, b} THEN Undef ELSE Steps(b - a) + RADIUS) \in Number
  <2>1. CASE Undef \in {a, b}
    BY <2>1 DEF Number
  <2>2. CASE Undef \notin {a, b}
    <3>1. b - a \in Int
      BY <2>2 DEF Number
    <3>2. Steps(b - a) \in Int
      BY <3>1, StepsBound
    <3> QED
      BY <2>2, <3>2 DEF Number
  <2> QED
    BY <2>1, <2>2
<1> QED
  BY <1>1, <1>2, <1>3, <1>4, <1>5

(* A cell's claim while the warp that has it, if one does, is before stage k. *)
Waits(w, k, j) ==
  /\ phase \in Kernels /\ j \in 0 .. Halt(phase) /\ Shared(j) /\ at[w] = 2 * j + 1
  /\ k \in 1 .. NStage /\ j = First(phase) + k
LEMMA ClaimHeld ==
  ASSUME NEW w \in Warps, NEW k, NEW j, Waits(w, k, j), NEW c \in Scratch,
         c \in Mine(k, w) \/ \A u \in Warps : c \notin Mine(k, u)
  PROVE  /\ phase = "construct" => shm_data[c] = Val(field, k - 1)[Lay(field, block, c)]
         /\ phase = "construct" => CClaim(field, block, k + 2, c, shm_data[c], shm_errctrl[c])
         /\ phase = "reconstruct" /\ Fit(errctrl) /\ Inner(field, Lay(field, block, c)) =>
              /\ Known(k - 1, c) => shm_data[c] = Val(field, k - 1)[Lay(field, block, c)]
              /\ shm_errctrl[c] = errctrl[Lay(field, block, c)]
<1>1. k \in 1 .. NStage /\ NStage \in Nat /\ First(phase) \in {1, 2} /\ j = First(phase) + k /\ phase \in Kernels
      /\ j \in 0 .. Halt(phase)
  BY NStageIs DEF Waits, First
<1>2. \A u : Part(phase, j, u) = Mine(k, u)
  <2>1. j \notin {0, 1} /\ j - First(phase) = k
    BY <1>1
  <2> QED
    BY <1>1, <2>1 DEF Part
<1>3. Reached(phase, at, j, c) = j
  <2>1. CASE c \in Mine(k, w)
    <3>1. c \in Part(phase, j, w) /\ at[w] = 2 * j + 1
      BY <1>2, <2>1 DEF Waits
    <3> QED
      BY <1>1, <3>1, ReachedIs
  <2>2. CASE \A u \in Warps : c \notin Mine(k, u)
    BY <1>2, <2>2, ReachedUntouched
  <2> QED
    BY <2>1, <2>2
<1>4. Claim(phase, field, block, errctrl, j, c, shm_data[c], shm_errctrl[c])
  BY <1>3 DEF Waits, Shared
<1>5. ASSUME phase = "construct"
      PROVE  /\ shm_data[c] = Val(field, k - 1)[Lay(field, block, c)]
             /\ CClaim(field, block, k + 2, c, shm_data[c], shm_errctrl[c])
  <2>1. j = k + 2 /\ j - 3 = k - 1 /\ j - 3 \in 0 .. NStage - 1
    BY <1>1, <1>5 DEF First
  <2>2. CClaim(field, block, j, c, shm_data[c], shm_errctrl[c])
    BY <1>4, <1>5 DEF Claim
  <2>3. shm_data[c] = Val(field, j - 3)[Lay(field, block, c)]
    BY <2>1, <2>2 DEF CClaim
  <2> QED
    BY <2>1, <2>2, <2>3
<1>6. ASSUME phase = "reconstruct", Fit(errctrl), Inner(field, Lay(field, block, c))
      PROVE  /\ Known(k - 1, c) => shm_data[c] = Val(field, k - 1)[Lay(field, block, c)]
             /\ shm_errctrl[c] = errctrl[Lay(field, block, c)]
  <2>1. j - 2 = k - 1 /\ j - 2 \in 0 .. NStage /\ phase # "construct" /\ Within3(j - 2, c)
    BY <1>1, <1>6 DEF First, Within3
  <2>2. RClaim(field, block, errctrl, j, c, shm_data[c], shm_errctrl[c])
    BY <1>4, <1>6, <2>1 DEF Claim
  <2>3. /\ Known(j - 2, c) => shm_data[c] = Val(field, j - 2)[Lay(field, block, c)]
        /\ shm_errctrl[c] = errctrl[Lay(field, block, c)]
    BY <1>6, <2>1, <2>2 DEF RClaim
  <2> QED
    BY <2>1, <2>3
<1> QED
  BY <1>5, <1>6

(* What a warp predicts for a cell from the cells around it, which no warp   *)
(* of the stage writes.                                                      *)
LEMMA PredictIs ==
  ASSUME SplineInv, NEW w \in Warps, NEW k, NEW j, Waits(w, k, j), NEW c \in Mine(k, w),
         phase = "construct" \/ (phase = "reconstruct" /\ Fit(errctrl) /\ Inner(field, Lay(field, block, c)))
  PROVE  Mean(shm_data[Shift(c, K(k).axis, -K(k).unit)], shm_data[Shift(c, K(k).axis, K(k).unit)])
           = Predict(Val(field, k - 1), k, Lay(field, block, c))
<1>1. k \in 1 .. NStage /\ c \in Scratch /\ c \in Cells /\ Pat(k, c)
  BY MineIs, ScratchIs DEF Waits
<1>2. field \in Fields /\ block \in 0 .. NBlocks(field) - 1
  BY DEF SplineInv, Types
<1> DEFINE G(x) == Lay(field, block, x)
           L == Shift(c, K(k).axis, -K(k).unit)
           R == Shift(c, K(k).axis, K(k).unit)
<1>3. L \in Scratch /\ R \in Scratch
  BY <1>1, StageNeighbours
<1>4. Known(k - 1, L) /\ Known(k - 1, R)
  BY <1>1, Steps3
<1>5. G(L) = Shift(G(c), K(k).axis, -K(k).unit) /\ G(R) = Shift(G(c), K(k).axis, K(k).unit)
  BY <1>1, <1>2, LayPattern
<1>6. Pat(k, G(c)) /\ G(c) \in Cells
  BY <1>1, <1>2, LayPattern, LayCells
<1>7. ASSUME NEW x \in {L, R} PROVE shm_data[x] = Val(field, k - 1)[G(x)]
  <2>1. x \in Scratch /\ x \in Cells /\ Known(k - 1, x)
    BY <1>3, <1>4, ScratchIs
  <2>2. ~Pat(k, x)
    BY <1>1, <2>1, Steps3
  <2>3. \A u \in Warps : x \notin Mine(k, u)
    BY <1>1, <2>2, MineIs
  <2>4. CASE phase = "construct"
    BY <2>1, <2>3, <2>4, ClaimHeld
  <2>5. CASE phase = "reconstruct" /\ Fit(errctrl) /\ Inner(field, G(c))
    <3>1. Inner(field, Shift(G(c), K(k).axis, -K(k).unit)) /\ Inner(field, Shift(G(c), K(k).axis, K(k).unit))
      BY <1>1, <1>2, <1>6, <2>5, InnerKept
    <3>2. Inner(field, G(x))
      BY <1>5, <3>1
    <3> QED
      BY <2>1, <2>3, <2>5, <3>2, ClaimHeld
  <2> QED
    BY <2>4, <2>5
<1>8. shm_data[L] = Val(field, k - 1)[G(L)] /\ shm_data[R] = Val(field, k - 1)[G(R)]
  BY <1>7
<1> QED
  BY <1>5, <1>8 DEF Predict

MeanAt(c, s)  == Mean(shm_data[Shift(c, s.axis, -s.unit)], shm_data[Shift(c, s.axis, s.unit)])
CodeAt(c, s)  == IF Undef \in {MeanAt(c, s), shm_data[c]} THEN Undef ELSE Steps(shm_data[c] - MeanAt(c, s)) + RADIUS

(* A stage writes ideal values, and codes what the ideal values say.         *)
LEMMA InterpolatedIs ==
  ASSUME SplineInv, NEW w \in Warps, NEW k, NEW j, Waits(w, k, j), NEW c \in Mine(k, w)
  PROVE  /\ MeanAt(c, K(k)) \in Number /\ CodeAt(c, K(k)) \in Number
         /\ phase = "construct" =>
              /\ CodeAt(c, K(k)) = Want(field, k, Lay(field, block, c))
              /\ Value(MeanAt(c, K(k)), CodeAt(c, K(k))) = Val(field, k)[Lay(field, block, c)]
         /\ phase = "reconstruct" /\ Fit(errctrl) /\ Inner(field, Lay(field, block, c)) =>
              Value(MeanAt(c, K(k)), shm_errctrl[c]) = Val(field, k)[Lay(field, block, c)]
<1>1. k \in 1 .. NStage /\ c \in Scratch /\ c \in Cells /\ Pat(k, c)
  BY MineIs, ScratchIs DEF Waits
<1>2. field \in Fields /\ block \in 0 .. NBlocks(field) - 1 /\ shm_data \in [Scratch -> Number]
      /\ errctrl \in [Box(Aligned(field)) -> Codes]
  BY DEF SplineInv, Types
<1> DEFINE g == Lay(field, block, c)
           p == Predict(Val(field, k - 1), k, g)
<1>3. Pat(k, g) /\ g \in Cells /\ \A d \in 1 .. 3 : g[d] >= 0
  BY <1>1, <1>2, LayPattern, LayCells
<1>4. Shift(c, K(k).axis, -K(k).unit) \in Scratch /\ Shift(c, K(k).axis, K(k).unit) \in Scratch
  BY <1>1, StageNeighbours
<1>5. MeanAt(c, K(k)) \in Number
  BY <1>2, <1>4, NumbersAre DEF MeanAt
<1>6. CodeAt(c, K(k)) \in Number
  BY <1>1, <1>2, <1>5, NumbersAre DEF CodeAt
<1>7. /\ Val(field, k - 1) \in [Cells -> Int] /\ p \in Int /\ Want(field, k, g) \in Int
      /\ Val(field, k)[g] = Value(p, Want(field, k, g))
  <2>1. k - 1 \in 0 .. NStage
    BY <1>1, NStageIs
  <2> QED
    BY <1>1, <1>2, <1>3, <2>1, ValIs
<1> HIDE DEF g
<1>8. ASSUME phase = "construct"
      PROVE  CodeAt(c, K(k)) = Want(field, k, g) /\ Value(MeanAt(c, K(k)), CodeAt(c, K(k))) = Val(field, k)[g]
  <2>1. MeanAt(c, K(k)) = p
    BY <1>8, PredictIs DEF MeanAt, g
  <2>2. shm_data[c] = Val(field, k - 1)[g]
    BY <1>1, <1>8, ClaimHeld DEF g
  <2>3. Undef \notin {p, Val(field, k - 1)[g]}
    BY <1>3, <1>7, Constants
  <2>4. Want(field, k, g) = Steps(Val(field, k - 1)[g] - p) + RADIUS
    BY DEF Want, Code
  <2>5. CodeAt(c, K(k)) = Want(field, k, g)
    BY <2>1, <2>2, <2>3, <2>4 DEF CodeAt
  <2> QED
    BY <1>7, <2>1, <2>5
<1>9. ASSUME phase = "reconstruct", Fit(errctrl), Inner(field, g)
      PROVE  Value(MeanAt(c, K(k)), shm_errctrl[c]) = Val(field, k)[g]
  <2>1. MeanAt(c, K(k)) = p
    BY <1>9, PredictIs DEF MeanAt, g
  <2>2. shm_errctrl[c] = errctrl[g]
    BY <1>1, <1>9, ClaimHeld DEF g
  <2>3. g \in Box(Aligned(field))
    BY <1>2, <1>3, <1>9, InnerInside
  <2>4. errctrl[g] = Kept(Want(field, k, g))
    BY <1>1, <1>3, <1>9, <2>3 DEF SplineInv, Compressed, Archived, CodeKept
  <2>5. errctrl[g] # Undef
    BY <1>2, <1>9, <2>3 DEF Fit
  <2>6. errctrl[g] = Want(field, k, g)
    BY <1>7, <2>4, <2>5, NumbersAre
  <2> QED
    BY <1>7, <2>1, <2>2, <2>6
<1> QED
  BY <1>5, <1>6, <1>8, <1>9 DEF g

(* A stage of interpolation, in either kernel.                               *)
LEMMA InterpolateStep ==
  ASSUME SplineInv, NEW w \in Warps, interpolate_stage(w)
  PROVE  SplineInv'
<1>1. PICK j \in Nat : TurnOf(w, "interpolate", j)
  BY AtOp DEF SplineInv, interpolate_stage
<1>2. PICK k \in 1 .. NStage : j = First(phase) + k
  <2>1. j - First(phase) \in 1 .. NStage /\ First(phase) \in {1, 2}
    BY <1>1, OpIs DEF TurnOf, First
  <2> QED
    BY <2>1
<1>3. Part(phase, j, w) = Mine(k, w) /\ First(phase) \in {1, 2} /\ NStage \in Nat /\ phase \in Kernels
  <2>1. First(phase) \in {1, 2} /\ NStage \in Nat
    BY NStageIs DEF First
  <2>2. j \notin {0, 1} /\ j - First(phase) = k
    BY <1>2, <2>1
  <2> QED
    BY <1>1, <1>2, <2>1, <2>2 DEF Part, TurnOf
<1>4. Program[at[w]][2] = K(k) /\ Waits(w, k, j)
  BY <1>1, <1>2 DEF TurnOf, Waits
<1>5. /\ shm_data \in [Scratch -> Number] /\ shm_errctrl \in [Scratch -> Codes]
      /\ field \in Fields /\ block \in 0 .. NBlocks(field) - 1
  BY DEF SplineInv, Types
<1>6. Advance(w) /\ UNCHANGED global
  BY DEF interpolate_stage
<1>7. Mine(k, w) \subseteq Scratch /\ \A c \in Mine(k, w) : c \in Cells /\ Pat(k, c)
  BY MineIs, ScratchIs
<1> DEFINE S == Mine(k, w)
           G(c) == Lay(field, block, c)
<1>8. CASE phase = "construct"
  <2> DEFINE g == [c \in S |-> Value(MeanAt(c, K(k)), CodeAt(c, K(k)))]
             h == [c \in S |-> Kept(CodeAt(c, K(k)))]
  <2>1. shm_data' = Over(shm_data, g) /\ shm_errctrl' = Over(shm_errctrl, h)
    BY <1>4, <1>8 DEF interpolate_stage, Mine, MeanAt, CodeAt
  <2>2. DOMAIN g = S /\ DOMAIN h = S
    OBVIOUS
  <2>3. ASSUME NEW c \in S
        PROVE  g[c] \in Number /\ h[c] \in Codes /\ g[c] = Val(field, k)[G(c)] /\ h[c] = Kept(Want(field, k, G(c)))
    BY <1>4, <1>8, InterpolatedIs, NumbersAre
  <2> HIDE DEF g, h, S, G
  <2>4. /\ shm_data' \in [Scratch -> Number] /\ \A c \in S : shm_data'[c] = g[c]
        /\ \A c \in Scratch : c \notin S => shm_data'[c] = shm_data[c]
    <3>1. S \subseteq Scratch /\ shm_data \in [Scratch -> Number] /\ \A c \in S : g[c] \in Number
      BY <1>5, <1>7, <2>3 DEF S
    <3>2. DOMAIN g = S /\ shm_data' = Over(shm_data, g)
      BY <2>1, <2>2
    <3> QED
      BY <3>1, <3>2, OverOn
  <2>5. /\ shm_errctrl' \in [Scratch -> Codes] /\ \A c \in S : shm_errctrl'[c] = h[c]
        /\ \A c \in Scratch : c \notin S => shm_errctrl'[c] = shm_errctrl[c]
    <3>1. S \subseteq Scratch /\ shm_errctrl \in [Scratch -> Codes] /\ \A c \in S : h[c] \in Codes
      BY <1>5, <1>7, <2>3 DEF S
    <3>2. DOMAIN h = S /\ shm_errctrl' = Over(shm_errctrl, h)
      BY <2>1, <2>2
    <3> QED
      BY <3>1, <3>2, OverOn
  <2>6. ASSUME NEW c \in Part(phase, j, w)
        PROVE  Claim(phase, field, block, errctrl, j + 1, c, shm_data'[c], shm_errctrl'[c])
    <3>1. c \in S /\ c \in Cells /\ c \in Scratch /\ Pat(k, c)
      BY <1>3, <1>7, <2>6 DEF S
    <3>2. shm_data'[c] = Val(field, k)[G(c)] /\ shm_errctrl'[c] = Kept(Want(field, k, G(c)))
      BY <2>3, <2>4, <2>5, <3>1
    <3>3. j + 1 = k + 3 /\ (k + 3) - 3 = k /\ k + 3 # 1 /\ k + 3 # 2
      BY <1>2, <1>8 DEF First
    <3>4. Pat(k, G(c)) /\ G(c) \in Cells
      BY <1>5, <3>1, LayPattern, LayCells DEF G
    <3>5. ASSUME NEW m \in 1 .. NStage, m <= k, Pat(m, G(c)) PROVE m = k
      BY <3>4, <3>5, PatternsApart
    <3>6. CClaim(field, block, k + 3, c, shm_data'[c], shm_errctrl'[c])
      BY <3>2, <3>3, <3>5 DEF CClaim, G
    <3> QED
      BY <1>8, <3>3, <3>6 DEF Claim
  <2>7. \A c \in Scratch : c \notin Part(phase, j, w) => shm_data'[c] = shm_data[c] /\ shm_errctrl'[c] = shm_errctrl[c]
    BY <1>3, <2>4, <2>5 DEF S
  <2> QED
    BY <1>1, <1>6, <2>4, <2>5, <2>6, <2>7, SharedStep
<1>9. CASE phase = "reconstruct"
  <2> DEFINE g == [c \in S |-> Value(MeanAt(c, K(k)), shm_errctrl[c])]
  <2>1. shm_data' = Over(shm_data, g) /\ shm_errctrl' = shm_errctrl
    BY <1>4, <1>9 DEF interpolate_stage, Mine, MeanAt
  <2>2. DOMAIN g = S
    OBVIOUS
  <2>3. ASSUME NEW c \in S PROVE g[c] \in Number
    <3>1. shm_errctrl[c] \in Number /\ MeanAt(c, K(k)) \in Number
      BY <1>4, <1>5, <1>7, InterpolatedIs DEF Codes, Number
    <3> QED
      BY <3>1, NumbersAre
  <2>4. ASSUME NEW c \in S, Fit(errctrl), Inner(field, G(c)) PROVE g[c] = Val(field, k)[G(c)]
    BY <1>4, <1>9, <2>4, InterpolatedIs
  <2> HIDE DEF g, S, G
  <2>5. /\ shm_data' \in [Scratch -> Number] /\ \A c \in S : shm_data'[c] = g[c]
        /\ \A c \in Scratch : c \notin S => shm_data'[c] = shm_data[c]
    <3>1. S \subseteq Scratch /\ shm_data \in [Scratch -> Number] /\ \A c \in S : g[c] \in Number
      BY <1>5, <1>7, <2>3 DEF S
    <3> QED
      BY <2>1, <2>2, <3>1, OverOn
  <2>6. ASSUME NEW c \in Part(phase, j, w)
        PROVE  Claim(phase, field, block, errctrl, j + 1, c, shm_data'[c], shm_errctrl'[c])
    <3>1. c \in S /\ c \in Scratch /\ c \in Mine(k, w)
      BY <1>3, <1>7, <2>6 DEF S
    <3>2. j + 1 = k + 2 /\ (k + 2) - 2 = k /\ k + 2 # 1 /\ phase # "construct"
      BY <1>2, <1>9 DEF First
    <3>3. ASSUME Fit(errctrl), Inner(field, G(c))
          PROVE  shm_data'[c] = Val(field, k)[G(c)] /\ shm_errctrl'[c] = errctrl[G(c)]
      <4>1. shm_errctrl[c] = errctrl[G(c)]
        BY <1>4, <1>9, <3>1, <3>3, ClaimHeld DEF G
      <4> QED
        BY <2>1, <2>4, <2>5, <3>1, <3>3, <4>1
    <3>4. Fit(errctrl) => RClaim(field, block, errctrl, k + 2, c, shm_data'[c], shm_errctrl'[c])
      BY <3>2, <3>3 DEF RClaim, G
    <3> QED
      BY <3>2, <3>4 DEF Claim
  <2>7. \A c \in Scratch : c \notin Part(phase, j, w) => shm_data'[c] = shm_data[c] /\ shm_errctrl'[c] = shm_errctrl[c]
    BY <1>3, <2>1, <2>5 DEF S
  <2>8. shm_errctrl' \in [Scratch -> Codes]
    BY <1>5, <2>1
  <2> QED
    BY <1>1, <1>6, <2>5, <2>6, <2>7, <2>8, SharedStep
<1> QED
  BY <1>3, <1>8, <1>9 DEF Kernels

(* A stored cell's place in shared memory.                                   *)
LEMMA BackIs ==
  ASSUME field \in Fields, block \in 0 .. NBlocks(field) - 1, NEW c \in Cells
  PROVE  [d \in 1 .. 3 |-> Lay(field, block, c)[d] - BlockId[d] * SUBLEN[d]] = c
<1> DEFINE k == CellOf(Blocks(field), block)
           o == [d \in 1 .. 3 |-> k[d] * SUBLEN[d]]
           x == [d \in 1 .. 3 |-> Lay(field, block, c)[d] - BlockId[d] * SUBLEN[d]]
<1>1. BlockId = k
  BY Geometry DEF BlockId, CellOf
<1>2. k \in Box(Blocks(field))
  BY BlocksAre, CellOfIs DEF NBlocks
<1>3. \A d \in 1 .. 3 : k[d] \in 0 .. Blocks(field)[d] - 1
  BY <1>2, BlocksAre, BoxIs DEF Sized
<1>4. ASSUME NEW d \in 1 .. 3 PROVE o[d] \in Int /\ c[d] \in Int
  <2>1. k[d] \in Nat /\ SUBLEN[d] \in Nat
    BY <1>3, BlocksAre, SublenIs
  <2> HIDE DEF k
  <2>2. k[d] * SUBLEN[d] \in Int
    BY <2>1
  <2> QED
    BY <2>2 DEF Cells
<1>5. \A d \in 1 .. 3 : Lay(field, block, c)[d] = c[d] + o[d]
  BY DEF Lay
<1>6. \A d \in 1 .. 3 : x[d] = Lay(field, block, c)[d] - o[d]
  BY <1>1
<1> HIDE DEF o, k
<1>7. \A d \in 1 .. 3 : x[d] = c[d]
  BY <1>4, <1>5, <1>6
<1>8. x = <<x[1], x[2], x[3]>>
  OBVIOUS
<1> HIDE DEF x
<1>9. x \in Cells
  BY <1>4, <1>7, <1>8 DEF Cells
<1>10. x = c
  BY <1>7, <1>9, SameCell
<1> QED
  BY <1>10 DEF x

(* What a warp stores of its share of a block.                               *)
Stored(w, shm, len) ==
  LET mine == {c \in Share(w, SUBLEN) : Within(Global(c), len)}
  IN  [g \in {Global(c) : c \in mine} |-> shm[[d \in 1 .. 3 |-> g[d] - BlockId[d] * SUBLEN[d]]]]
LEMMA StoredIs ==
  ASSUME field \in Fields, block \in 0 .. NBlocks(field) - 1, NEW w, NEW shm,
         NEW len \in {field.len3, Aligned(field)}
  PROVE  /\ DOMAIN Stored(w, shm, len) \subseteq Box(len)
         /\ \A g \in DOMAIN Stored(w, shm, len) :
              \E c \in Share(w, SUBLEN) : g = Lay(field, block, c) /\ Stored(w, shm, len)[g] = shm[c]
         /\ \A c \in Share(w, SUBLEN) :
              Lay(field, block, c) \in Box(len) => Lay(field, block, c) \in DOMAIN Stored(w, shm, len)
<1> DEFINE mine == {c \in Share(w, SUBLEN) : Within(Global(c), len)}
           D == {Global(c) : c \in mine}
           back(g) == [d \in 1 .. 3 |-> g[d] - BlockId[d] * SUBLEN[d]]
           s == Stored(w, shm, len)
<1>1. DOMAIN s = D /\ \A g \in D : s[g] = shm[back(g)]
  BY DEF Stored
<1>2. \A c : Global(c) = Lay(field, block, c)
  BY OfCells
<1>3. ASSUME NEW c \in Share(w, SUBLEN)
      PROVE  /\ Within(Lay(field, block, c), len) <=> Lay(field, block, c) \in Box(len)
             /\ back(Lay(field, block, c)) = c
  <2>1. c \in Scratch /\ c \in Cells
    BY FaceIs, ScratchIs
  <2>2. back(Lay(field, block, c)) = c
    BY <2>1, BackIs
  <2> QED
    BY <2>1, <2>2, LayCells
<1>4. ASSUME NEW g \in D
      PROVE  \E c \in Share(w, SUBLEN) : g = Lay(field, block, c) /\ s[g] = shm[c] /\ g \in Box(len)
  <2>1. PICK c \in mine : g = Global(c)
    OBVIOUS
  <2>2. c \in Share(w, SUBLEN) /\ g = Lay(field, block, c) /\ Within(Lay(field, block, c), len)
    BY <1>2, <2>1
  <2>3. s[g] = shm[back(g)]
    BY <1>1
  <2> HIDE DEF s, D, mine, back
  <2> QED
    BY <1>3, <2>2, <2>3
<1>5. ASSUME NEW c \in Share(w, SUBLEN), Lay(field, block, c) \in Box(len) PROVE Lay(field, block, c) \in D
  <2>1. c \in mine
    BY <1>2, <1>3, <1>5
  <2> QED
    BY <1>2, <2>1
<1> HIDE DEF s, D, mine, back
<1>6. DOMAIN s \subseteq Box(len) /\ \A g \in DOMAIN s : \E c \in Share(w, SUBLEN) : g = Lay(field, block, c) /\ s[g] = shm[c]
  BY <1>1, <1>4
<1>7. \A c \in Share(w, SUBLEN) : Lay(field, block, c) \in Box(len) => Lay(field, block, c) \in DOMAIN s
  BY <1>1, <1>5
<1> QED
  BY <1>6, <1>7 DEF s

(* What a warp that stores holds of its share.                               *)
LEMMA StoresIs ==
  ASSUME SplineInv, NEW w \in Warps, NEW j, TurnOf(w, "store", j), NEW c \in Share(w, SUBLEN)
  PROVE  /\ phase = "construct" => CodeKept(field, Lay(field, block, c), shm_errctrl[c])
         /\ phase = "reconstruct" /\ Fit(errctrl) /\ Inner(field, Lay(field, block, c)) =>
              shm_data[c] = Val(field, NStage)[Lay(field, block, c)]
<1>1. /\ phase \in Kernels /\ j = First(phase) + NStage + 1 /\ Shared(j) /\ j \in 0 .. Halt(phase)
      /\ NStage \in Nat \ {0} /\ First(phase) \in {1, 2}
  BY OpIs, NStageIs DEF TurnOf, First
<1>2. c \in Box(SUBLEN) /\ c \in Scratch
  BY FaceIs
<1>3. \A u \in Warps : c \notin Part(phase, j, u)
  BY <1>1 DEF Part
<1>4. Claim(phase, field, block, errctrl, j, c, shm_data[c], shm_errctrl[c])
  BY <1>1, <1>2, <1>3, ReachedUntouched DEF Shared
<1>5. \A m \in 0 .. NStage : Within3(m, c)
  BY <1>2 DEF Within3
<1>6. ASSUME phase = "construct" PROVE CodeKept(field, Lay(field, block, c), shm_errctrl[c])
  <2>1. j = NStage + 3
    BY <1>1, <1>6 DEF First
  <2>2. CClaim(field, block, j, c, shm_data[c], shm_errctrl[c])
    BY <1>4, <1>6 DEF Claim
  <2>3. \A m \in 1 .. NStage : m <= j - 3
    BY <1>1, <2>1
  <2> QED
    BY <1>1, <1>5, <2>2, <2>3 DEF CClaim, CodeKept
<1>7. ASSUME phase = "reconstruct", Fit(errctrl), Inner(field, Lay(field, block, c))
      PROVE  shm_data[c] = Val(field, NStage)[Lay(field, block, c)]
  <2>1. j - 2 = NStage /\ phase # "construct" /\ NStage \in 0 .. NStage
    BY <1>1, <1>7 DEF First
  <2>2. RClaim(field, block, errctrl, j, c, shm_data[c], shm_errctrl[c])
    BY <1>4, <1>7, <2>1 DEF Claim
  <2>3. Known(NStage, c) /\ Within3(NStage, c)
    BY <1>5, <2>1 DEF Known
  <2> QED
    BY <1>7, <2>1, <2>2, <2>3 DEF RClaim
<1> QED
  BY <1>6, <1>7

(* Compression stores codes.                                                 *)
LEMMA StoreCodes ==
  ASSUME SplineInv, NEW w \in Warps, shmem2global(w), phase = "construct"
  PROVE  SplineInv'
<1>1. PICK j \in Nat : TurnOf(w, "store", j)
  BY AtOp DEF SplineInv, shmem2global
<1>2. Advance(w) /\ UNCHANGED <<shm_data, shm_errctrl>> /\ anchor' = anchor /\ xdata' = xdata
  BY DEF shmem2global
<1>3. /\ Working' /\ Bounded' /\ field' = field /\ phase' = phase /\ block' = block /\ at' \in [Warps -> Nat]
      /\ at'[w] = 8 + 2 * NStage /\ \A u \in Warps : u # w => at'[u] = at[u]
      /\ shm_data' = shm_data /\ shm_errctrl' = shm_errctrl /\ NStage \in Nat \ {0}
      /\ at[w] = 7 + 2 * NStage
  <2>1. "store" \in {"gather_anchor", "store"}
    OBVIOUS
  <2>2. /\ Working' /\ Bounded' /\ field' = field /\ phase' = phase /\ block' = block /\ at' \in [Warps -> Nat]
        /\ at'[w] = 2 * j + 2 /\ \A u \in Warps : u # w => at'[u] = at[u]
        /\ shm_data' = shm_data /\ shm_errctrl' = shm_errctrl /\ NStage \in Nat \ {0}
        /\ j = First(phase) + NStage + 1
    BY <1>1, <1>2, <2>1, GlobalStep
  <2>3. j = 3 + NStage /\ at[w] = 2 * j + 1
    BY <1>1, <2>2 DEF First, TurnOf
  <2> QED
    BY <2>2, <2>3
<1>4. field \in Fields /\ block \in 0 .. NBlocks(field) - 1 /\ errctrl \in [Box(Aligned(field)) -> Codes]
      /\ shm_errctrl \in [Scratch -> Codes]
  BY DEF SplineInv, Types
<1> DEFINE h == Stored(w, shm_errctrl, Aligned(field))
           D == DOMAIN h
<1>5. errctrl' = Over(errctrl, h)
  BY Geometry DEF shmem2global, Stored
<1>6. /\ D \subseteq Box(Aligned(field))
      /\ \A g \in D : \E c \in Share(w, SUBLEN) : g = Lay(field, block, c) /\ h[g] = shm_errctrl[c]
      /\ \A c \in Share(w, SUBLEN) : Lay(field, block, c) \in Box(Aligned(field)) => Lay(field, block, c) \in D
  BY <1>4, StoredIs
<1> HIDE DEF h
<1>7. ASSUME NEW g \in D PROVE h[g] \in Codes /\ CodeKept(field, g, h[g])
  <2>1. PICK c \in Share(w, SUBLEN) : g = Lay(field, block, c) /\ h[g] = shm_errctrl[c]
    BY <1>6
  <2>2. c \in Scratch
    BY FaceIs
  <2>3. CodeKept(field, Lay(field, block, c), shm_errctrl[c])
    BY <1>1, StoresIs
  <2> QED
    BY <1>4, <2>1, <2>2, <2>3
<1> HIDE DEF D
<1>8. /\ errctrl' \in [Box(Aligned(field)) -> Codes] /\ \A g \in D : errctrl'[g] = h[g]
      /\ \A g \in Box(Aligned(field)) : g \notin D => errctrl'[g] = errctrl[g]
  <2>1. DOMAIN h = D /\ errctrl \in [Box(Aligned(field)) -> Codes] /\ \A g \in D : h[g] \in Codes
    BY <1>4, <1>7 DEF D
  <2> QED
    BY <1>5, <1>6, <2>1, OverOn
<1>9. ASSUME NEW b \in 0 .. NBlocks(field) - 1, NEW C, C \subseteq Box(SUBLEN), CodesOf(field, b, C, errctrl)
      PROVE  CodesOf(field, b, C, errctrl')
  <2>1. ASSUME NEW c \in C PROVE CodeKept(field, Lay(field, b, c), errctrl'[Lay(field, b, c)])
    <3>1. Lay(field, b, c) \in Box(Aligned(field))
      BY <1>4, <1>9, FaceIs, LayCells
    <3>2. CodeKept(field, Lay(field, b, c), errctrl[Lay(field, b, c)])
      BY <1>9 DEF CodesOf
    <3>3. CASE Lay(field, b, c) \in D
      <4>1. CodeKept(field, Lay(field, b, c), h[Lay(field, b, c)])
        BY <1>7, <3>3
      <4> QED
        BY <1>8, <3>3, <4>1
    <3>4. CASE Lay(field, b, c) \notin D
      BY <1>8, <3>1, <3>2, <3>4
    <3> QED
      BY <3>3, <3>4
  <2> QED
    BY <2>1 DEF CodesOf
<1>10. CodesOf(field, block, Share(w, SUBLEN), errctrl')
  <2>1. ASSUME NEW c \in Share(w, SUBLEN) PROVE CodeKept(field, Lay(field, block, c), errctrl'[Lay(field, block, c)])
    <3>1. Lay(field, block, c) \in Box(Aligned(field))
      BY <1>4, FaceIs, LayCells
    <3>2. Lay(field, block, c) \in D
      BY <1>6, <3>1
    <3>3. CodeKept(field, Lay(field, block, c), h[Lay(field, block, c)])
      BY <1>7, <3>2
    <3> QED
      BY <1>8, <3>2, <3>3
  <2> QED
    BY <2>1 DEF CodesOf
<1>11. Compressing
  BY DEF SplineInv
<1>12. Compressing'
  <2>1. ASSUME NEW b \in 0 .. block - 1
        PROVE  AnchorsOf(field, b, Box(Face), anchor) /\ CodesOf(field, b, Box(SUBLEN), errctrl')
    <3>1. b \in 0 .. NBlocks(field) - 1
      BY <1>4, BlocksAre
    <3>2. AnchorsOf(field, b, Box(Face), anchor) /\ CodesOf(field, b, Box(SUBLEN), errctrl)
      BY <1>3, <1>11 DEF Compressing
    <3> QED
      BY <1>9, <3>1, <3>2
  <2>2. ASSUME NEW u \in Warps, at'[u] >= 6 PROVE AnchorsOf(field, block, Share(u, Face), anchor)
    <3>1. at[u] >= 6
      BY <1>3, <2>2
    <3> QED
      BY <1>11, <3>1 DEF Compressing
  <2>3. ASSUME NEW u \in Warps, at'[u] >= 8 + 2 * NStage PROVE CodesOf(field, block, Share(u, SUBLEN), errctrl')
    <3>1. CASE u = w
      BY <1>10, <3>1
    <3>2. CASE u # w
      <4>1. CodesOf(field, block, Share(u, SUBLEN), errctrl)
        BY <1>3, <1>11, <2>3, <3>2 DEF Compressing
      <4>2. Share(u, SUBLEN) \subseteq Box(SUBLEN)
        BY FaceIs
      <4> QED
        BY <1>4, <1>9, <4>1, <4>2
    <3> QED
      BY <3>1, <3>2
  <2> QED
    BY <1>2, <1>3, <2>1, <2>2, <2>3 DEF Compressing
<1>13. Types'
  BY <1>2, <1>3, <1>8 DEF SplineInv, Types
<1>14. Compressed' /\ Decompressing' /\ Decompressed'
  BY <1>3 DEF Compressed, Decompressing, Decompressed
<1> QED
  BY <1>3, <1>12, <1>13, <1>14 DEF SplineInv

(* Decompression stores values.                                              *)
LEMMA StoreOuts ==
  ASSUME SplineInv, NEW w \in Warps, shmem2global(w), phase = "reconstruct"
  PROVE  SplineInv'
<1>1. PICK j \in Nat : TurnOf(w, "store", j)
  BY AtOp DEF SplineInv, shmem2global
<1>2. Advance(w) /\ UNCHANGED <<shm_data, shm_errctrl>> /\ anchor' = anchor /\ errctrl' = errctrl
  BY DEF shmem2global
<1>3. /\ Working' /\ Bounded' /\ field' = field /\ phase' = phase /\ block' = block /\ at' \in [Warps -> Nat]
      /\ at'[w] = 6 + 2 * NStage /\ \A u \in Warps : u # w => at'[u] = at[u]
      /\ shm_data' = shm_data /\ shm_errctrl' = shm_errctrl /\ NStage \in Nat \ {0}
  <2>1. "store" \in {"gather_anchor", "store"}
    OBVIOUS
  <2>2. /\ Working' /\ Bounded' /\ field' = field /\ phase' = phase /\ block' = block /\ at' \in [Warps -> Nat]
        /\ at'[w] = 2 * j + 2 /\ \A u \in Warps : u # w => at'[u] = at[u]
        /\ shm_data' = shm_data /\ shm_errctrl' = shm_errctrl /\ NStage \in Nat \ {0}
        /\ j = First(phase) + NStage + 1
    BY <1>1, <1>2, <2>1, GlobalStep
  <2>3. j = 2 + NStage
    BY <2>2 DEF First
  <2> QED
    BY <2>2, <2>3
<1>4. field \in Fields /\ block \in 0 .. NBlocks(field) - 1 /\ xdata \in [Box(field.len3) -> Number]
      /\ shm_data \in [Scratch -> Number]
  BY DEF SplineInv, Types
<1> DEFINE h == Stored(w, shm_data, field.len3)
           D == DOMAIN h
<1>5. xdata' = Over(xdata, h)
  BY DEF shmem2global, Stored
<1>6. /\ D \subseteq Box(field.len3)
      /\ \A g \in D : \E c \in Share(w, SUBLEN) : g = Lay(field, block, c) /\ h[g] = shm_data[c]
      /\ \A c \in Share(w, SUBLEN) : Lay(field, block, c) \in Box(field.len3) => Lay(field, block, c) \in D
  BY <1>4, StoredIs
<1> HIDE DEF h
<1>7. ASSUME NEW g \in D PROVE h[g] \in Number /\ (Fit(errctrl) /\ Inner(field, g) => h[g] = Val(field, NStage)[g])
  <2>1. PICK c \in Share(w, SUBLEN) : g = Lay(field, block, c) /\ h[g] = shm_data[c]
    BY <1>6
  <2>2. c \in Scratch
    BY FaceIs
  <2>3. Fit(errctrl) /\ Inner(field, Lay(field, block, c)) => shm_data[c] = Val(field, NStage)[Lay(field, block, c)]
    BY <1>1, StoresIs
  <2> QED
    BY <1>4, <2>1, <2>2, <2>3
<1> HIDE DEF D
<1>8. /\ xdata' \in [Box(field.len3) -> Number] /\ \A g \in D : xdata'[g] = h[g]
      /\ \A g \in Box(field.len3) : g \notin D => xdata'[g] = xdata[g]
  <2>1. DOMAIN h = D /\ xdata \in [Box(field.len3) -> Number] /\ \A g \in D : h[g] \in Number
    BY <1>4, <1>7 DEF D
  <2> QED
    BY <1>5, <1>6, <2>1, OverOn
<1>9. ASSUME Fit(errctrl), NEW b, NEW C, OutsOf(field, b, C, xdata) PROVE OutsOf(field, b, C, xdata')
  <2>1. ASSUME NEW c \in C, Lay(field, b, c) \in Box(field.len3), Inner(field, Lay(field, b, c))
        PROVE  xdata'[Lay(field, b, c)] = Val(field, NStage)[Lay(field, b, c)]
    <3>1. CASE Lay(field, b, c) \in D
      BY <1>7, <1>8, <1>9, <2>1, <3>1
    <3>2. CASE Lay(field, b, c) \notin D
      <4>1. xdata[Lay(field, b, c)] = Val(field, NStage)[Lay(field, b, c)]
        BY <1>9, <2>1 DEF OutsOf
      <4> QED
        BY <1>8, <2>1, <3>2, <4>1
    <3> QED
      BY <3>1, <3>2
  <2> QED
    BY <2>1 DEF OutsOf
<1>10. ASSUME Fit(errctrl) PROVE OutsOf(field, block, Share(w, SUBLEN), xdata')
  <2>1. ASSUME NEW c \in Share(w, SUBLEN), Lay(field, block, c) \in Box(field.len3), Inner(field, Lay(field, block, c))
        PROVE  xdata'[Lay(field, block, c)] = Val(field, NStage)[Lay(field, block, c)]
    <3>1. Lay(field, block, c) \in D
      BY <1>6, <2>1
    <3> QED
      BY <1>7, <1>8, <1>10, <2>1, <3>1
  <2> QED
    BY <2>1 DEF OutsOf
<1>11. Decompressing'
  <2>1. SUFFICES ASSUME Fit(errctrl)
                 PROVE  /\ \A b \in 0 .. block - 1 : OutsOf(field, b, Box(SUBLEN), xdata')
                        /\ \A u \in Warps : at'[u] >= 6 + 2 * NStage => OutsOf(field, block, Share(u, SUBLEN), xdata')
    BY <1>2, <1>3 DEF Decompressing
  <2>2. /\ \A b \in 0 .. block - 1 : OutsOf(field, b, Box(SUBLEN), xdata)
        /\ \A u \in Warps : at[u] >= 6 + 2 * NStage => OutsOf(field, block, Share(u, SUBLEN), xdata)
    BY <2>1 DEF SplineInv, Decompressing
  <2>3. ASSUME NEW u \in Warps, at'[u] >= 6 + 2 * NStage PROVE OutsOf(field, block, Share(u, SUBLEN), xdata')
    <3>1. CASE u = w
      BY <1>10, <2>1, <3>1
    <3>2. CASE u # w
      BY <1>3, <1>9, <2>1, <2>2, <2>3, <3>2
    <3> QED
      BY <3>1, <3>2
  <2> QED
    BY <1>9, <2>1, <2>2, <2>3
<1>12. Types'
  BY <1>2, <1>3, <1>8 DEF SplineInv, Types
<1>13. Compressing' /\ Compressed' /\ Decompressed'
  BY <1>2, <1>3 DEF SplineInv, Compressing, Compressed, Decompressed
<1> QED
  BY <1>3, <1>11, <1>12, <1>13 DEF SplineInv

(* What nobody of a turn writes has the next claim already.                  *)
LEMMA Skipped ==
  ASSUME NEW ph \in Kernels, NEW f \in Fields, NEW b \in 0 .. NBlocks(f) - 1, NEW err, NEW j \in 0 .. Halt(ph) - 1,
         NEW c \in Scratch, NEW x, NEW e, Claim(ph, f, b, err, j, c, x, e),
         \A u \in Warps : c \notin Part(ph, j, u)
  PROVE  Claim(ph, f, b, err, j + 1, c, x, e)
<1> DEFINE g == Lay(f, b, c)
           n == NStage
<1>1. n \in Nat \ {0} /\ First(ph) \in {1, 2} /\ Halt(ph) = First(ph) + n + 2
  BY NStageIs DEF First, Halt
<1>2. c \in Cells /\ g \in Cells
  BY LayCells
<1>3. j \notin {0, 1}
  <2>1. ASSUME j \in {0, 1} PROVE FALSE
    <3>1. \A u : Part(ph, j, u) = ScratchOf(u)
      BY <2>1 DEF Part
    <3> QED
      BY <3>1, ScratchShares
  <2> QED
    BY <2>1
<1>4. ASSUME NEW k \in 1 .. n, j = First(ph) + k
      PROVE  /\ ~(Pat(k, c) /\ Within3(k, c)) /\ (Pat(k, g) <=> Pat(k, c))
             /\ ~Pat(k, g) => Val(f, k)[g] = Val(f, k - 1)[g]
             /\ Known(k, c) <=> Known(k - 1, c) \/ Pat(k, c)
  <2>1. \A u : Part(ph, j, u) = Mine(k, u)
    <3>1. j - First(ph) = k
      BY <1>1, <1>4
    <3> QED
      BY <1>3, <3>1 DEF Part
  <2>2. ~(Pat(k, c) /\ Within3(k, c))
    BY <2>1, MineIs
  <2>3. Pat(k, g) <=> Pat(k, c)
    BY <1>2, LayPattern
  <2>4. ~Pat(k, g) => Val(f, k)[g] = Val(f, k - 1)[g]
    BY <1>2, ValIs
  <2>5. Known(k, c) <=> Known(k - 1, c) \/ Pat(k, c)
    BY <1>2, Steps3
  <2> QED
    BY <2>2, <2>3, <2>4, <2>5
<1> HIDE DEF g
<1>5. ASSUME NEW k, k < n PROVE Within3(k, c)
  BY <1>5 DEF Within3
<1> HIDE DEF n
<1>6. CASE ph = "construct"
  <2>1. CClaim(f, b, j, c, x, e) /\ First(ph) = 2
    BY <1>6 DEF Claim, First
  <2>2. /\ j = 2 => x = Val(f, 0)[g]
        /\ j - 3 \in 0 .. n - 1 => x = Val(f, j - 3)[g]
        /\ \A m \in 1 .. n : m <= j - 3 /\ Pat(m, g) /\ Within3(m, c) => e = Kept(Want(f, m, g))
    BY <2>1 DEF CClaim, g, n
  <2>3. CClaim(f, b, j + 1, c, x, e)
    <3>1. j + 1 # 1 /\ j + 1 # 2 /\ (j + 1) - 3 = j - 2
      BY <1>3
    <3>2. ASSUME j - 2 \in 0 .. n - 1 PROVE x = Val(f, j - 2)[g]
      <4>1. CASE j = 2
        BY <2>2, <4>1
      <4>2. CASE j # 2
        <5> DEFINE k == j - 2
        <5>1. k \in 1 .. n /\ j = 2 + k /\ k < n /\ j - 3 = k - 1 /\ j - 3 \in 0 .. n - 1
          BY <1>1, <3>2, <4>2
        <5> HIDE DEF k
        <5>2. x = Val(f, k - 1)[g]
          BY <2>2, <5>1
        <5>3. Val(f, k)[g] = Val(f, k - 1)[g]
          BY <1>4, <1>5, <2>1, <5>1
        <5> QED
          BY <5>2, <5>3 DEF k
      <4> QED
        BY <4>1, <4>2
    <3>3. ASSUME NEW m \in 1 .. n, m <= j - 2, Pat(m, g), Within3(m, c) PROVE e = Kept(Want(f, m, g))
      <4>1. m # j - 2
        <5>1. ASSUME m = j - 2 PROVE FALSE
          <6>1. j = 2 + m
            BY <5>1
          <6> QED
            BY <1>4, <2>1, <3>3, <6>1
        <5> QED
          BY <5>1
      <4>2. m <= j - 3
        BY <3>3, <4>1
      <4> QED
        BY <2>2, <3>3, <4>2
    <3> QED
      BY <3>1, <3>2, <3>3 DEF CClaim, g, n
  <2> QED
    BY <1>6, <2>3 DEF Claim
<1>7. CASE ph = "reconstruct"
  <2>1. First(ph) = 1 /\ ph # "construct"
    BY <1>7 DEF First
  <2>2. SUFFICES ASSUME Fit(err), Inner(f, g)
                 PROVE  /\ j - 1 \in 0 .. n /\ Known(j - 1, c) /\ Within3(j - 1, c) => x = Val(f, j - 1)[g]
                        /\ j - 1 \in 0 .. n => e = err[g]
    <3>1. j + 1 # 1 /\ (j + 1) - 2 = j - 1
      BY <1>3
    <3> QED
      BY <2>1, <2>2, <3>1 DEF Claim, RClaim, g, n
  <2>3. /\ j - 2 \in 0 .. n /\ Known(j - 2, c) /\ Within3(j - 2, c) => x = Val(f, j - 2)[g]
        /\ j - 2 \in 0 .. n => e = err[g]
    BY <2>1, <2>2 DEF Claim, RClaim, g, n
  <2>4. SUFFICES ASSUME j - 1 \in 0 .. n
                 PROVE  /\ Known(j - 1, c) /\ Within3(j - 1, c) => x = Val(f, j - 1)[g]
                        /\ e = err[g]
    BY <2>4
  <2> DEFINE k == j - 1
  <2>5. k \in 1 .. n /\ j = 1 + k /\ j - 2 = k - 1 /\ j - 2 \in 0 .. n /\ k - 1 < n
    BY <1>1, <1>3, <2>4
  <2> HIDE DEF k
  <2>6. ASSUME Known(k, c), Within3(k, c) PROVE x = Val(f, k)[g]
    <3>1. ~Pat(k, c) /\ Known(k - 1, c) /\ Val(f, k)[g] = Val(f, k - 1)[g]
      BY <1>4, <2>1, <2>5, <2>6
    <3>2. Within3(k - 1, c)
      BY <1>5, <2>5
    <3> QED
      BY <2>3, <2>5, <3>1, <3>2
  <2> QED
    BY <2>3, <2>5, <2>6 DEF k
<1> QED
  BY <1>6, <1>7 DEF Kernels

(* There is a warp.                                                          *)
LEMMA SomeWarp == \E w : w \in Warps
<1>1. (0 % NTHREAD) \div WARP \in Warps
  BY WarpOf
<1> QED
  BY <1>1

(* A barrier: everybody is done with the turn.                               *)
LEMMA SyncStep ==
  ASSUME SplineInv, Sync
  PROVE  SplineInv'
<1>1. /\ at \in [Warps -> Nat] /\ field \in Fields /\ block \in 0 .. NBlocks(field) - 1
  BY DEF SplineInv, Types
<1>2. PICK z : z \in Warps
  BY SomeWarp
<1>3. phase \in Kernels
  BY <1>2 DEF Sync, Op, Kernels
<1>4. PICK j \in 0 .. Halt(phase) : Turn(j) /\ Shared(j)
  BY <1>3 DEF SplineInv, Working
<1>5. /\ Len(Program) = 2 * Halt(phase)
      /\ \A i \in 0 .. Halt(phase) - 1 : Program[2 * i + 1][1] = OpOf(phase, i)
  BY <1>3, ProgramIs
<1>6. NStage \in Nat \ {0} /\ Halt(phase) \in Nat /\ j \in Nat
  BY NStageIs DEF Halt, First
<1>7. j \in 0 .. Halt(phase) - 1
  <2>1. at[z] <= Len(Program) /\ at[z] >= 2 * j + 1
    BY <1>2, <1>4, <1>6 DEF Sync, Op, Turn
  <2> QED
    BY <1>1, <1>2, <1>5, <1>6, <2>1
<1>8. ASSUME NEW w \in Warps PROVE at[w] = 2 * j + 2
  <2>1. Program[at[w]][1] = "sync"
    BY DEF Sync, Op
  <2>2. Program[2 * j + 1][1] = OpOf(phase, j) /\ OpOf(phase, j) # "sync"
    BY <1>5, <1>7 DEF OpOf
  <2>3. at[w] # 2 * j + 1
    BY <2>1, <2>2
  <2> QED
    BY <1>4, <2>3 DEF Turn
<1>9. /\ at' = [w \in Warps |-> at[w] + 1] /\ field' = field /\ phase' = phase /\ block' = block
      /\ shm_data' = shm_data /\ shm_errctrl' = shm_errctrl
      /\ anchor' = anchor /\ errctrl' = errctrl /\ xdata' = xdata
  BY DEF Sync, global
<1>10. at' \in [Warps -> Nat] /\ \A w \in Warps : at'[w] = 2 * (j + 1) + 1 /\ at'[w] = at[w] + 1
  BY <1>1, <1>6, <1>8, <1>9
<1>11. Turn(j + 1)'
  BY <1>10 DEF Turn
<1>12. ASSUME NEW c \in Scratch
       PROVE  Claim(phase, field, block, errctrl, j + 1, c, shm_data[c], shm_errctrl[c])
  <2>1. Claim(phase, field, block, errctrl, Reached(phase, at, j, c), c, shm_data[c], shm_errctrl[c])
    BY <1>4 DEF Shared
  <2>2. CASE \E u \in Warps : c \in Part(phase, j, u)
    <3>1. Reached(phase, at, j, c) = j + 1
      BY <1>8, <2>2 DEF Reached
    <3> QED
      BY <2>1, <3>1
  <2>3. CASE \A u \in Warps : c \notin Part(phase, j, u)
    <3>1. Reached(phase, at, j, c) = j
      BY <2>3, ReachedUntouched
    <3>2. Claim(phase, field, block, errctrl, j, c, shm_data[c], shm_errctrl[c])
      BY <2>1, <3>1
    <3> QED
      BY <1>1, <1>3, <1>7, <2>3, <3>2, Skipped
  <2> QED
    BY <2>2, <2>3
<1>13. Shared(j + 1)'
  <2>1. ASSUME NEW c PROVE Reached(phase, at', j + 1, c) = j + 1
    <3>1. \A u \in Warps : at'[u] # 2 * (j + 1) + 2
      BY <1>6, <1>10
    <3> QED
      BY <3>1 DEF Reached
  <2>2. ASSUME NEW c \in Scratch
        PROVE  Claim(phase', field', block', errctrl', Reached(phase', at', j + 1, c), c, shm_data'[c], shm_errctrl'[c])
    <3>1. Reached(phase', at', j + 1, c) = j + 1
      BY <1>9, <2>1
    <3> QED
      BY <1>9, <1>12, <3>1
  <2> QED
    BY <2>2 DEF Shared
<1>14. Working'
  <2>1. j + 1 \in 0 .. Halt(phase)
    BY <1>6, <1>7
  <2> QED
    BY <1>3, <1>9, <1>11, <1>13, <2>1 DEF Working
<1>15. Types'
  BY <1>9, <1>10 DEF SplineInv, Types
<1>16. \A w \in Warps : /\ at'[w] >= 6 => at[w] >= 6
                        /\ at'[w] >= 8 + 2 * NStage => at[w] >= 8 + 2 * NStage
                        /\ at'[w] >= 6 + 2 * NStage => at[w] >= 6 + 2 * NStage
  BY <1>6, <1>8, <1>10
<1>17. Compressing'
  BY <1>9, <1>16 DEF SplineInv, Compressing
<1>18. Decompressing'
  BY <1>9, <1>16 DEF SplineInv, Decompressing
<1>19. Compressed' /\ Decompressed'
  BY <1>9 DEF SplineInv, Compressed, Decompressed
<1>20. Bounded'
  BY <1>6, <1>7, <1>9, <1>10 DEF Bounded
<1> QED
  BY <1>14, <1>15, <1>17, <1>18, <1>19, <1>20 DEF SplineInv

(* A kernel's start: nobody has written, and nothing is claimed.             *)
LEMMA Started ==
  ASSUME Fresh
  PROVE  /\ at' \in [Warps -> Nat] /\ \A w \in Warps : at'[w] = 1
         /\ shm_data' \in [Scratch -> Number] /\ shm_errctrl' \in [Scratch -> Codes]
         /\ phase' \in Kernels => Working' /\ Bounded'
         /\ phase' = "done" => Working' /\ Bounded'
<1>1. at' \in [Warps -> Nat] /\ \A w \in Warps : at'[w] = 1
  BY DEF Fresh
<1>2. shm_data' \in [Scratch -> Number] /\ shm_errctrl' \in [Scratch -> Codes]
  BY DEF Fresh, Number, Codes
<1>3. ASSUME phase' \in Kernels PROVE Working' /\ Bounded'
  <2>1. NStage \in Nat /\ Halt(phase') \in Nat
    BY NStageIs DEF Halt, First
  <2>2. Turn(0)'
    BY <1>1 DEF Turn
  <2>3. ASSUME NEW c
        PROVE  Claim(phase', field', block', errctrl', Reached(phase', at', 0, c), c, shm_data'[c], shm_errctrl'[c])
    <3>1. Reached(phase', at', 0, c) = 0
      BY <1>1 DEF Reached
    <3>2. 0 # 1 /\ 0 # 2 /\ 0 - 3 \notin 0 .. NStage - 1 /\ 0 - 2 \notin 0 .. NStage
          /\ \A m \in 1 .. NStage : ~(m <= 0 - 3)
      BY <2>1
    <3>3. CClaim(field', block', 0, c, shm_data'[c], shm_errctrl'[c])
      BY <3>2 DEF CClaim
    <3>4. RClaim(field', block', errctrl', 0, c, shm_data'[c], shm_errctrl'[c])
      BY <3>2 DEF RClaim
    <3> QED
      BY <3>1, <3>3, <3>4 DEF Claim
  <2>4. Shared(0)'
    BY <2>3 DEF Shared
  <2>5. 0 \in 0 .. Halt(phase')
    BY <2>1
  <2>6. Working'
    BY <1>3, <2>2, <2>4, <2>5 DEF Working
  <2>7. Bounded'
    BY <1>1, <2>1 DEF Bounded
  <2> QED
    BY <2>6, <2>7
<1>4. ASSUME phase' = "done" PROVE Working' /\ Bounded'
  BY <1>1, <1>4 DEF Working, Bounded, Kernels
<1> QED
  BY <1>1, <1>2, <1>3, <1>4

(* A kernel's end: its warps have done their shares of the block.            *)
LEMMA Shares ==
  ASSUME NEW f, NEW b
  PROVE  /\ \A a : (\A w \in Warps : AnchorsOf(f, b, Share(w, Face), a)) => AnchorsOf(f, b, Box(Face), a)
         /\ \A e : (\A w \in Warps : CodesOf(f, b, Share(w, SUBLEN), e)) => CodesOf(f, b, Box(SUBLEN), e)
         /\ \A x : (\A w \in Warps : OutsOf(f, b, Share(w, SUBLEN), x)) => OutsOf(f, b, Box(SUBLEN), x)
<1>1. \A c \in Box(Face) : \E w \in Warps : c \in Share(w, Face)
  BY FaceIs, ShareIs
<1>2. \A c \in Box(SUBLEN) : \E w \in Warps : c \in Share(w, SUBLEN)
  BY FaceIs, ShareIs
<1>3. ASSUME NEW a, \A w \in Warps : AnchorsOf(f, b, Share(w, Face), a) PROVE AnchorsOf(f, b, Box(Face), a)
  BY <1>1, <1>3, Zenon DEF AnchorsOf
<1>4. ASSUME NEW e, \A w \in Warps : CodesOf(f, b, Share(w, SUBLEN), e) PROVE CodesOf(f, b, Box(SUBLEN), e)
  BY <1>2, <1>4, Zenon DEF CodesOf
<1>5. ASSUME NEW x, \A w \in Warps : OutsOf(f, b, Share(w, SUBLEN), x) PROVE OutsOf(f, b, Box(SUBLEN), x)
  BY <1>2, <1>5, Zenon DEF OutsOf
<1> QED
  BY <1>3, <1>4, <1>5

(* So the block is done.                                                     *)
LEMMA BlockDone ==
  ASSUME SplineInv, phase \in Kernels, Ended
  PROVE  /\ phase = "construct" =>
              \A b \in 0 .. block : AnchorsOf(field, b, Box(Face), anchor) /\ CodesOf(field, b, Box(SUBLEN), errctrl)
         /\ phase = "reconstruct" /\ Fit(errctrl) =>
              \A b \in 0 .. block : OutsOf(field, b, Box(SUBLEN), xdata)
<1>1. NStage \in Nat /\ block \in Nat
  <2>1. block \in 0 .. NBlocks(field) - 1
    BY DEF SplineInv, Types
  <2> QED
    BY <2>1, NStageIs
<1>2. \A w \in Warps : at[w] = 2 * Halt(phase) + 1
  BY ProgramIs DEF Ended
<1>3. ASSUME phase = "construct", NEW b \in 0 .. block
      PROVE  AnchorsOf(field, b, Box(Face), anchor) /\ CodesOf(field, b, Box(SUBLEN), errctrl)
  <2>1. Compressing
    BY DEF SplineInv
  <2>2. CASE b \in 0 .. block - 1
    BY <1>3, <2>1, <2>2 DEF Compressing
  <2>3. CASE b = block
    <3>1. \A w \in Warps : at[w] >= 6 /\ at[w] >= 8 + 2 * NStage
      BY <1>1, <1>2, <1>3 DEF Halt, First
    <3>2. \A w \in Warps : AnchorsOf(field, block, Share(w, Face), anchor) /\ CodesOf(field, block, Share(w, SUBLEN), errctrl)
      BY <1>3, <2>1, <3>1 DEF Compressing
    <3> QED
      BY <2>3, <3>2, Shares
  <2> QED
    BY <1>1, <2>2, <2>3
<1>4. ASSUME phase = "reconstruct", Fit(errctrl), NEW b \in 0 .. block PROVE OutsOf(field, b, Box(SUBLEN), xdata)
  <2>1. Decompressing
    BY DEF SplineInv
  <2>2. CASE b \in 0 .. block - 1
    BY <1>4, <2>1, <2>2 DEF Decompressing
  <2>3. CASE b = block
    <3>1. \A w \in Warps : at[w] >= 6 + 2 * NStage
      BY <1>1, <1>2, <1>4 DEF Halt, First
    <3>2. \A w \in Warps : OutsOf(field, block, Share(w, SUBLEN), xdata)
      BY <1>4, <2>1, <3>1 DEF Decompressing
    <3> QED
      BY <2>3, <3>2, Shares
  <2> QED
    BY <1>1, <2>2, <2>3
<1> QED
  BY <1>3, <1>4

(* The next block of a launch.                                               *)
LEMMA NextBlockStep ==
  ASSUME SplineInv, NextBlock
  PROVE  SplineInv'
<1>1. /\ phase \in Kernels /\ Ended /\ block + 1 < NBlock /\ block' = block + 1 /\ Fresh
      /\ field' = field /\ phase' = phase /\ anchor' = anchor /\ errctrl' = errctrl /\ xdata' = xdata
  BY DEF NextBlock, global, Kernels
<1>2. block \in Nat /\ block + 1 \in 0 .. NBlocks(field) - 1 /\ NStage \in Nat
  <2>1. field \in Fields /\ block \in 0 .. NBlocks(field) - 1 /\ NBlocks(field) \in Nat
    BY BlocksAre DEF SplineInv, Types
  <2> QED
    BY <1>1, <2>1, Geometry, NStageIs
<1>3. /\ at' \in [Warps -> Nat] /\ \A w \in Warps : at'[w] = 1
      /\ shm_data' \in [Scratch -> Number] /\ shm_errctrl' \in [Scratch -> Codes]
      /\ Working' /\ Bounded'
  BY <1>1, Started
<1>4. Types'
  BY <1>1, <1>2, <1>3 DEF SplineInv, Types
<1>5. \A b : b \in 0 .. block' - 1 => b \in 0 .. block
  BY <1>1, <1>2
<1>6. \A w \in Warps : ~(at'[w] >= 6) /\ ~(at'[w] >= 8 + 2 * NStage) /\ ~(at'[w] >= 6 + 2 * NStage)
  BY <1>2, <1>3
<1>7. Compressing'
  <2>1. phase = "construct" =>
          \A b \in 0 .. block : AnchorsOf(field, b, Box(Face), anchor) /\ CodesOf(field, b, Box(SUBLEN), errctrl)
    BY <1>1, BlockDone
  <2> QED
    BY <1>1, <1>5, <1>6, <2>1 DEF Compressing
<1>8. Decompressing'
  <2>1. phase = "reconstruct" /\ Fit(errctrl) => \A b \in 0 .. block : OutsOf(field, b, Box(SUBLEN), xdata)
    BY <1>1, BlockDone
  <2> QED
    BY <1>1, <1>5, <1>6, <2>1 DEF Decompressing
<1>9. Compressed' /\ Decompressed'
  BY <1>1 DEF SplineInv, Compressed, Decompressed
<1> QED
  BY <1>3, <1>4, <1>7, <1>8, <1>9 DEF SplineInv

(* Compression ends with the archive, and decompression starts.              *)
LEMMA LaunchReconstructStep ==
  ASSUME SplineInv, launch_reconstruct_Spline3
  PROVE  SplineInv'
<1>1. /\ phase = "construct" /\ phase \in Kernels /\ Ended /\ block + 1 = NBlock /\ phase' = "reconstruct" /\ block' = 0 /\ Fresh
      /\ field' = field /\ anchor' = anchor /\ errctrl' = errctrl /\ xdata' = xdata
  BY DEF launch_reconstruct_Spline3, global, Kernels
<1>2. /\ field \in Fields /\ NBlocks(field) \in Nat \ {0} /\ block \in 0 .. NBlocks(field) - 1
      /\ block = NBlocks(field) - 1 /\ NStage \in Nat
  <2>1. field \in Fields /\ block \in 0 .. NBlocks(field) - 1 /\ NBlocks(field) \in Nat \ {0}
    BY BlocksAre DEF SplineInv, Types
  <2> QED
    BY <1>1, <2>1, Geometry, NStageIs
<1>3. /\ at' \in [Warps -> Nat] /\ \A w \in Warps : at'[w] = 1
      /\ shm_data' \in [Scratch -> Number] /\ shm_errctrl' \in [Scratch -> Codes]
      /\ Working' /\ Bounded'
  BY <1>1, Started DEF Kernels
<1>4. \A b \in 0 .. NBlocks(field) - 1 :
         AnchorsOf(field, b, Box(Face), anchor) /\ CodesOf(field, b, Box(SUBLEN), errctrl)
  BY <1>1, <1>2, BlockDone
<1>5. ASSUME NEW g \in Box(Aligned(field)) PROVE CodeKept(field, g, errctrl[g])
  <2>1. PICK b \in 0 .. NBlocks(field) - 1 : \E c \in Box(SUBLEN) : Lay(field, b, c) = g
    BY <1>2, Tiles
  <2> QED
    BY <1>4, <2>1 DEF CodesOf
<1>6. ASSUME NEW g \in Box(field.len3), OnAnchor(g) PROVE anchor[AnchorOf(g)] = field.data[g]
  <2>1. g \in Box(Aligned(field))
    BY <1>2, FieldInside
  <2>2. PICK b \in 0 .. NBlocks(field) - 1 : \E c \in Box(SUBLEN) : Lay(field, b, c) = g
    BY <1>2, <2>1, Tiles
  <2>3. PICK c \in Box(SUBLEN) : Lay(field, b, c) = g
    BY <2>2
  <2>4. c \in Cells
    BY ScratchIs
  <2>5. IsAnchor(c) /\ c \in Box(Face)
    BY <1>2, <1>6, <2>3, <2>4, AnchorsLie
  <2> QED
    BY <1>4, <2>3, <2>5 DEF AnchorsOf
<1>7. Archived(field, anchor, errctrl)
  BY <1>5, <1>6 DEF Archived
<1>8. Types'
  BY <1>1, <1>2, <1>3 DEF SplineInv, Types
<1>9. Compressing' /\ Compressed' /\ Decompressed'
  BY <1>1, <1>7 DEF Compressing, Compressed, Decompressed
<1>10. Decompressing'
  <2>1. \A b : b \notin 0 .. block' - 1
    BY <1>1
  <2>2. \A w \in Warps : ~(at'[w] >= 6 + 2 * NStage)
    BY <1>2, <1>3
  <2> QED
    BY <2>1, <2>2 DEF Decompressing
<1> QED
  BY <1>3, <1>8, <1>9, <1>10 DEF SplineInv

(* Decompression ends with the result.                                       *)
LEMMA FinishStep ==
  ASSUME SplineInv, Finish
  PROVE  SplineInv'
<1>1. /\ phase = "reconstruct" /\ phase \in Kernels /\ Ended /\ block + 1 = NBlock /\ phase' = "done" /\ block' = block /\ Fresh
      /\ field' = field /\ anchor' = anchor /\ errctrl' = errctrl /\ xdata' = xdata
  BY DEF Finish, global, Kernels
<1>2. /\ field \in Fields /\ NBlocks(field) \in Nat \ {0} /\ block \in 0 .. NBlocks(field) - 1
      /\ block = NBlocks(field) - 1
  <2>1. field \in Fields /\ block \in 0 .. NBlocks(field) - 1 /\ NBlocks(field) \in Nat \ {0}
    BY BlocksAre DEF SplineInv, Types
  <2> QED
    BY <1>1, <2>1, Geometry
<1>3. /\ at' \in [Warps -> Nat] /\ \A w \in Warps : at'[w] = 1
      /\ shm_data' \in [Scratch -> Number] /\ shm_errctrl' \in [Scratch -> Codes]
      /\ Working' /\ Bounded'
  BY <1>1, Started
<1>4. ASSUME Fit(errctrl), NEW g \in Box(field.len3), Inner(field, g) PROVE xdata[g] = Val(field, NStage)[g]
  <2>1. g \in Box(Aligned(field))
    BY <1>2, FieldInside
  <2>2. PICK b \in 0 .. NBlocks(field) - 1 : \E c \in Box(SUBLEN) : Lay(field, b, c) = g
    BY <1>2, <2>1, Tiles
  <2>3. OutsOf(field, b, Box(SUBLEN), xdata)
    BY <1>1, <1>2, <1>4, BlockDone
  <2> QED
    BY <1>4, <2>2, <2>3 DEF OutsOf
<1>5. Types'
  BY <1>1, <1>2, <1>3 DEF SplineInv, Types
<1>6. Compressing' /\ Compressed' /\ Decompressing'
  BY <1>1 DEF SplineInv, Compressing, Compressed, Decompressing
<1>7. Decompressed'
  BY <1>1, <1>4 DEF Decompressed
<1> QED
  BY <1>3, <1>5, <1>6, <1>7 DEF SplineInv

(* Compression starts.                                                       *)
LEMMA LaunchConstructStep ==
  ASSUME SplineInv, launch_construct_Spline3
  PROVE  SplineInv'
<1>1. /\ phase = "launch" /\ phase' = "construct" /\ block' = block /\ Fresh
      /\ field' = field /\ anchor' = anchor /\ errctrl' = errctrl /\ xdata' = xdata
  BY DEF launch_construct_Spline3, global
<1>2. block = 0
  BY <1>1 DEF SplineInv, Working, Kernels
<1>3. /\ at' \in [Warps -> Nat] /\ \A w \in Warps : at'[w] = 1
      /\ shm_data' \in [Scratch -> Number] /\ shm_errctrl' \in [Scratch -> Codes]
      /\ Working' /\ Bounded'
  BY <1>1, Started DEF Kernels
<1>4. Types'
  BY <1>1, <1>3 DEF SplineInv, Types
<1>5. Compressing'
  <2>1. \A b : b \notin 0 .. block' - 1
    BY <1>1, <1>2
  <2>2. NStage \in Nat
    BY NStageIs
  <2>3. \A w \in Warps : ~(at'[w] >= 6) /\ ~(at'[w] >= 8 + 2 * NStage)
    BY <1>3, <2>2
  <2> QED
    BY <2>1, <2>3 DEF Compressing
<1>6. Compressed' /\ Decompressing' /\ Decompressed'
  BY <1>1 DEF Compressed, Decompressing, Decompressed
<1> QED
  BY <1>3, <1>4, <1>5, <1>6 DEF SplineInv

(* The first states.                                                         *)
LEMMA Begun ==
  ASSUME Init
  PROVE  SplineInv
<1>1. /\ field \in Fields /\ phase = "launch" /\ block = 0 /\ at = [w \in Warps |-> 1]
      /\ shm_data = [c \in Scratch |-> Undef] /\ shm_errctrl = [c \in Scratch |-> Undef]
  BY DEF Init
<1>2. /\ anchor = [a \in Box(AnchorLen(field)) |-> Undef]
      /\ errctrl = [g \in Box(Aligned(field)) |-> Undef] /\ xdata = [g \in Box(field.len3) |-> Undef]
  BY Geometry DEF Init
<1>3. 0 \in 0 .. NBlocks(field) - 1
  BY <1>1, BlocksAre
<1>4. Types
  BY <1>1, <1>2, <1>3 DEF Types, Number, Codes
<1>5. Working /\ Bounded
  BY <1>1 DEF Working, Bounded, Kernels
<1>6. Compressing /\ Compressed /\ Decompressing /\ Decompressed
  BY <1>1 DEF Compressing, Compressed, Decompressing, Decompressed
<1> QED
  BY <1>4, <1>5, <1>6 DEF SplineInv

(* Nothing happens.                                                          *)
LEMMA Stuttered ==
  ASSUME SplineInv, UNCHANGED vars
  PROVE  SplineInv'
<1>1. /\ field' = field /\ phase' = phase /\ block' = block /\ at' = at /\ shm_data' = shm_data
      /\ shm_errctrl' = shm_errctrl /\ anchor' = anchor /\ errctrl' = errctrl /\ xdata' = xdata
  BY DEF vars
<1>2. Types'
  BY <1>1 DEF SplineInv, Types
<1>3. Working'
  BY <1>1 DEF SplineInv, Working, Turn, Shared
<1>4. Bounded'
  BY <1>1 DEF SplineInv, Bounded
<1>5. Compressing' /\ Compressed'
  BY <1>1 DEF SplineInv, Compressing, Compressed
<1>6. Decompressing' /\ Decompressed'
  BY <1>1 DEF SplineInv, Decompressing, Decompressed
<1> QED
  BY <1>2, <1>3, <1>4, <1>5, <1>6 DEF SplineInv

(* Every step keeps the invariant.                                           *)
LEMMA Stepped ==
  ASSUME SplineInv, [Next]_vars
  PROVE  SplineInv'
<1>1. CASE \E w \in Warps : WarpStep(w)
  <2>1. PICK w \in Warps : WarpStep(w)
    BY <1>1
  <2>2. CASE c_reset_scratch(w)
    BY <2>2, CResetStep
  <2>3. CASE x_reset_scratch(w)
    BY <2>3, XResetStep
  <2>4. CASE global2shmem(w)
    BY <2>4, LoadStep
  <2>5. CASE c_gather_anchor(w)
    BY <2>5, GatherStep
  <2>6. CASE interpolate_stage(w)
    BY <2>6, InterpolateStep
  <2>7. CASE shmem2global(w)
    <3>1. phase = "construct" \/ phase = "reconstruct"
      BY <2>7 DEF shmem2global, Op
    <3> QED
      BY <2>7, <3>1, StoreCodes, StoreOuts
  <2> QED
    BY <2>1, <2>2, <2>3, <2>4, <2>5, <2>6, <2>7 DEF WarpStep
<1>2. CASE Sync
  BY <1>2, SyncStep
<1>3. CASE NextBlock
  BY <1>3, NextBlockStep
<1>4. CASE launch_construct_Spline3
  BY <1>4, LaunchConstructStep
<1>5. CASE launch_reconstruct_Spline3
  BY <1>5, LaunchReconstructStep
<1>6. CASE Finish
  BY <1>6, FinishStep
<1>7. CASE UNCHANGED vars
  BY <1>7, Stuttered
<1> QED
  BY <1>1, <1>2, <1>3, <1>4, <1>5, <1>6, <1>7 DEF Next

(* Whatever order the warps run in, shared memory, the archive and the       *)
(* result hold what the ideal values say they must by then.                  *)
THEOREM SplineInvariant == Spec => []SplineInv
<1>1. Init => SplineInv
  BY Begun
<1>2. SplineInv /\ [Next]_vars => SplineInv'
  BY Stepped
<1> QED
  BY <1>1, <1>2, PTL DEF Spec

-----------------------------------------------------------------------------
(* The invariant says of types what TypeOK does.                             *)
LEMMA WellTyped ==
  ASSUME SplineInv
  PROVE  TypeOK
<1>1. Types
  BY DEF SplineInv
<1>2. NBlock = NBlocks(field) /\ aligned_len3 = Aligned(field) /\ anchor_len3 = AnchorLen(field)
  BY Geometry
<1>3. NStage \in Nat \ {0} /\ Len(c_spline3d) = 8 + 2 * NStage
  BY NStageIs, ConstructIs DEF ConstructProg
<1>4. ASSUME NEW w \in Warps PROVE at[w] \in 1 .. Len(c_spline3d) + 1
  <2>1. at[w] \in Nat
    BY <1>1 DEF Types
  <2>2. CASE phase \in Kernels
    <3>1. PICK j \in 0 .. Halt(phase) : Turn(j)
      BY <2>2 DEF SplineInv, Working
    <3>2. Halt(phase) \in Nat /\ Halt(phase) <= 4 + NStage
      BY <1>3 DEF Halt, First
    <3>3. at[w] >= 1
      BY <3>1, <3>2 DEF Turn
    <3>4. at[w] <= 2 * Halt(phase) + 1
      BY <2>2 DEF SplineInv, Bounded
    <3> QED
      BY <1>3, <2>1, <3>2, <3>3, <3>4
  <2>3. CASE phase \notin Kernels
    <3>1. at[w] = 1
      BY <2>3 DEF SplineInv, Working
    <3> QED
      BY <1>3, <3>1
  <2> QED
    BY <2>2, <2>3
<1>5. at \in [Warps -> 1 .. Len(c_spline3d) + 1]
  BY <1>1, <1>4 DEF Types
<1>6. /\ field \in Fields /\ phase \in {"launch", "construct", "reconstruct", "done"} /\ block \in 0 .. NBlock - 1
  BY <1>1, <1>2 DEF Types
<1>7. DOMAIN shm_data = Scratch /\ \A c \in Scratch : shm_data[c] \in Number
  BY <1>1 DEF Types
<1>8. /\ shm_errctrl \in [Scratch -> 0 .. CAP \cup {Undef}] /\ DOMAIN anchor = Box(anchor_len3)
      /\ errctrl \in [Box(aligned_len3) -> 0 .. CAP \cup {Undef}] /\ DOMAIN xdata = Box(field.len3)
  BY <1>1, <1>2 DEF Types, Codes
<1> QED
  BY <1>5, <1>6, <1>7, <1>8 DEF TypeOK

(* The invariant bounds the error.                                           *)
LEMMA Bound ==
  ASSUME SplineInv
  PROVE  ErrorBounded
<1>1. SUFFICES ASSUME phase = "done", CodesFit, NEW g \in DOMAIN xdata, FromStored(g)
               PROVE  xdata[g] # Undef /\ Abs(xdata[g] - field.data[g]) <= EB
  BY DEF ErrorBounded
<1>2. field \in Fields /\ g \in Box(field.len3)
  BY <1>1 DEF SplineInv, Types
<1>3. g \in Cells
  BY <1>2, FieldInside
<1>4. Inner(field, g) /\ Fit(errctrl)
  BY <1>1, OfCells DEF CodesFit, Fit
<1>5. xdata[g] = Val(field, NStage)[g]
  BY <1>1, <1>2, <1>4 DEF SplineInv, Decompressed
<1>6. FieldOf(field)[g] = field.data[g]
  BY <1>2, <1>3 DEF FieldOf
<1>7. Val(field, NStage)[g] \in Int /\ Abs(Val(field, NStage)[g] - FieldOf(field)[g]) <= EB
  <2>1. NStage \in 0 .. NStage
    BY NStageIs
  <2> QED
    BY <1>2, <1>3, <2>1, ValIs
<1> QED
  BY <1>5, <1>6, <1>7, Constants

(* Of every state: the memories have their shapes, the codes fit their type, *)
(* a warp is within its kernel, the block within the field.                  *)
THEOREM SplineTypeOK == Spec => []TypeOK
<1>1. SplineInv => TypeOK
  BY WellTyped
<1> QED
  BY <1>1, SplineInvariant, PTL

(* Every value that decompression interpolates from what was stored is within *)
(* the error bound, if the codes fit: for every field, size, distance of the *)
(* anchors, width of a warp, radius and bound, and every order of the warps. *)
THEOREM SplineErrorBounded == Spec => []ErrorBounded
<1>1. SplineInv => ErrorBounded
  BY Bound
<1> QED
  BY <1>1, SplineInvariant, PTL
===============================================================================
