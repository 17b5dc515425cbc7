------------------------------- MODULE Predicted -------------------------------
(***************************************************************************)
(* What the compressor does with a prediction between the two launches of  *)
(* the library's own Lorenzo kernels: the histogram of the codes           *)
(* (kernel::p2013Histogram and the launch fitted to the length), and the   *)
(* outliers gathered by the sparse codec and scattered into a zeroed       *)
(* result before reconstruction.                                           *)
(*                                                                         *)
(* The threads of the histogram only add, atomically, between two          *)
(* barriers, so a thread block is one step: what matters is which thread   *)
(* reads which code, and into which replica it counts.                     *)
(***************************************************************************)
EXTENDS Lorenzo

CONSTANTS
  num_SMs,         \* multiprocessors of the device
  MaxInts,         \* counters that fit shared memory
  UNIT, MAXBLOCK   \* the size of a thread block: a multiple; the greatest

VARIABLES freq, hblock      \* the counts; the thread blocks that have run
pvars == <<vars, freq, hblock>>

ASSUME PredictedAssumption ==
  /\ {num_SMs, MaxInts, UNIT, MAXBLOCK} \subseteq Nat \ {0} /\ MaxInts > 2 * RADIUS
  /\ UNIT % WARP = 0 /\ MAXBLOCK % UNIT = 0

booklen == 2 * RADIUS
in_len  == Cardinality(DOMAIN field.data)

\* The launch: replicas are halved and the grid doubled until a block is small
\* enough; a block that cannot shrink is cut to the greatest.
Doubled[k \in 0 .. MaxInts] == IF k = 0 THEN 1 ELSE 2 * Doubled[k - 1]
grid_dim(k)  == num_SMs * Doubled[k]
block_dim(k) == ((((in_len \div grid_dim(k)) + 1) \div UNIT) + 1) * UNIT
Replicas(k)  == (MaxInts \div (booklen + 1)) \div Doubled[k]
optimize_launch ==
  LET Stops(k) == block_dim(k) <= MAXBLOCK \/ Replicas(k) <= 1
      k == CHOOSE k \in 0 .. MaxInts : Stops(k) /\ \A j \in 0 .. k - 1 : ~Stops(j)
  IN  [grid |-> grid_dim(k), R |-> Replicas(k),
       dim  |-> IF block_dim(k) <= MAXBLOCK THEN block_dim(k) ELSE MAXBLOCK]

\* The codes a thread reads: each warp has a part of the field, the last warp
\* what is left of it; the blocks take turns within a part.
Warp(tix)       == tix \div WARP
Part(L)         == in_len \div (L.dim \div WARP)
Begin(L, tix)   == Part(L) * Warp(tix) + WARP * hblock + (tix % WARP)
Short(L, tix)   == Part(L) * (Warp(tix) + 1)                                \* mutant
End(L, tix)     == IF Warp(tix) >= (L.dim \div WARP) - 1 THEN in_len ELSE Part(L) * (Warp(tix) + 1)
Reads(L, tix)   == LET begin == Begin(L, tix)
                   IN  {i \in begin .. End(L, tix) - 1 : (i - begin) % (WARP * L.grid) = 0}
Clamped(d)      == IF d <= 0 /\ d >= booklen THEN booklen \div 2 ELSE d
\* A difference that is not a number is not quantizable, and so has code 0.
Number(d)       == IF d = Undef THEN 0 ELSE d

\* Hs, with a row of counters for each replica; then the rows are added up.
Launched == pair \in {"lorenzo_1d", "lorenzo_2d", "lorenzo_3d"}
p2013Histogram ==
  /\ phase = "scatter" /\ Launched /\ hblock < optimize_launch.grid
  /\ LET L     == optimize_launch
         At(t, i) == (booklen + 1) * (t % L.R) + Clamped(Number(quant[i]))
         Seen  == UNION {{<<t, i, At(t, i)>> : i \in Reads(L, t)} : t \in 0 .. L.dim - 1}
         Hs    == [pos \in 0 .. (booklen + 1) * L.R - 1 |-> Cardinality({s \in Seen : s[3] = pos})]
     IN  freq' = [pos \in DOMAIN freq |->
                    freq[pos] + Total(LAMBDA r : Hs[(booklen + 1) * (r - 1) + pos], L.R)]
  /\ hblock' = hblock + 1
  /\ UNCHANGED vars

\* The indices of what is not zero, and the values there.
spv_gather ==
  /\ phase = "scatter" /\ Launched /\ hblock = optimize_launch.grid
  /\ LET idx == {id \in DOMAIN outlier : outlier[id] # 0}
     IN  list' = [id \in idx |-> outlier[id]] /\ count' = Cardinality(idx)
  /\ phase' = "gathered"
  /\ UNCHANGED <<launched, block, blockvars, quant, outlier, xdata, overrun, overtaken, freq, hblock>>

\* The result is the client's, zeroed, or the codec's own in the tests.
spv_scatter ==
  /\ phase = "gathered" /\ phase' = "decompress" /\ block' = 0
  /\ outlier' = Into([id \in DOMAIN outlier |-> 0], list)
  /\ Fresh(kernels.x)
  /\ UNCHANGED <<launched, quant, xdata, list, count, overrun, overtaken, freq, hblock>>

PredictedInit == Init /\ freq = [c \in 0 .. booklen - 1 |-> 0] /\ hblock = 0
Predict ==
  /\ (\E w \in DOMAIN at : WarpStep(w)) \/ Sync \/ CubScan \/ NextBlock \/ Finish
     \/ (~Launched /\ Scatter) \/ TestOther
  /\ UNCHANGED <<freq, hblock>>
PredictedNext == Predict \/ p2013Histogram \/ spv_gather \/ spv_scatter
PredictedSpec == PredictedInit /\ [][PredictedNext]_pvars

\* The histogram counts every code once, however the field's length divides among
\* blocks, warps and replicas: no code is outside the dictionary, where the clamp
\* that never applies would let it be counted for another code.  What a warp that
\* was overtaken or a ghost row that was not a number makes is left aside.
CodesCounted ==
  phase = "gathered" /\ ~overtaken /\ ghost # Undef =>
    /\ \A id \in DOMAIN quant : quant[id] \in DOMAIN freq
    /\ \A c \in DOMAIN freq : freq[c] = Cardinality({id \in DOMAIN quant : quant[id] = c})
===============================================================================
