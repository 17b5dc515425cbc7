-------------------------------- MODULE Lorenzo --------------------------------
(***************************************************************************)
(* The Lorenzo predictor's kernels: lorenzo23.inl with its subroutines,    *)
(* lorenzo.inl (the original), lorenzo_var.inl (sign kept apart) and       *)
(* lorenzo_proto.inl (the prototype), in one, two and three dimensions.    *)
(*                                                                         *)
(* A kernel is a sequence of stages run by the warps of a thread block.    *)
(* The threads of a warp run a stage in lockstep, warps in any order, and  *)
(* "sync" is __syncthreads().  Thread blocks touch disjoint parts of the   *)
(* field and run one after another.  A cell of shared memory not written   *)
(* by the block holds Undef, which taints what is computed from it.        *)
(*                                                                         *)
(* A behaviour predicts and quantizes a field with one kernel, brings the  *)
(* outliers to where the other kernel takes them, and reconstructs the     *)
(* field: over the outliers, or in the tests of t-l23-utils.hh, which do   *)
(* it with two pairs of kernels and compare what these leave, apart.       *)
(***************************************************************************)
EXTENDS PN, FiniteSets, SequencesExt

CONSTANTS
  Pairs,      \* the pairs of kernels launched
  Tested,     \* the pairs that a test compares with the original's
  Fields,     \* the fields: records of len3 (extents) and data (by linear index)
  WARP,       \* threads in a warp of a 1D launch
  BLOCK1, SEQ, XSEQ,  \* 1D: cells of a block; cells of a thread, both ways
  BLOCK2,     \* 2D: side of a block, two threads high
  BLOCK3, SEGS,       \* 3D: side of a cube; cubes in a block
  RADIUS, EBX2,       \* the radius; twice the error bound
  Undef,      \* what nobody wrote, and what is computed from it
  Ghosts      \* 0 times what shared memory may hold before: 0, or not a number

ASSUME LorenzoAssumption ==
  /\ {WARP, BLOCK1, SEQ, XSEQ, BLOCK2, BLOCK3, SEGS, RADIUS} \subseteq Nat \ {0}
  /\ BLOCK1 % SEQ = 0 /\ BLOCK1 % XSEQ = 0 /\ BLOCK2 % 2 = 0
  /\ Ghosts \subseteq {0, Undef}
  /\ EBX2 \in Nat /\ EBX2 % 2 = 1 /\ Undef \notin Int /\ "none" \notin Tested
  /\ \A f \in Fields : /\ \A d \in 1 .. 3 : f.len3[d] \in Nat \ {0}
                       /\ DOMAIN f.len3 = 1 .. 3
                       /\ f.data \in [0 .. f.len3[1] * f.len3[2] * f.len3[3] - 1 -> Int]

VARIABLES
  field, pair,         \* what is compressed, by which kernels
  kernels,             \* the two of them, launch[pair]
  next,                \* in a test, the pair to be launched after this one
  ti1,                 \* and what the one before left
  ghost,               \* 0 times the row before a cube's first, in Ghosts
  phase, block,        \* the launch; the block that runs
  at,                  \* of each warp, the stage it is at
  reg,                 \* of each thread, its registers; 0 is for a neighbour's
  shm, sq,             \* shared memory, and that of the quant-codes
  quant, outlier,      \* the codes; the outliers, which become the result
  xdata,               \* the result in a test
  list, count,         \* the compacted outliers, by index; their count
  overtaken, overrun   \* a warp was overtaken; a write missed the arrays

blockvars == <<at, reg, shm, sq>>
codes     == <<quant, outlier, xdata, list, count, overrun>>
launched  == <<field, pair, kernels, next, ti1, ghost>>
vars == <<launched, phase, block, blockvars, codes, overtaken>>

-----------------------------------------------------------------------------
(* Stages.  A stage is a name and an argument; a subroutine is a sequence  *)
(* of stages.                                                              *)

sync == << <<"sync", "-">> >>
Stage(name, arg)       == << <<name, arg>> >>
Each(n, Stages(_))     == FlattenSeq([i \in 1 .. n |-> Stages(i)])
EachDown(n, Stages(_)) == Each(n, LAMBDA i : Stages(n + 1 - i))

NoReuseSync      == Stage("stripe_in", "prequant") \o sync \o Stage("take", "prev")  \* mutant
load_prequant_1d == Stage("stripe_in", "prequant") \o sync \o Stage("take", "prev") \o sync
load_fuse_1d     == Stage("stripe_in", "fuse") \o sync \o Stage("take", "-") \o sync
load_1d          == Stage("stripe_in", "delta") \o sync \o Stage("take", "-") \o sync
predict_quantize_1d             == Stage("quantize_1d", "dense") \o sync
predict_quantize__no_outlier_1d == Stage("quantize_1d", "delta") \o sync
compaction_predict_quantize_1d  == Stage("quantize_1d", "compact") \o sync
write_1d(what)   == Stage("stripe_out", what)
write_1d_null    == Stage("stripe_out_null", "-")    \* codes, and outliers to nullptr
intrawarp_inclusivescan_1d  == Stage("scan_warp", "-")
PropagateAtOnce  == sync \o Stage("exchange", "-") \o Stage("propagate", "-") \o sync    \* mutant
intrablock_exclusivescan_1d ==
  sync \o Stage("exchange", "-") \o sync \o Stage("propagate", "-") \o sync
block_scan_1d    == intrawarp_inclusivescan_1d \o intrablock_exclusivescan_1d
                      \o Stage("put_back", "-") \o sync

load_prequant_2d  == Stage("load", "prequant") \o Stage("north", "-")
predict_2d        == Stage("predict_2d", "-") \o sync
quantize_write_2d == Stage("quantize", "dense")
delta_only_quantize_write_2d == Stage("quantize", "delta")
pn_quantize_write_2d         == Stage("quantize", "pn")
compaction_quantize_write_2d == Stage("quantize", "compact")
load_fuse_2d      == Stage("load", "fuse")
load_2d           == Stage("load", "delta")
pn_load_2d        == Stage("load", "pn")
block_scan_2d     == Stage("sum_seq", "-") \o Stage("half_out", "-") \o sync
                       \o Stage("half_in", "-") \o Stage("scan_x", "-")
decomp_write_2d   == Stage("write", 0)

TransposeScan(i)  == Stage("scan", i) \o sync \o Stage("transpose", i) \o sync
block_scan_3d     == Stage("sum_seq", "-")
                       \o Each(BLOCK3, LAMBDA i : TransposeScan(i) \o TransposeScan(i))

-----------------------------------------------------------------------------
(* Kernels: the threads of a block, the cells of a thread, the threads of  *)
(* a warp, and the stages.                                                 *)

Kernel(threads, chunk, lanes, prog) ==
  [threads |-> threads, chunk |-> chunk, lanes |-> lanes, prog |-> prog,
   stride |-> threads[1] * threads[2] * threads[3],     \* in 1D, of a stripe
   room |-> threads[1] * chunk[1]]                      \* cells of a row of shared memory
Launch1(seq, prog) == Kernel(<<BLOCK1 \div seq, 1, 1>>, <<seq, 1, 1>>, WARP, prog)
Launch2(prog)      == Kernel(<<BLOCK2, 2, 1>>, <<1, BLOCK2 \div 2, 1>>, 2 * BLOCK2, prog)
Launch3(prog)      == Kernel(<<SEGS * BLOCK3, 1, BLOCK3>>, <<1, BLOCK3, 1>>, SEGS * BLOCK3, prog)
Launch3r1(prog)    == Kernel(<<SEGS * BLOCK3, BLOCK3, 1>>, <<1, 1, BLOCK3>>, SEGS * BLOCK3, prog)

\* lorenzo23.inl
v0_c_1d(seq)      == Launch1(seq, load_prequant_1d \o predict_quantize_1d \o write_1d("both"))
delta_c_1d        == Launch1(SEQ, load_prequant_1d \o predict_quantize__no_outlier_1d \o write_1d_null)
compaction_c_1d   == Launch1(SEQ, load_prequant_1d \o compaction_predict_quantize_1d \o write_1d("codes"))
v0_x_1d(seq)      == Launch1(seq, load_fuse_1d \o block_scan_1d \o write_1d("xdata"))
delta_x_1d        == Launch1(SEQ, load_1d \o block_scan_1d \o write_1d("xdata"))
v0_c_2d           == Launch2(load_prequant_2d \o predict_2d \o quantize_write_2d)
delta_c_2d        == Launch2(load_prequant_2d \o predict_2d \o delta_only_quantize_write_2d)
pn_c_2d           == Launch2(load_prequant_2d \o predict_2d \o pn_quantize_write_2d)
compaction_c_2d   == Launch2(load_prequant_2d \o predict_2d \o compaction_quantize_write_2d)
v0_x_2d           == Launch2(load_fuse_2d \o block_scan_2d \o decomp_write_2d)
delta_x_2d        == Launch2(load_2d \o block_scan_2d \o decomp_write_2d)
pn_x_2d           == Launch2(pn_load_2d \o block_scan_2d \o decomp_write_2d)
legacy_c_3d       == Launch3(Stage("tile_in", "prequant") \o sync \o Stage("predict_tile", "dense"))

\* The 3D kernel's loop over z: a difference in registers and by shuffle, then
\* one over shared memory, with no barrier before the next one is stored.
DiffLoop(form)    == Stage("load", "prequant") \o sync
  \o EachDown(BLOCK3, LAMBDA z : Stage("diff_zx", z) \o sync \o Stage("diff_y", <<z, form>>))
v0_c_3d           == Launch3r1(DiffLoop("dense"))
delta_c_3d        == Launch3r1(DiffLoop("delta"))
pn_c_3d           == Launch3r1(DiffLoop("pn"))
compaction_c_3d   == Launch3r1(DiffLoop("compact"))
pn_compaction_c_3d == Launch3r1(DiffLoop("pn_compact"))
v0_x_3d           == Launch3(Stage("load", "fuse") \o block_scan_3d \o Stage("write", 0))
pn_x_3d           == Launch3(Stage("load", "pn_fuse") \o block_scan_3d \o Stage("write", 0))
delta_x_3d        == Launch3(Stage("load", "delta") \o block_scan_3d \o Stage("write", 0))

\* lorenzo.inl: cub's loads and stores are not given the length.
pred1d_radius_separate == Stage("quantize_1d", "dense") \o sync
load1d            == Stage("stripe_in", "prequant") \o sync \o Stage("take", "prev") \o sync
write1d           == Stage("stripe_out", "both")
load2d_prequant   == Stage("load", "prequant") \o Stage("north", "-")
pred2d            == Stage("predict_2d", "-") \o sync
postquant_write2d == Stage("quantize", "dense")
origin_c_1d       == Launch1(SEQ, load1d \o pred1d_radius_separate \o write1d)
origin_c_2d       == Launch2(load2d_prequant \o pred2d \o postquant_write2d)
origin_c_3d       == Launch3(Stage("tile_in", "prequant") \o sync \o Stage("predict_tile", "dense"))
origin_x_1d       == Launch1(SEQ, Stage("cub_load", "fuse") \o Stage("cub_scan", "-") \o Stage("cub_store", "-"))
origin_x_2d       == Launch2(Stage("load", "fuse") \o block_scan_2d \o Stage("write", 0))
origin_x_3d       == Launch3(Stage("load", "fuse") \o block_scan_3d \o Stage("write", 0))
origin_x_3dvar    == Launch3(Each(BLOCK3, LAMBDA y : Stage("accumulate", y)
                       \o TransposeScan(y) \o TransposeScan(y) \o Stage("write", y)))

\* lorenzo_var.inl: the sign apart, no outliers.  The 1D kernel is given the cells
\* of a thread for those of a block, and so takes a block to have one thread.
var_pred1d        == Stage("quantize_1d", "sign") \o sync
var_load1d        == Stage("stripe_in", "prequant") \o sync \o Stage("take", "prev") \o sync
var_write1d       == Stage("stripe_out", "codes")
var_load2d_prequant   == Stage("load", "prequant") \o Stage("north", "-")
var_pred2d            == Stage("predict_2d", "-") \o sync
var_postquant_write2d == Stage("quantize", "sign")
var_c_1d          == [Launch1(SEQ, var_load1d \o var_pred1d \o var_write1d) EXCEPT !.stride = 1, !.room = SEQ]
var_x_1d          == Launch1(XSEQ, Stage("cub_load", "sign") \o sync \o Stage("cub_scan", "-") \o Stage("cub_store", "-"))
var_c_2d          == Launch2(var_load2d_prequant \o var_pred2d \o var_postquant_write2d)
var_c_3d          == Launch3(Stage("tile_in", "prequant") \o sync \o Stage("predict_tile", "sign"))
var_x_2d          == Launch2(Stage("load", "sign") \o block_scan_2d \o Stage("write", 0))
var_x_3d          == Launch3(Stage("load", "sign") \o block_scan_3d \o Stage("write", 0))

\* lorenzo_proto.inl: a thread for each cell; sums by doubling in shared memory.
Proto(n, lanes, prog) == Kernel(n, <<1, 1, 1>>, lanes, prog)
ProtoC  == Stage("tile_in", "prequant") \o sync \o Stage("predict_tile", "dense")
Doubling(axis, n) == Each(Cardinality({k \in 0 .. n : 2 ^ k < n}), LAMBDA k :
  Stage("up", <<axis, 2 ^ (k - 1)>>) \o sync \o Stage("add", <<axis, 2 ^ (k - 1)>>) \o sync)
ProtoX(n, axes) == Stage("tile_or_zero", "fuse") \o sync
  \o Each(axes, LAMBDA axis : Doubling(axis, n)) \o Stage("tile_out", "-")
proto_c_1d == Proto(<<BLOCK1, 1, 1>>, 2 * WARP, ProtoC)
proto_c_2d == Proto(<<BLOCK2, BLOCK2, 1>>, 2 * BLOCK2, ProtoC)
proto_c_3d == Proto(<<BLOCK3, BLOCK3, BLOCK3>>, BLOCK3 * BLOCK3, ProtoC)
proto_x_1d == Proto(<<BLOCK1, 1, 1>>, 2 * WARP, ProtoX(BLOCK1, 1))
proto_x_2d == Proto(<<BLOCK2, BLOCK2, 1>>, 2 * BLOCK2, ProtoX(BLOCK2, 2))
proto_x_3d == Proto(<<BLOCK3, BLOCK3, BLOCK3>>, BLOCK3 * BLOCK3, ProtoX(BLOCK3, 3))

\* Launches, by the number of dimensions.
compress_predict_lorenzo_i   == <<v0_c_1d(SEQ), v0_c_2d, v0_c_3d>>
decompress_predict_lorenzo_i == <<v0_x_1d(XSEQ), v0_x_2d, v0_x_3d>>
compress_predict_lorenzo_ivar   == <<var_c_1d, var_c_2d, var_c_3d>>
decompress_predict_lorenzo_ivar == <<var_x_1d, var_x_2d, var_x_3d>>
compress_predict_lorenzo_iproto   == <<proto_c_1d, proto_c_2d, proto_c_3d>>
decompress_predict_lorenzo_iproto == <<proto_x_1d, proto_x_2d, proto_x_3d>>

\* A field's way there and back: by the launchers, by the tests that compare the
\* others with the original, and for the kernels nobody launches.
lorenzo(d) == [c |-> compress_predict_lorenzo_i[d], x |-> decompress_predict_lorenzo_i[d]]
var(d)     == [c |-> compress_predict_lorenzo_ivar[d], x |-> decompress_predict_lorenzo_ivar[d]]
proto(d)   == [c |-> compress_predict_lorenzo_iproto[d], x |-> decompress_predict_lorenzo_iproto[d]]
origin_1d        == [c |-> origin_c_1d, x |-> origin_x_1d]
origin_2d        == [c |-> origin_c_2d, x |-> origin_x_2d]
origin_3d        == [c |-> origin_c_3d, x |-> origin_x_3d]
v0_1d            == [c |-> v0_c_1d(SEQ), x |-> v0_x_1d(SEQ)]
v0_2d            == [c |-> v0_c_2d, x |-> v0_x_2d]
v0_3d            == [c |-> legacy_c_3d, x |-> v0_x_3d]
v0r1_3d          == [c |-> v0_c_3d, x |-> v0_x_3d]
v0_compaction_1d == [c |-> compaction_c_1d, x |-> v0_x_1d(SEQ)]
v0_compaction_2d == [c |-> compaction_c_2d, x |-> v0_x_2d]
v0r1_compaction_3d == [c |-> compaction_c_3d, x |-> v0_x_3d]

launch == [lorenzo_1d |-> lorenzo(1), lorenzo_2d |-> lorenzo(2), lorenzo_3d |-> lorenzo(3),
  var_1d |-> var(1), var_2d |-> var(2), var_3d |-> var(3),
  proto_1d |-> proto(1), proto_2d |-> proto(2), proto_3d |-> proto(3),
  origin_1d |-> origin_1d, origin_2d |-> origin_2d, origin_3d |-> origin_3d,
  v0_1d |-> v0_1d, v0_2d |-> v0_2d, v0_3d |-> v0_3d, v0r1_3d |-> v0r1_3d,
  v0_compaction_1d |-> v0_compaction_1d, v0_compaction_2d |-> v0_compaction_2d,
  v0r1_compaction_3d |-> v0r1_compaction_3d,
  origin_3dvar |-> [c |-> origin_c_3d, x |-> origin_x_3dvar],
  delta_1d |-> [c |-> delta_c_1d, x |-> delta_x_1d], delta_2d |-> [c |-> delta_c_2d, x |-> delta_x_2d],
  delta_3d |-> [c |-> delta_c_3d, x |-> delta_x_3d],
  pn_2d |-> [c |-> pn_c_2d, x |-> pn_x_2d], pn_3d |-> [c |-> pn_c_3d, x |-> pn_x_3d],
  pn_compaction_3d |-> [c |-> pn_compaction_c_3d, x |-> pn_x_3d]]

Compacts(p) == p \in {"v0_compaction_1d", "v0_compaction_2d", "v0r1_compaction_3d", "pn_compaction_3d"}
InPlace(p)  == p \in {"proto_1d", "proto_2d", "proto_3d"}   \* outliers go into the data
NoOutliers(p) == p \in {"delta_1d", "delta_2d", "delta_3d", "pn_2d", "pn_3d", "var_1d", "var_2d", "var_3d"}

\* The tests: which pair's codes, outliers and result are to equal the original's.
test1d_v0_against_origin           == "v0_1d" :> "origin_1d"
test1d_v0compaction_against_origin == "v0_compaction_1d" :> "origin_1d"
test2d_v0_against_origin           == "v0_2d" :> "origin_2d"
test2d_v0compaction_against_origin == "v0_compaction_2d" :> "origin_2d"
test3d_v0_against_origin           == "v0_3d" :> "origin_3d"
test3d_v0r1_against_origin         == "v0r1_3d" :> "origin_3d"
test3d_v0r1compaction_against_origin == "v0r1_compaction_3d" :> "origin_3d"
origin_of == test1d_v0_against_origin @@ test1d_v0compaction_against_origin @@ test2d_v0_against_origin
               @@ test2d_v0compaction_against_origin @@ test3d_v0_against_origin
               @@ test3d_v0r1_against_origin @@ test3d_v0r1compaction_against_origin

\* The extents a test declares for its data are local to the function that reads
\* the data: the kernels get the framework's own, which are of one row.
init_data(f) == [f EXCEPT !.len3 = <<Cardinality(DOMAIN f.data), 1, 1>>]

-----------------------------------------------------------------------------
(* The block that runs: threads, warps, cells.                             *)

Running == IF phase = "decompress" THEN kernels.x ELSE kernels.c
len3    == field.len3
NThread(k) == k.threads[1] * k.threads[2] * k.threads[3]
Warps(k)   == 0 .. (NThread(k) - 1) \div k.lanes
Threads(w) == {t \in 0 .. NThread(Running) - 1 : t \div Running.lanes = w}
TIX(t) == t % Running.threads[1]
TIY(t) == (t \div Running.threads[1]) % Running.threads[2]
TIZ(t) == t \div (Running.threads[1] * Running.threads[2])
N      == Running.chunk[1] * Running.chunk[2] * Running.chunk[3]

\* A thread's i-th cell: a chunk along one axis; or a stripe, in 1D.
Along(d, x, i) == IF Running.chunk[d] > 1 THEN x * N + i - 1 ELSE x
Cell(t, i)   == <<Along(1, TIX(t), i), Along(2, TIY(t), i), Along(3, TIZ(t), i)>>
Cells(w)     == {Cell(t, i) : t \in Threads(w), i \in 1 .. N}
Stripe(w)    == {<<t + i * Running.stride, 0, 0>> : t \in Threads(w), i \in 0 .. N - 1}

\* divide3
sublen(k)    == [d \in 1 .. 3 |-> k.threads[d] * k.chunk[d]]
grid(k)      == [d \in 1 .. 3 |-> (len3[d] - 1) \div sublen(k)[d] + 1]
NBlock(k)    == grid(k)[1] * grid(k)[2] * grid(k)[3]
Base(k, b)   == LET g == grid(k)
                    n == [sublen(k) EXCEPT ![1] = k.room]
                IN  <<n[1] * (b % g[1]), n[2] * ((b \div g[1]) % g[2]), n[3] * (b \div (g[1] * g[2]))>>
Id3(g)       == g[1] + g[2] * len3[1] + g[3] * len3[1] * len3[2]
Global(c)    == [d \in 1 .. 3 |-> Base(Running, block)[d] + c[d]]
InRange(c)   == \A d \in 1 .. 3 : Global(c)[d] < len3[d]
Id(c)        == Id3(Global(c))

-----------------------------------------------------------------------------
(* Values, of which Undef taints what is computed from it.                 *)

Plus(a, b)  == IF Undef \in {a, b} THEN Undef ELSE a + b
Minus(a, b) == IF Undef \in {a, b} THEN Undef ELSE a - b
Scaled(a)   == IF a = Undef THEN Undef ELSE a * EBX2
Total(Val(_), n) == LET s[k \in 0 .. n] == IF k = 0 THEN 0 ELSE Plus(s[k - 1], Val(k)) IN s[n]
Abs(x)      == IF x < 0 THEN -x ELSE x

prequant(x) == (2 * x + EBX2) \div (2 * EBX2)                  \* round(x / EBX2)
quantizable(delta) == delta # Undef /\ Abs(delta) < RADIUS

\* A difference as a code.  A cast of what the type cannot hold is undefined.
Code(form, delta) ==
  CASE delta = Undef -> Undef
    [] form \in {"dense", "compact"} -> IF quantizable(delta) THEN delta + RADIUS ELSE 0
    [] form = "delta" -> IF delta \in I THEN delta ELSE Undef
    [] form = "pn"    -> IF delta \in I THEN encode(delta) ELSE Undef
    [] form = "pn_compact" -> IF quantizable(delta) THEN encode(delta) ELSE 0
    [] form = "sign"  -> IF Abs(delta) \in UI THEN [neg |-> delta < 0, abs |-> Abs(delta)] ELSE Undef
\* What the list keeps of an outlier: the zigzag kernel's keeps its code.
Kept(form, delta) == IF form = "compact" THEN Plus(delta, RADIUS) ELSE Code("pn", delta)
Outlier(delta) == IF quantizable(delta) THEN 0 ELSE Plus(delta, RADIUS)

\* What a thread loads for a cell.
Fetch(form, id) ==
  LET q == quant[id] IN
  CASE form = "prequant" ->
         LET v == IF InPlace(pair) THEN outlier[id] ELSE field.data[id]
         IN  IF v = Undef THEN Undef ELSE prequant(v)
    [] form = "fuse"    -> Plus(outlier[id], Minus(q, RADIUS))
    [] form = "delta"   -> q
    [] form = "pn"      -> IF q = Undef THEN q ELSE decode(q)
    [] form = "pn_fuse" -> Plus(outlier[id], IF q = Undef THEN q ELSE decode(q))
    [] form = "sign"    -> IF q = Undef THEN q ELSE IF q.neg THEN -q.abs ELSE q.abs

Read(c) == IF c \in DOMAIN shm THEN shm[c] ELSE Undef
Over(f, g) == [x \in DOMAIN f \cup DOMAIN g |-> IF x \in DOMAIN g THEN g[x] ELSE f[x]]

\* Writes to the arrays of a row: any that misses them leaves nothing known there.
Spills(g)    == \E c \in DOMAIN g : c[1] >= Running.room
IntoRow(f, g) == IF Spills(g) THEN [c \in DOMAIN f \cup DOMAIN g |-> Undef] ELSE Over(f, g)

\* Global writes: what falls outside the arrays is noted.
Into(array, f) == [id \in DOMAIN array |-> IF id \in DOMAIN f THEN f[id] ELSE array[id]]
Noted(f)       == overrun' = (overrun \/ ~(DOMAIN f \subseteq DOMAIN quant))

-----------------------------------------------------------------------------
(* The stages, by a warp.                                                  *)

Op(w, name)  == /\ phase \in {"compress", "decompress"}
                /\ at[w] <= Len(Running.prog) /\ Running.prog[at[w]][1] = name
Arg(w)       == Running.prog[at[w]][2]
Advance(w)   == at' = [at EXCEPT ![w] = @ + 1] /\ UNCHANGED <<launched, phase, block>>
Regs(w, V(_, _)) ==
  reg' = [t \in DOMAIN reg |-> IF t \in Threads(w) THEN [i \in 0 .. N |-> V(t, i)] ELSE reg[t]]
Out(cells, value) == [id \in {Id(c) : c \in cells} |-> value[CHOOSE c \in cells : Id(c) = id]]
Valid(cells) == {c \in cells : InRange(c)}
Compact(form, D, cells) ==
  LET kept == {c \in cells : ~quantizable(D[c])}
      f    == Out(kept, [c \in kept |-> Kept(form, D[c])])
  IN  /\ list' = Over(list, f)
      /\ count' = count + Cardinality(DOMAIN f)

\* Differences of cells, written as codes, and outliers where the form has any.
WriteCodes(form, D) ==
  LET cells == Valid(DOMAIN D)
      q     == Out(cells, [c \in cells |-> Code(form, D[c])])
  IN  /\ quant' = Into(quant, q)
      /\ outlier' = IF form = "dense" THEN Into(outlier, Out(cells, [c \in cells |-> Outlier(D[c])])) ELSE outlier
      /\ IF form \in {"compact", "pn_compact"} THEN Compact(form, D, cells) ELSE UNCHANGED <<list, count>>
      /\ Noted(q) /\ UNCHANGED xdata
Testing      == next # "none" \/ ti1 # <<>>
WriteData(f) ==
  /\ IF Testing THEN xdata' = Into(xdata, f) /\ UNCHANGED outlier
                ELSE outlier' = Into(outlier, f) /\ UNCHANGED xdata
  /\ Noted(f) /\ UNCHANGED <<quant, list, count>>

\* 1D: stripes into shared memory, chunks into registers.
StripeIn(w) ==
  /\ Op(w, "stripe_in") /\ Advance(w)
  /\ LET f == [c \in Valid(Stripe(w)) |-> Fetch(Arg(w), Id(c))]
     IN  shm' = IntoRow(shm, f) /\ overrun' = (overrun \/ Spills(f))
  /\ UNCHANGED <<reg, sq, quant, outlier, xdata, list, count, overtaken>>

Take(w) ==
  /\ Op(w, "take") /\ Advance(w)
  /\ Regs(w, LAMBDA t, i : IF i > 0 THEN Read(Cell(t, i))
                           ELSE IF Arg(w) = "prev" /\ t > 0 THEN Read(<<t * N - 1, 0, 0>>) ELSE 0)
  /\ UNCHANGED <<shm, sq, codes, overtaken>>

Unguarded(D) == DOMAIN D                                              \* mutant
Guarded(D)   == Valid(DOMAIN D)

\* Outliers take the place of the data in shared memory, or join the list.
Quantize1d(w) ==
  /\ Op(w, "quantize_1d") /\ Advance(w)
  /\ LET D == [c \in Cells(w) |-> LET t == c[1] \div N
                                      i == (c[1] % N) + 1
                                  IN  Minus(reg[t][i], reg[t][i - 1])]
     IN  /\ sq' = IntoRow(sq, [c \in DOMAIN D |-> Code(Arg(w), D[c])])
         /\ overrun' = (overrun \/ Spills(D))
         /\ shm' = IF Arg(w) = "dense" THEN Over(shm, [c \in DOMAIN D |-> Outlier(D[c])]) ELSE shm
         /\ IF Arg(w) = "compact" THEN Compact("compact", D, Guarded(D)) ELSE UNCHANGED <<list, count>>
  /\ UNCHANGED <<reg, quant, outlier, xdata, overtaken>>

Whole(w)  == Stripe(w)                                                \* mutant
Stored(w) == Valid(Stripe(w))
StripeOut(w) ==
  /\ Op(w, "stripe_out") /\ Advance(w)
  /\ LET cells == Stored(w)
         q     == Out(cells, sq)
     IN  IF Arg(w) = "xdata"
           THEN WriteData(Out(cells, shm))
           ELSE /\ quant' = Into(quant, q) /\ Noted(q) /\ UNCHANGED <<xdata, list, count>>
                /\ outlier' = IF Arg(w) = "both" THEN Into(outlier, Out(cells, shm)) ELSE outlier
  /\ UNCHANGED <<reg, shm, sq, overtaken>>

\* The first outlier stored to no array faults: nothing runs after it on the
\* device, and nothing is got back from it.
StripeOutNull(w) ==
  /\ Op(w, "stripe_out_null")
  /\ \/ Stored(w) = {} /\ Advance(w) /\ UNCHANGED <<reg, shm, sq, overrun>>
     \/ /\ Stored(w) # {} /\ phase' = "fault" /\ overrun' = TRUE
        /\ at' = <<>> /\ reg' = <<>> /\ shm' = <<>> /\ sq' = <<>>
        /\ UNCHANGED <<launched, block>>
  /\ UNCHANGED <<quant, outlier, xdata, list, count, overtaken>>

\* 1D: inclusive sums within each warp; the last thread tells the warp's total.
LastLane(w)   == CHOOSE t \in Threads(w) : \A u \in Threads(w) : u <= t
In(w)     == <<w, 0, -1>>         \* exchange_in[w], exchange_out[w]
Ex(w)     == <<w, 0, -2>>
FirstLane(w) == w * Running.lanes
Prefix(t, i, first) == Total(LAMBDA k : reg[first + (k - 1) \div N][((k - 1) % N) + 1], (t - first) * N + i)
ScanWarp(w) ==
  /\ Op(w, "scan_warp") /\ Advance(w)
  /\ Regs(w, LAMBDA t, i : IF i = 0 THEN 0 ELSE Prefix(t, i, FirstLane(w)))
  /\ shm' = Over(shm, [c \in {In(w)} |-> Prefix(LastLane(w), N, FirstLane(w))])
  /\ UNCHANGED <<sq, codes, overtaken>>

\* Thread 0 adds the totals up.
Exchange(w) ==
  /\ Op(w, "exchange") /\ Advance(w)
  /\ shm' = IF w # 0 THEN shm
            ELSE LET K == Warps(Running)
                     S(v) == Total(LAMBDA u : Read(In(u - 1)), v)
                 IN  Over(shm, [c \in {Ex(v) : v \in K} |-> S(c[1])])
  /\ UNCHANGED <<reg, sq, codes, overtaken>>

Propagate(w) ==
  /\ Op(w, "propagate") /\ Advance(w)
  /\ Regs(w, LAMBDA t, i : IF i = 0 THEN 0 ELSE Plus(reg[t][i], Read(Ex(w))))
  /\ UNCHANGED <<shm, sq, codes, overtaken>>

PutBack(w) ==
  /\ Op(w, "put_back") /\ Advance(w)
  /\ shm' = Over(shm, [c \in Cells(w) |-> Scaled(reg[c[1] \div N][(c[1] % N) + 1])])
  /\ UNCHANGED <<reg, sq, codes, overtaken>>

\* 2D and 3D: columns in registers, 0 beyond the field.
Load(w) ==
  /\ Op(w, "load") /\ Advance(w)
  /\ Regs(w, LAMBDA t, i : IF i > 0 /\ InRange(Cell(t, i)) THEN Fetch(Arg(w), Id(Cell(t, i))) ELSE 0)
  /\ UNCHANGED <<shm, sq, codes, overtaken>>

\* The lower half of a 2D block gets the last row of the upper one by shuffle.
North(w) ==
  /\ Op(w, "north") /\ Advance(w)
  /\ Regs(w, LAMBDA t, i : IF i = 0 /\ TIY(t) = 1 THEN reg[t - Running.threads[1]][N] ELSE reg[t][i])
  /\ UNCHANGED <<shm, sq, codes, overtaken>>

\* A difference down the column, then one along the row by shuffle.
Diff(t, i)   == Minus(reg[t][i], reg[t][i - 1])
DiffZX(t, i, side) == IF TIX(t) % side > 0 THEN Minus(Diff(t, i), Diff(t - 1, i)) ELSE Diff(t, i)
Predict2d(w) ==
  /\ Op(w, "predict_2d") /\ Advance(w)
  /\ Regs(w, LAMBDA t, i : IF i = 0 THEN reg[t][0] ELSE DiffZX(t, i, BLOCK2))
  /\ UNCHANGED <<shm, sq, codes, overtaken>>

Quantize(w) ==
  /\ Op(w, "quantize") /\ Advance(w)
  /\ WriteCodes(Arg(w), [c \in Cells(w) |-> LET t == c[1] + Running.threads[1] * (c[2] \div N)
                                            IN  reg[t][(c[2] % N) + 1]])
  /\ UNCHANGED <<reg, shm, sq, overtaken>>

\* 3D: the difference is shown to the row below, which takes it after a barrier
\* that does not keep this warp from storing the next.  The first row takes 0 times
\* the row before it, which no thread of the block writes.
DiffZXStore(w) ==
  /\ Op(w, "diff_zx") /\ Advance(w)
  /\ LET z    == Arg(w)
         V(t) == DiffZX(t, z, BLOCK3)
         Of(c) == c[1] + Running.threads[1] * (c[2] - 1)
     IN  /\ Regs(w, LAMBDA t, i : IF i = z THEN V(t) ELSE reg[t][i])
         /\ shm' = Over(shm, [c \in {<<TIX(t), TIY(t) + 1, 0>> : t \in Threads(w)} |-> V(Of(c))])
  /\ overtaken' = (overtaken \/ (w + 1 \in Warps(Running) /\ at[w + 1] < at[w]
                                 /\ Running.prog[at[w + 1]][1] = "diff_y"))
  /\ UNCHANGED <<sq, codes>>

DiffY(w) ==
  /\ Op(w, "diff_y") /\ Advance(w)
  /\ LET z    == Arg(w)[1]
         V(t) == Minus(reg[t][z], IF TIY(t) > 0 THEN Read(<<TIX(t), TIY(t), 0>>) ELSE ghost)
         Of(c) == c[1] + Running.threads[1] * c[2]
     IN  /\ Regs(w, LAMBDA t, i : IF i = z THEN V(t) ELSE reg[t][i])
         /\ WriteCodes(Arg(w)[2], [c \in {Cell(t, z) : t \in Threads(w)} |-> V(Of(c))])
  /\ UNCHANGED <<shm, sq, overtaken>>

\* A tile in shared memory, and the difference of a cell from its neighbours in
\* the same cube: the prototype's, the original's and the legacy kernels'.
TileIn(w) ==
  /\ Op(w, "tile_in") /\ Advance(w)
  /\ shm' = Over(shm, [c \in Valid(Cells(w)) |-> Fetch(Arg(w), Id(c))])
  /\ UNCHANGED <<reg, sq, codes, overtaken>>

TileOrZero(w) ==
  /\ Op(w, "tile_or_zero") /\ Advance(w)
  /\ shm' = Over(shm, [c \in Cells(w) |-> IF InRange(c) THEN Fetch(Arg(w), Id(c)) ELSE 0])
  /\ UNCHANGED <<reg, sq, codes, overtaken>>

Side(k)  == IF sublen(k)[3] > 1 THEN BLOCK3 ELSE sublen(k)[1]
Local(c) == <<c[1] % Side(Running), c[2], c[3]>>
Near(c, dx, dy, dz) == IF Local(c)[1] >= dx /\ c[2] >= dy /\ c[3] >= dz
                         THEN Read(<<c[1] - dx, c[2] - dy, c[3] - dz>>) ELSE 0
PredictTile(w) ==
  /\ Op(w, "predict_tile") /\ Advance(w)
  /\ WriteCodes(Arg(w), [c \in Cells(w) |->
       LET S(dx, dy, dz) == Near(c, dx, dy, dz)
           plus  == Plus(Plus(S(1, 1, 1), S(1, 0, 0)), Plus(S(0, 1, 0), S(0, 0, 1)))
           minus == Plus(S(1, 1, 0), Plus(S(1, 0, 1), S(0, 1, 1)))
       IN  Minus(Read(c), Minus(plus, minus))])
  /\ UNCHANGED <<reg, shm, sq, overtaken>>

\* Reconstruction: sums down the column, then between the halves of a 2D block,
\* then along the row, by shuffles.
SumSeq(w) ==
  /\ Op(w, "sum_seq") /\ Advance(w)
  /\ Regs(w, LAMBDA t, i : IF i = 0 THEN 0 ELSE Total(LAMBDA j : reg[t][j], i))
  /\ UNCHANGED <<shm, sq, codes, overtaken>>

Half2d(x) == <<x, 0, -1>>                                   \* intermediate[x]
HalfOut(w) ==
  /\ Op(w, "half_out") /\ Advance(w)
  /\ shm' = Over(shm, [c \in {Half2d(TIX(t)) : t \in {u \in Threads(w) : TIY(u) = 0}} |-> reg[c[1]][N]])
  /\ UNCHANGED <<reg, sq, codes, overtaken>>

HalfIn(w) ==
  /\ Op(w, "half_in") /\ Advance(w)
  /\ Regs(w, LAMBDA t, i : IF i > 0 /\ TIY(t) = 1 THEN Plus(reg[t][i], Read(Half2d(TIX(t)))) ELSE reg[t][i])
  /\ UNCHANGED <<shm, sq, codes, overtaken>>

Row(t, i, side) == Total(LAMBDA k : reg[t + 1 - k][i], (TIX(t) % side) + 1)
ScanX(w) ==
  /\ Op(w, "scan_x") /\ Advance(w)
  /\ Regs(w, LAMBDA t, i : IF i = 0 THEN 0 ELSE Row(t, i, BLOCK2))
  /\ UNCHANGED <<shm, sq, codes, overtaken>>

\* 3D: sums along the row, stored; after a barrier the cubes are transposed, so
\* that the same sums run along z, and transposed back.
Scan(w) ==
  /\ Op(w, "scan") /\ Advance(w)
  /\ shm' = Over(shm, [c \in {<<TIX(t), 0, TIZ(t)>> : t \in Threads(w)} |->
                         Row(c[1] + Running.threads[1] * c[3], Arg(w), BLOCK3)])
  /\ UNCHANGED <<reg, sq, codes, overtaken>>

Transpose(w) ==
  /\ Op(w, "transpose") /\ Advance(w)
  /\ LET V(t) == LET seg == TIX(t) \div BLOCK3
                 IN  Read(<<seg * BLOCK3 + TIZ(t), 0, TIX(t) % BLOCK3>>)
     IN  Regs(w, LAMBDA t, i : IF i = Arg(w) THEN V(t) ELSE reg[t][i])
  /\ UNCHANGED <<shm, sq, codes, overtaken>>

Write(w) ==
  /\ Op(w, "write") /\ Advance(w)
  /\ LET S  == IF Arg(w) = 0 THEN 1 .. N ELSE {Arg(w)}
         P  == {p \in Threads(w) \X S : InRange(Cell(p[1], p[2]))}
         Of(id) == CHOOSE p \in P : Id(Cell(p[1], p[2])) = id
     IN  WriteData([id \in {Id(Cell(p[1], p[2])) : p \in P} |-> Scaled(reg[Of(id)[1]][Of(id)[2]])])
  /\ UNCHANGED <<reg, shm, sq, overtaken>>

\* The 3D variant keeps one running sum and writes a plane at a time.
Accumulate(w) ==
  /\ Op(w, "accumulate") /\ Advance(w)
  /\ LET V(t) == Plus(reg[t][0], IF InRange(Cell(t, Arg(w))) THEN Fetch("fuse", Id(Cell(t, Arg(w)))) ELSE 0)
     IN  Regs(w, LAMBDA t, i : IF i \in {0, Arg(w)} THEN V(t) ELSE reg[t][i])
  /\ UNCHANGED <<shm, sq, codes, overtaken>>

\* The original's 1D: cub's block-wide load, sum and store.
CubLoad(w) ==
  /\ Op(w, "cub_load") /\ Advance(w)
  /\ Regs(w, LAMBDA t, i : IF i > 0 /\ InRange(Cell(t, i)) THEN Fetch(Arg(w), Id(Cell(t, i))) ELSE 0)
  /\ UNCHANGED <<shm, sq, codes, overtaken>>

CubStore(w) ==
  /\ Op(w, "cub_store") /\ Advance(w)
  /\ LET Of(id) == CHOOSE c \in Cells(w) : Id(c) = id
     IN  WriteData([id \in {Id(c) : c \in Cells(w)} |-> Scaled(reg[Of(id)[1] \div N][(Of(id)[1] % N) + 1])])
  /\ UNCHANGED <<reg, shm, sq, overtaken>>

\* The prototype's sums: what is d cells back, and after a barrier its addition.
Shifted(c, axis, d) == [k \in 1 .. 3 |-> IF k = axis THEN c[k] - d ELSE c[k]]
Up(w) ==
  /\ Op(w, "up") /\ Advance(w)
  /\ LET axis == Arg(w)[1]
         d    == Arg(w)[2]
     IN  Regs(w, LAMBDA t, i : IF Cell(t, 1)[axis] >= d THEN Read(Shifted(Cell(t, 1), axis, d)) ELSE 0)
  /\ UNCHANGED <<shm, sq, codes, overtaken>>

Add(w) ==
  /\ Op(w, "add") /\ Advance(w)
  /\ LET Of(c) == CHOOSE t \in Threads(w) : Cell(t, 1) = c
     IN  shm' = Over(shm, [c \in Cells(w) |-> Plus(Read(c), reg[Of(c)][1])])
  /\ UNCHANGED <<reg, sq, codes, overtaken>>

TileOut(w) ==
  /\ Op(w, "tile_out") /\ Advance(w)
  /\ WriteData(Out(Valid(Cells(w)), [c \in Valid(Cells(w)) |-> Scaled(shm[c])]))
  /\ UNCHANGED <<reg, shm, sq, overtaken>>

-----------------------------------------------------------------------------
(* The block: barriers, cub's block-wide sum, the next block, the launch.  *)

AllAt(name) == \A w \in DOMAIN at : Op(w, name)
Everyone == at' = [w \in DOMAIN at |-> at[w] + 1] /\ UNCHANGED <<launched, phase, block>>
Sync == AllAt("sync") /\ Everyone /\ UNCHANGED <<reg, shm, sq, codes, overtaken>>

CubScan ==
  /\ AllAt("cub_scan") /\ Everyone
  /\ reg' = [t \in DOMAIN reg |-> [i \in 0 .. N |-> IF i = 0 THEN 0 ELSE Prefix(t, i, 0)]]
  /\ UNCHANGED <<shm, sq, codes, overtaken>>

\* A block begins with nothing in shared memory that it wrote.
Fresh(k) ==
  /\ at'  = [w \in Warps(k) |-> 1]
  /\ reg' = [t \in 0 .. NThread(k) - 1 |-> [i \in 0 .. k.chunk[1] * k.chunk[2] * k.chunk[3] |-> 0]]
  /\ shm' = <<>> /\ sq' = <<>>
Over1 == \A w \in DOMAIN at : at[w] = Len(Running.prog) + 1

NextBlock ==
  /\ phase \in {"compress", "decompress"} /\ Over1 /\ block + 1 < NBlock(Running)
  /\ block' = block + 1
  /\ Fresh(Running)
  /\ UNCHANGED <<launched, phase, codes, overtaken>>

\* The end of a launch; nothing runs until the next.
Finish ==
  /\ phase \in {"compress", "decompress"} /\ Over1 /\ block + 1 = NBlock(Running)
  /\ phase' = IF phase = "compress" THEN "scatter" ELSE "done"
  /\ at' = <<>> /\ reg' = <<>> /\ shm' = <<>> /\ sq' = <<>>
  /\ UNCHANGED <<launched, block, codes, overtaken>>

\* The compacted outliers are scattered, and the other kernel launched.
Scatter ==
  /\ phase = "scatter" /\ phase' = "decompress" /\ block' = 0
  /\ outlier' = Into(outlier, list)
  /\ Fresh(kernels.x)
  /\ UNCHANGED <<launched, quant, xdata, list, count, overrun, overtaken>>

Dim(p) == IF p \in {"lorenzo_1d", "v0_1d", "origin_1d", "v0_compaction_1d", "delta_1d", "proto_1d", "var_1d"} THEN 1
          ELSE IF p \in {"lorenzo_2d", "v0_2d", "origin_2d", "v0_compaction_2d", "delta_2d", "pn_2d", "var_2d", "proto_2d"} THEN 2
          ELSE 3
ndim(l) == IF l[3] = 1 /\ l[2] = 1 THEN 1 ELSE IF l[3] = 1 THEN 2 ELSE 3

\* The pairs whose prediction goes along y through shared memory.
Padded(p) == p \in {"lorenzo_3d", "v0r1_3d", "v0r1_compaction_3d", "delta_3d", "pn_3d", "pn_compaction_3d"}

\* The arrays before a launch; the tests set theirs to 0.
Fill(n)   == [id \in DOMAIN field.data |-> n]
TestInit  == [quant |-> Fill(0), outlier |-> Fill(0), xdata |-> Fill(Undef)]
Arrays(p) == [quant |-> Fill(Undef), xdata |-> <<>>,
              outlier |-> IF InPlace(p) THEN field.data ELSE Fill(IF Compacts(p) \/ NoOutliers(p) THEN 0 ELSE Undef)]

Init ==
  /\ \/ field \in Fields /\ pair \in {p \in Pairs : Dim(p) = ndim(field.len3)} /\ next = "none"
     \/ /\ next \in Tested /\ pair = origin_of[next]
        /\ \E f \in {g \in Fields : Dim(next) = ndim(g.len3)} : field \in {f, init_data(f)}
  /\ kernels = launch[pair] /\ ti1 = <<>>
  /\ ghost \in IF Padded(pair) \/ Padded(next) THEN Ghosts ELSE {0}
  /\ phase = "compress" /\ block = 0
  /\ LET k == kernels.c IN
       /\ at  = [w \in Warps(k) |-> 1]
       /\ reg = [t \in 0 .. NThread(k) - 1 |-> [i \in 0 .. k.chunk[1] * k.chunk[2] * k.chunk[3] |-> 0]]
  /\ shm = <<>> /\ sq = <<>>
  /\ LET a == IF next # "none" THEN TestInit ELSE Arrays(pair)
     IN  quant = a.quant /\ outlier = a.outlier /\ xdata = a.xdata
  /\ list = <<>> /\ count = 0 /\ overtaken = FALSE /\ overrun = FALSE

\* A test goes on to the other pair, with arrays of its own.
TestOther ==
  /\ phase = "done" /\ next # "none"
  /\ ti1' = [eq |-> quant, outlier |-> outlier, xdata |-> xdata]
  /\ pair' = next /\ kernels' = launch[next] /\ next' = "none"
  /\ phase' = "compress" /\ block' = 0 /\ Fresh(kernels'.c)
  /\ quant' = TestInit.quant /\ outlier' = TestInit.outlier /\ xdata' = TestInit.xdata
  /\ list' = <<>> /\ count' = 0 /\ overrun' = FALSE
  /\ UNCHANGED <<field, ghost, overtaken>>

\* What the test looks for, and prints.
print_when_not_equal == {id \in DOMAIN quant : quant[id] # ti1.eq[id] \/ outlier[id] # ti1.outlier[id] \/ xdata[id] # ti1.xdata[id]}

WarpStep(w) ==
  \/ StripeIn(w) \/ Take(w) \/ Quantize1d(w) \/ StripeOut(w) \/ StripeOutNull(w)
  \/ ScanWarp(w) \/ Exchange(w) \/ Propagate(w) \/ PutBack(w)
  \/ Load(w) \/ North(w) \/ Predict2d(w) \/ Quantize(w)
  \/ DiffZXStore(w) \/ DiffY(w) \/ TileIn(w) \/ TileOrZero(w) \/ PredictTile(w)
  \/ SumSeq(w) \/ HalfOut(w) \/ HalfIn(w) \/ ScanX(w) \/ Scan(w) \/ Transpose(w)
  \/ Write(w) \/ Accumulate(w) \/ CubLoad(w) \/ CubStore(w) \/ Up(w) \/ Add(w) \/ TileOut(w)
Next == (\E w \in DOMAIN at : WarpStep(w)) \/ Sync \/ CubScan \/ NextBlock \/ Finish \/ Scatter \/ TestOther
Spec == Init /\ [][Next]_vars

-----------------------------------------------------------------------------
(* Properties.                                                             *)

Value == Int \cup {Undef}
TypeOK ==
  /\ field \in Fields \cup {init_data(f) : f \in Fields}
  /\ pair \in Pairs \cup Tested \cup {origin_of[t] : t \in Tested} /\ next \in Tested \cup {"none"} /\ (next # "none" => ti1 = <<>>)
  /\ phase \in {"compress", "scatter", "gathered", "decompress", "done", "fault"}
  /\ ghost \in IF Padded(pair) \/ Padded(next) THEN Ghosts ELSE {0}
  /\ \A id \in DOMAIN outlier : outlier[id] \in Value
  /\ \A c \in DOMAIN shm : shm[c] \in Value
  /\ DOMAIN list \subseteq DOMAIN outlier /\ \A id \in DOMAIN list : list[id] \in Value
  /\ overtaken => Padded(pair)

\* What a code stands for is a difference along each axis in turn, in the cell's
\* own cube, of the prequantized field.
Pos(id) == <<id % len3[1], (id \div len3[1]) % len3[2], id \div (len3[1] * len3[2])>>
Cube    == [d \in 1 .. 3 |-> IF d = 1 THEN Side(kernels.c) ELSE sublen(kernels.c)[d]]
Back(f, d) == [id \in DOMAIN f |-> IF Pos(id)[d] % Cube[d] = 0 THEN f[id]
                                   ELSE f[id] - f[Id3(Shifted(Pos(id), d, 1))]]
Difference == Back(Back(Back([id \in DOMAIN field.data |-> prequant(field.data[id])], 1), 2), 3)
Form == IF Compacts(pair) THEN IF pair = "pn_compaction_3d" THEN "pn_compact" ELSE "compact"
        ELSE CASE pair \in {"delta_1d", "delta_2d", "delta_3d"} -> "delta"
               [] pair \in {"pn_2d", "pn_3d"}   -> "pn"
               [] pair \in {"var_1d", "var_2d", "var_3d"} -> "sign"
               [] OTHER -> "dense"
Result  == IF Testing THEN xdata ELSE outlier

\* The 1D launch of lorenzo_var.cu computes nothing; a code without outliers has to
\* hold every difference; and of an outlier listed as a zigzag code nobody decodes it.
Fits == /\ pair # "var_1d"
        /\ \A id \in DOMAIN quant : /\ Code(Form, Difference[id]) # Undef
                                    /\ Form = "pn_compact" => quantizable(Difference[id])

\* What the ghost row may have spoilt: the first row of each cube, where NaN is left.
Spoilt(id) == ghost = Undef /\ Padded(pair) /\ Pos(id)[2] % BLOCK3 = 0

\* Every kernel that ends computes the Lorenzo difference of every cell, whatever
\* order its warps run in, and writes it as a code or, where it is too great, an
\* outlier; the delta-only 1D kernel never ends.  Excepted are, in the 3D kernels of
\* lorenzo23.inl, what follows once a warp was overtaken by the one above, and the
\* first row of each cube when shared memory held no number there before.
\* Otherwise the tests find nothing that is not equal.
PredictionExact ==
  ~overtaken /\ pair # "var_1d" =>
    LET D == Difference IN
    /\ phase = "scatter" =>
         \A id \in DOMAIN quant : ~Spoilt(id) =>
           /\ quant[id] = Code(Form, D[id])
           /\ Form = "dense" => outlier[id] = Outlier(D[id])
    /\ phase = "done" /\ ti1 # <<>> /\ ghost # Undef => print_when_not_equal = {}

\* The 3D kernel equals the original on every field, as its test says; what the
\* ghost row makes of it is left aside.
SameAsOrigin ==
  phase = "done" /\ pair = "v0r1_3d" /\ ghost # Undef => print_when_not_equal = {}

\* The list holds each difference too great for a code once, and nothing of the
\* threads that are beyond the end of the field: unless a warp was overtaken, or a
\* ghost row was not a number, which makes outliers of the row after it.
CompactionExact ==
  phase = "scatter" /\ Compacts(pair) /\ ~overtaken /\ ghost # Undef =>
    LET D == Difference
        E == {id \in DOMAIN quant : ~quantizable(D[id])}
    IN  count = Cardinality(E) /\ list = [id \in E |-> Kept(Form, D[id])]

\* Whatever order the warps of both kernels run in, no value of the reconstructed
\* field is further from the original than the error bound, with the outliers and
\* the result in one array or in two; unless a difference does not fit a code that
\* has no outliers, a warp was overtaken, or a ghost row was not a number, which
\* reconstruction spreads.  The delta-only 1D kernel leaves nothing to reconstruct.
ErrorBounded ==
  phase = "done" /\ ~overtaken /\ ghost # Undef /\ Fits =>
    \A id \in DOMAIN Result :
      Result[id] # Undef /\ 2 * Abs(Result[id] - field.data[id]) <= EBX2

\* No kernel writes outside the field or its shared memory: except the two 1D
\* reconstructions whose last block is stored whole, the 1D kernel that is launched
\* with more threads than it has cells for, and the delta-only 1D kernel, which
\* stores outliers to a null pointer and faults.
InBounds == overrun => \/ pair \in {"origin_1d", "var_1d"} /\ phase \in {"decompress", "done"}
                       \/ pair = "var_1d"
                       \/ pair = "delta_1d" /\ phase = "fault"
=============================================================================
