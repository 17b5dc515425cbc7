--------------------------------- MODULE Spline ---------------------------------
(***************************************************************************)
(* The spline predictor, spline3.inl: a block of the field with one face   *)
(* more on each axis lies in shared memory; its corners are anchors, kept  *)
(* as they are, and what lies between is interpolated in place, at half    *)
(* the distance each time, along z (blue), x (yellow) and y (hollow).      *)
(* Compression codes the difference of each cell from its prediction and   *)
(* puts what decompression will see in its place.                          *)
(*                                                                         *)
(* A kernel is a sequence of stages, as in Lorenzo: the threads of a warp  *)
(* take a stage together, warps in any order, and "sync" is a barrier.     *)
(* Thread blocks write disjoint parts and run one after another.           *)
(***************************************************************************)
EXTENDS Integers, FiniteSets, SequencesExt

CONSTANTS
  Fields,     \* records of len3 and data, by position
  UNIT,       \* the first distance: half the distance between anchors
  SUBS,       \* anchors of a block along x
  WARP,       \* threads in a warp
  EB, RADIUS, \* the error bound; the code of no difference
  CAP,        \* the greatest code that the type of the codes holds
  Undef       \* what nobody wrote, and what is computed from it

ASSUME SplineAssumption ==
  /\ UNIT \in {1, 2, 4} /\ SUBS \in Nat \ {0} /\ WARP \in Nat \ {0}
  /\ EB \in Nat \ {0} /\ CAP \in Nat /\ RADIUS \in 0 .. CAP /\ Undef \notin Int
  /\ \A f \in Fields : /\ f.len3 \in (Nat \ {0}) \X (Nat \ {0}) \X (Nat \ {0})
                       /\ f.len3[3] # 1      \* one and two dimensions are refused
                       /\ f.data \in [(0 .. f.len3[1] - 1) \X (0 .. f.len3[2] - 1) \X (0 .. f.len3[3] - 1) -> Int]

VARIABLES
  field,                    \* what is compressed
  phase, block,             \* the launch; the block that runs
  at,                       \* of each warp, the stage it is at
  shm_data, shm_errctrl,    \* shared memory
  anchor, errctrl, xdata    \* global memory: the archive, and the result

vars == <<field, phase, block, at, shm_data, shm_errctrl, anchor, errctrl, xdata>>
global == <<anchor, errctrl, xdata>>

-----------------------------------------------------------------------------
(* Geometry.                                                               *)

BLOCK   == 2 * UNIT
SUBLEN  == <<SUBS * BLOCK, BLOCK, BLOCK>>
NTHREAD == SUBLEN[1] * BLOCK               \* 256: one layer of a block
Warps   == 0 .. (NTHREAD - 1) \div WARP
Box(n)  == (0 .. n[1] - 1) \X (0 .. n[2] - 1) \X (0 .. n[3] - 1)
Scratch == Box([d \in 1 .. 3 |-> SUBLEN[d] + 1])
IsAnchor(c) == \A d \in 1 .. 3 : c[d] % BLOCK = 0

divide3(len, n) == [d \in 1 .. 3 |-> (len[d] - 1) \div n[d] + 1]
nblock       == divide3(field.len3, SUBLEN)
aligned_len3 == [d \in 1 .. 3 |-> nblock[d] * SUBLEN[d]]
anchor_len3  == divide3(field.len3, <<BLOCK, BLOCK, BLOCK>>)
NBlock       == nblock[1] * nblock[2] * nblock[3]
BlockId      == <<block % nblock[1], (block \div nblock[1]) % nblock[2], block \div (nblock[1] * nblock[2])>>
Global(c)    == [d \in 1 .. 3 |-> c[d] + BlockId[d] * SUBLEN[d]]
AnchorOf(c)  == [d \in 1 .. 3 |-> c[d] \div BLOCK]
Within(g, len) == \A d \in 1 .. 3 : g[d] < len[d]

\* The _tix of a warp's threads in a loop over a box, and a box's cell at _tix.
InLoop(w, n) == {i \in 0 .. n[1] * n[2] * n[3] - 1 : (i % NTHREAD) \div WARP = w}
CellOf(n, i) == <<i % n[1], (i \div n[1]) % n[2], i \div (n[1] * n[2])>>
Share(w, n)  == {CellOf(n, i) : i \in InLoop(w, n)}

-----------------------------------------------------------------------------
(* Interpolation stages.  One that is not coarsened has no more cells than *)
(* threads; the threads beyond are out of the block.                       *)

BLUE(u)   == [dim |-> <<SUBLEN[1] \div (2 * u) + 1, BLOCK \div (2 * u) + 1, BLOCK \div (2 * u)>>,
              step |-> <<2 * u, 2 * u, 2 * u>>, from |-> <<0, 0, u>>, axis |-> 3, unit |-> u]
YELLOW(u) == [dim |-> <<SUBLEN[1] \div (2 * u), BLOCK \div (2 * u) + 1, BLOCK \div u + 1>>,
              step |-> <<2 * u, 2 * u, u>>, from |-> <<u, 0, 0>>, axis |-> 1, unit |-> u]
\* The last stage leaves the faces out: they are the neighbours'.
HOLLOW(u) == [dim |-> IF u = 1 THEN <<SUBLEN[1], BLOCK \div 2, BLOCK>>
                      ELSE <<SUBLEN[1] \div u + 1, BLOCK \div (2 * u), BLOCK \div u + 1>>,
              step |-> <<u, 2 * u, u>>, from |-> <<0, u, 0>>, axis |-> 2, unit |-> u]

xyz_map(s, i) == [d \in 1 .. 3 |-> s.from[d] + s.step[d] * i[d]]
Shift(c, d, n) == [c EXCEPT ![d] = @ + n]

sync == << <<"sync", 0>> >>
Stage(name, arg) == << <<name, arg>> >>
iteration(u)     == Stage("interpolate", BLUE(u)) \o sync \o Stage("interpolate", YELLOW(u)) \o sync
                      \o Stage("interpolate", HOLLOW(u)) \o sync
spline3d_layout2_interpolate[u \in {1, 2, 4}] ==
  IF u = 1 THEN iteration(1) ELSE iteration(u) \o spline3d_layout2_interpolate[u \div 2]
c_spline3d == Stage("c_reset", 0) \o sync \o Stage("load", 0) \o sync \o Stage("gather_anchor", 0) \o sync
                \o spline3d_layout2_interpolate[UNIT] \o Stage("store", 0) \o sync
x_spline3d == Stage("x_reset", 0) \o sync \o Stage("load", 0) \o sync
                \o spline3d_layout2_interpolate[UNIT] \o Stage("store", 0) \o sync
Program == IF phase = "construct" THEN c_spline3d ELSE x_spline3d

-----------------------------------------------------------------------------
(* Values.                                                                 *)

Abs(x)     == IF x < 0 THEN -x ELSE x
Mean(a, b) == IF Undef \in {a, b} THEN Undef ELSE (a + b) \div 2

Truncated(err) == LET n == Abs(err) \div (2 * EB) IN IF err < 0 THEN -n ELSE n   \* mutant
\* int((|err| / eb + 1) / 2), with the sign of err: whole multiples of 2 eb.
Steps(err) == LET n == (Abs(err) + EB) \div (2 * EB) IN IF err < 0 THEN -n ELSE n
Kept(code) == IF code \in 0 .. CAP THEN code ELSE Undef
Value(pred, code) == IF Undef \in {pred, code} THEN Undef ELSE pred + (code - RADIUS) * 2 * EB
Over(f, g) == [x \in DOMAIN f \cup DOMAIN g |-> IF x \in DOMAIN g THEN g[x] ELSE f[x]]

-----------------------------------------------------------------------------
(* The stages, by a warp.                                                  *)

Op(w, name) == /\ phase \in {"construct", "reconstruct"}
               /\ at[w] <= Len(Program) /\ Program[at[w]][1] = name
Advance(w)  == at' = [at EXCEPT ![w] = @ + 1] /\ UNCHANGED <<field, phase, block>>
ScratchOf(w) == Share(w, [d \in 1 .. 3 |-> SUBLEN[d] + 1])

c_reset_scratch(w) ==
  /\ Op(w, "c_reset") /\ Advance(w)
  /\ shm_data' = Over(shm_data, [c \in ScratchOf(w) |-> 0])
  /\ shm_errctrl' = Over(shm_errctrl, [c \in {c \in ScratchOf(w) : IsAnchor(c)} |-> RADIUS])
  /\ UNCHANGED global

\* A code beyond the codes' array is taken for 0, an anchor beyond for 0.
x_reset_scratch(w) ==
  /\ Op(w, "x_reset") /\ Advance(w)
  /\ shm_errctrl' = Over(shm_errctrl, [c \in ScratchOf(w) |-> 0])
  /\ shm_data' = Over(shm_data, [c \in {c \in ScratchOf(w) : IsAnchor(c)} |->
       LET a == AnchorOf(Global(c)) IN IF Within(a, anchor_len3) THEN anchor[a] ELSE 0])
  /\ UNCHANGED global

global2shmem(w) ==
  /\ Op(w, "load") /\ Advance(w)
  /\ IF phase = "construct"
       THEN /\ shm_data' = Over(shm_data, [c \in {c \in ScratchOf(w) : Within(Global(c), field.len3)} |->
                                             field.data[Global(c)]])
            /\ UNCHANGED shm_errctrl
       ELSE /\ shm_errctrl' = Over(shm_errctrl, [c \in {c \in ScratchOf(w) : Within(Global(c), aligned_len3)} |->
                                                   errctrl[Global(c)]])
            /\ UNCHANGED shm_data
  /\ UNCHANGED global

OfField(c)   == Within(Global(c), field.len3)
OfAnybody(c) == TRUE                                              \* mutant
Gathered(c)  == OfField(c)
c_gather_anchor(w) ==
  /\ Op(w, "gather_anchor") /\ Advance(w)
  /\ LET mine == {c \in Share(w, <<SUBLEN[1], BLOCK, 1>>) : IsAnchor(c) /\ Gathered(c)}
     IN  anchor' = Over(anchor, [a \in {AnchorOf(Global(c)) : c \in mine} |->
           LET g == [d \in 1 .. 3 |-> BLOCK * a[d]] IN IF g \in DOMAIN field.data THEN field.data[g] ELSE Undef])
  /\ UNCHANGED <<shm_data, shm_errctrl, errctrl, xdata>>

interpolate_stage(w) ==
  /\ Op(w, "interpolate") /\ Advance(w)
  /\ LET s == Program[at[w]][2]
         mine == {xyz_map(s, i) : i \in Share(w, s.dim)} \cap Scratch
         pred(c) == Mean(shm_data[Shift(c, s.axis, -s.unit)], shm_data[Shift(c, s.axis, s.unit)])
         code(c) == IF Undef \in {pred(c), shm_data[c]} THEN Undef ELSE Steps(shm_data[c] - pred(c)) + RADIUS
     IN  IF phase = "construct"
           THEN /\ shm_errctrl' = Over(shm_errctrl, [c \in mine |-> Kept(code(c))])
                /\ shm_data' = Over(shm_data, [c \in mine |-> Value(pred(c), code(c))])
           ELSE /\ shm_data' = Over(shm_data, [c \in mine |-> Value(pred(c), shm_errctrl[c])])
                /\ UNCHANGED shm_errctrl
  /\ UNCHANGED global

shmem2global(w) ==
  /\ Op(w, "store") /\ Advance(w)
  /\ LET Out(shm, len) ==
           LET mine == {c \in Share(w, SUBLEN) : Within(Global(c), len)}
           IN  [g \in {Global(c) : c \in mine} |-> shm[[d \in 1 .. 3 |-> g[d] - BlockId[d] * SUBLEN[d]]]]
     IN  IF phase = "construct"
           THEN errctrl' = Over(errctrl, Out(shm_errctrl, aligned_len3)) /\ UNCHANGED <<anchor, xdata>>
           ELSE xdata' = Over(xdata, Out(shm_data, field.len3)) /\ UNCHANGED <<anchor, errctrl>>
  /\ UNCHANGED <<shm_data, shm_errctrl>>

-----------------------------------------------------------------------------
Sync ==
  /\ \A w \in Warps : Op(w, "sync")
  /\ at' = [w \in Warps |-> at[w] + 1]
  /\ UNCHANGED <<field, phase, block, shm_data, shm_errctrl, global>>

Fresh == /\ at' = [w \in Warps |-> 1]
         /\ shm_data' = [c \in Scratch |-> Undef] /\ shm_errctrl' = [c \in Scratch |-> Undef]
Ended == \A w \in Warps : at[w] = Len(Program) + 1

NextBlock ==
  /\ phase \in {"construct", "reconstruct"} /\ Ended /\ block + 1 < NBlock
  /\ block' = block + 1 /\ Fresh
  /\ UNCHANGED <<field, phase, global>>

launch_reconstruct_Spline3 ==
  /\ phase = "construct" /\ Ended /\ block + 1 = NBlock
  /\ phase' = "reconstruct" /\ block' = 0 /\ Fresh
  /\ UNCHANGED <<field, global>>

Finish ==
  /\ phase = "reconstruct" /\ Ended /\ block + 1 = NBlock
  /\ phase' = "done" /\ Fresh
  /\ UNCHANGED <<field, block, global>>

launch_construct_Spline3 ==
  /\ phase = "launch" /\ phase' = "construct" /\ Fresh
  /\ UNCHANGED <<field, block, global>>

Init ==
  /\ field \in Fields /\ phase = "launch" /\ block = 0
  /\ at = [w \in Warps |-> 1]
  /\ shm_data = [c \in Scratch |-> Undef] /\ shm_errctrl = [c \in Scratch |-> Undef]
  /\ anchor  = [a \in Box(anchor_len3) |-> Undef]
  /\ errctrl = [g \in Box(aligned_len3) |-> Undef]
  /\ xdata   = [g \in Box(field.len3) |-> Undef]

WarpStep(w) ==
  \/ c_reset_scratch(w) \/ x_reset_scratch(w) \/ global2shmem(w) \/ c_gather_anchor(w)
  \/ interpolate_stage(w) \/ shmem2global(w)
Next == (\E w \in Warps : WarpStep(w)) \/ Sync \/ NextBlock \/ Finish
          \/ launch_construct_Spline3 \/ launch_reconstruct_Spline3
Spec == Init /\ [][Next]_vars

-----------------------------------------------------------------------------
(* Properties.                                                             *)

Number == Int \cup {Undef}
TypeOK ==
  /\ field \in Fields /\ phase \in {"launch", "construct", "reconstruct", "done"} /\ block \in 0 .. NBlock - 1
  /\ at \in [Warps -> 1 .. Len(c_spline3d) + 1]
  /\ DOMAIN shm_data = Scratch /\ \A c \in Scratch : shm_data[c] \in Number
  /\ shm_errctrl \in [Scratch -> 0 .. CAP \cup {Undef}]
  /\ DOMAIN anchor = Box(anchor_len3) /\ errctrl \in [Box(aligned_len3) -> 0 .. CAP \cup {Undef}]
  /\ DOMAIN xdata = Box(field.len3)

\* Decompression's interpolation sees what compression's saw, in whatever order
\* the warps run, although neighbouring blocks code a common face twice: every
\* value is within the error bound, provided the codes fit.  Except that a face
\* which ends the last block of an axis has codes in compression only: what is
\* interpolated from such a face is excepted.
FromStored(g) == \A d \in 1 .. 3 : ((g[d] + BLOCK - 1) \div BLOCK) * BLOCK < aligned_len3[d]
CodesFit == \A g \in DOMAIN errctrl : errctrl[g] # Undef
ErrorBounded ==
  phase = "done" /\ CodesFit =>
    \A g \in DOMAIN xdata : FromStored(g) => xdata[g] # Undef /\ Abs(xdata[g] - field.data[g]) <= EB
===============================================================================
