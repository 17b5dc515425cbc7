------------------------------ MODULE ParHuffman ------------------------------
(***************************************************************************)
(* GPU_GenerateCL of hf_bookg.inl: the codeword lengths of a Huffman code  *)
(* from sorted frequencies, by one cooperative grid of thread blocks.  The *)
(* leaves are the frequencies; internal nodes live in a ring buffer.  In a *)
(* round, thread 0 combines the two least nodes; then every node that is   *)
(* no greater than their sum is paired, leaves and internal nodes merged   *)
(* in order by all blocks.  Grid barriers separate the phases of a round.  *)
(*                                                                         *)
(* A block is one warp, whose threads run in lockstep; what one block does *)
(* between two barriers is one step, or two where another block's step in  *)
(* between makes a difference.                                             *)
(***************************************************************************)
EXTENDS Integers, Sequences, FiniteSets, FiniteSetsExt

CONSTANTS
  Histograms,   \* sorted frequencies a launch may get, as [0 .. n-1 -> Nat \ {0}]
  NBlocks,      \* blocks in the grid
  NThreads,     \* threads in a block
  Beyond        \* what the word after the histogram may hold

Block      == 0 .. NBlocks - 1
Thread     == 0 .. NBlocks * NThreads - 1
Threads(b) == {i \in Thread : i \div NThreads = b}
UINT_MAX   == 1073741824              \* greater than the frequencies together

\* What the first k frequencies make together.
Sums(h) == LET T[k \in 0 .. Cardinality(DOMAIN h)] == IF k = 0 THEN 0 ELSE T[k - 1] + h[k - 1]
           IN  T

ASSUME LaunchAssumption ==
  /\ NBlocks \in Nat \ {0} /\ NThreads \in Nat \ {0}
  /\ \A h \in Histograms :
       /\ \E n \in 1 .. NBlocks * NThreads : h \in [0 .. n - 1 -> Nat \ {0}]
       /\ Sums(h)[Cardinality(DOMAIN h)] < UINT_MAX
       /\ \A i, j \in DOMAIN h : i < j => h[i] <= h[j]
  /\ Beyond \subseteq Nat

VARIABLES
  histogram,    \* sorted, non-zero frequencies; also lNodesFreq
  phase, at,    \* the grid's phase; each block's place in it
  lNodesLeader, \* of each leaf, the root of its tree so far, -1 if none
  CL,           \* of each leaf, its depth in that tree
  iNodesFreq, iNodesLeader,      \* of each slot of the ring
  lNodesCur,                     \* the first leaf not taken
  iNodesFront, iNodesRear,       \* the roots, in the ring
  iNodesSize, minFreq,
  curLeavesNum,                  \* leaves taken to be merged
  mergeFront, mergeRear,         \* internal nodes taken to be merged
  copy, temp,                    \* leaves to merge; everything merged
  path                           \* where each block's share of the merge begins

nodes == <<lNodesLeader, CL, iNodesFreq, iNodesLeader>>
iters == <<lNodesCur, iNodesFront, iNodesRear, iNodesSize, minFreq>>
merged == <<mergeFront, mergeRear, copy, temp, path>>
vars  == <<histogram, phase, at, nodes, iters, curLeavesNum, merged>>

size   == Cardinality(DOMAIN histogram)
Bare(a) == a                        \* mutants: no wrap, too small a ring
MODHalf(a) == a % (size \div 2 + 1)
MOD(a)  == a % size
Leaf   == DOMAIN histogram

\* What there is to merge: leaves in copy, and a stretch of the ring.
ALength    == curLeavesNum
BLength    == MOD(mergeRear - mergeFront)
tempLength == ALength + BLength
Inner(k)   == MOD(mergeFront + k)

\* While there is not exactly one internal node.
Working == lNodesCur < size \/ iNodesSize > 1

At(b, ph, place) == phase = ph /\ at[b] = place
Go(b, place)     == at' = [at EXCEPT ![b] = place] /\ UNCHANGED <<phase, histogram>>
\* A phase in which only thread 0 of block 0 works.
Idle(b, ph)      == /\ b # 0 /\ At(b, ph, "run") /\ Go(b, "wait")
                    /\ UNCHANGED <<nodes, iters, curLeavesNum, merged>>

-----------------------------------------------------------------------------
\* The loop condition is not separated by a barrier from what thread 0 does
\* next, which changes what another block reads.
TestLoop(b) ==
  /\ At(b, "combine", "run")
  /\ Go(b, IF Working THEN "half" ELSE "exit")
  /\ UNCHANGED <<nodes, iters, curLeavesNum, merged>>

\* The sorting network on the two least leaves and the two least roots.
Exchange2(m, a, b) == IF m[a].freq > m[b].freq   \* mutant: isLeaf stays behind
  THEN [m EXCEPT ![a].freq = m[b].freq, ![b].freq = m[a].freq] ELSE m
Exchange(m, a, b) == IF m[a].freq > m[b].freq
                       THEN [m EXCEPT ![a] = m[b], ![b] = m[a]] ELSE m
Network(m) == Exchange(Exchange(Exchange(Exchange(Exchange(m,
                1, 3), 0, 2), 0, 1), 2, 3), 1, 2)

\* The isLeaf flag of an absent node is read, uninitialised, when there is only
\* one node in all.
Candidates(flag) ==
  [k \in 0 .. 3 |->
    IF k < 2 /\ lNodesCur + k < size
      THEN [freq |-> histogram[lNodesCur + k], leaf |-> TRUE]
    ELSE IF k >= 2 /\ iNodesSize >= k - 1
      THEN [freq |-> iNodesFreq[MOD(iNodesFront + k - 2)], leaf |-> FALSE]
    ELSE [freq |-> UINT_MAX, leaf |-> flag]]

CombineTwo(flag) ==
  LET mid    == Network(Candidates(flag))
      leaves == Cardinality({k \in {0, 1} : mid[k].leaf})
      sum    == mid[0].freq + IF mid[1].freq < UINT_MAX THEN mid[1].freq ELSE 0
      taken  == lNodesCur .. lNodesCur + leaves - 1
      inner  == {MOD(iNodesFront + k) : k \in 0 .. 1 - leaves}
      front  == MOD(iNodesFront + 2 - leaves)
  IN  /\ minFreq' = sum
      /\ iNodesFreq' = [iNodesFreq EXCEPT ![iNodesRear] = sum]
      /\ iNodesLeader' = [j \in DOMAIN iNodesLeader |->
           IF j \in inner THEN iNodesRear
           ELSE IF j = iNodesRear THEN -1 ELSE iNodesLeader[j]]
      /\ lNodesLeader' = [i \in DOMAIN lNodesLeader |->
           IF i \in taken THEN iNodesRear ELSE lNodesLeader[i]]
      /\ CL' = [i \in DOMAIN CL |-> IF i \in taken THEN CL[i] + 1 ELSE CL[i]]
      /\ lNodesCur' = lNodesCur + leaves
      /\ iNodesFront' = front
      /\ iNodesSize' = MOD(iNodesRear - front)
      /\ UNCHANGED iNodesRear

Combine(b) ==
  /\ At(b, "combine", "half")
  /\ IF b = 0 THEN \E flag \in BOOLEAN : CombineTwo(flag)
              ELSE UNCHANGED <<nodes, iters>>
  /\ curLeavesNum' = 0
  /\ Go(b, "wait")
  /\ UNCHANGED merged

\* The leaves to merge: atomicMax over the threads whose leaf is small enough...
SelectMax(b) ==
  /\ At(b, "select", "run")
  /\ LET small == {i \in Threads(b) \cap Leaf :
                     i >= lNodesCur /\ histogram[i] <= minFreq}
     IN  curLeavesNum' = Max({curLeavesNum} \cup {i - lNodesCur + 1 : i \in small})
  /\ Go(b, "half")
  /\ UNCHANGED <<nodes, iters, merged>>

\* A thread copies its own leaf; mutant: the leaf for its own place.
OwnPlace(b, k) == k \in Threads(b)
Owns(b, k)     == lNodesCur + k \in Threads(b) \cap Leaf

\* ... and no barrier before it is read: the maximum may be of some blocks only.
SelectCopy(b) ==
  /\ At(b, "select", "half")
  /\ copy' = [k \in DOMAIN copy |->
       IF k < curLeavesNum /\ Owns(b, k)
         THEN [freq |-> histogram[lNodesCur + k], index |-> lNodesCur + k,
               leaf |-> TRUE]
         ELSE copy[k]]
  /\ Go(b, "wait")
  /\ UNCHANGED <<nodes, iters, curLeavesNum, mergeFront, mergeRear, temp, path>>

\* Of an odd number of nodes one is left out: the last internal node when it is
\* no less than the frequency the code compares it with.  The right one would be
\* that of the last leaf; the code reads the one after it.
Compared(v)  == LET i == lNodesCur + curLeavesNum
                IN  IF i \in Leaf THEN histogram[i] ELSE v

OutInner(v) ==
  /\ iNodesSize # 0
  /\ curLeavesNum = 0 \/ Compared(v) <= iNodesFreq[MOD(iNodesRear - 1)]

Even == (curLeavesNum + iNodesSize) % 2 = 0

AllLeaves(v) == curLeavesNum            \* mutant: no leaf is ever left out
Merging(v)   == IF Even \/ OutInner(v) THEN curLeavesNum ELSE curLeavesNum - 1

Iterate(b) ==
  /\ b = 0 /\ At(b, "iterate", "run")
  /\ mergeFront' = iNodesFront
  /\ \E v \in Beyond :
       /\ mergeRear' = IF ~Even /\ OutInner(v) THEN MOD(iNodesRear - 1)
                                               ELSE iNodesRear
       /\ curLeavesNum' = Merging(v)
  /\ iNodesFront' = mergeRear'
  /\ lNodesCur' = lNodesCur + curLeavesNum'
  /\ iNodesRear' = MOD(iNodesRear + 1)
  /\ Go(b, "wait")
  /\ UNCHANGED <<nodes, iNodesSize, minFreq, copy, temp, path>>

CrossingEven(k) == {(ALength * k) \div tempLength}    \* mutant: equal shares of leaves

\* cudaWorkloadDiagonals(): where the merge path crosses the k-th diagonal.  The
\* 32-wide search finds a place where the flag changes; there is only one if the
\* internal nodes are sorted.
Flag(k, x) ==
  /\ x <= ALength /\ x <= k
  /\ x = 0 \/ k - x >= BLength \/ copy[x - 1].freq <= iNodesFreq[Inner(k - x)]
Crossing(k) == {x \in 0 .. ALength : x <= k /\ Flag(k, x) # Flag(k, x + 1)}

Diagonal(b) == (b * tempLength) \div NBlocks

Divide(b) ==
  /\ At(b, "divide", "run")
  /\ IF tempLength = 0 THEN path' = path
     ELSE \E x \in Crossing(Diagonal(b)) : path' = [path EXCEPT ![b] = [x |-> x, y |-> Diagonal(b) - x]]
  /\ Go(b, "wait")
  /\ UNCHANGED <<nodes, iters, curLeavesNum, mergeFront, mergeRear, copy, temp>>

\* merge(): the serial merge of one block's share, "leaves" leaves from x0 on and
\* "inner" internal nodes from y0 on, a leaf first among equals.  Before it writes its
\* k-th node it has come to leaf X[k].
Leads(x, y, x1, y1) == x < x1 /\ (y >= y1 \/ copy[x].freq <= iNodesFreq[Inner(y)])
Walk(x0, leaves, y0, inner) ==
  LET X[k \in 0 .. leaves + inner] ==
        IF k = 0 THEN x0
        ELSE LET x == X[k - 1]
             IN  IF Leads(x, y0 + k - 1 - (x - x0), x0 + leaves, y0 + inner) THEN x + 1 ELSE x
  IN  X
Serial(x0, leaves, y0, inner) ==
  LET X    == Walk(x0, leaves, y0, inner)
      Y(k) == Inner(y0 + k - (X[k] - x0))
  IN  [k \in 0 .. leaves + inner - 1 |->
         IF X[k + 1] > X[k] THEN copy[X[k]]
                            ELSE [freq |-> iNodesFreq[Y(k)], index |-> Y(k), leaf |-> FALSE]]

\* cudaMergeSinglePath(): block b merges from its crossing to the next one's.
MergeShare(b) ==
  /\ At(b, "merge", "run")
  /\ LET stop == IF b = NBlocks - 1 THEN [x |-> ALength, y |-> BLength]
                                    ELSE path[b + 1]
         from == path[b].x + path[b].y
         part == Serial(path[b].x, IF path[b].x < stop.x THEN stop.x - path[b].x ELSE 0,
                        path[b].y, MOD(stop.y - path[b].y))
     IN  temp' = IF tempLength = 0 THEN temp
                 ELSE [k \in DOMAIN temp |->
                         IF k - from \in DOMAIN part THEN part[k - from]
                                                     ELSE temp[k]]
  /\ Go(b, "wait")
  /\ UNCHANGED <<nodes, iters, curLeavesNum, mergeFront, mergeRear, copy, path>>

\* Thread i joins temp[2i] and temp[2i+1] under a new node.
Meld(b) ==
  /\ At(b, "meld", "run")
  /\ LET mine  == {i \in Threads(b) : i < tempLength \div 2}
         ind(i) == MOD(iNodesRear + i)
         under(leaf, j) == {i \in mine : \E k \in {2 * i, 2 * i + 1} :
                              temp[k].leaf = leaf /\ temp[k].index = j}
     IN  /\ iNodesFreq' = [j \in DOMAIN iNodesFreq |->
              IF \E i \in mine : ind(i) = j
                THEN LET i == CHOOSE i \in mine : ind(i) = j
                     IN  temp[2 * i].freq + temp[2 * i + 1].freq
                ELSE iNodesFreq[j]]
         /\ iNodesLeader' = [j \in DOMAIN iNodesLeader |->
              IF under(FALSE, j) # {} THEN ind(CHOOSE i \in under(FALSE, j) : TRUE)
              ELSE IF \E i \in mine : ind(i) = j THEN -1 ELSE iNodesLeader[j]]
         /\ lNodesLeader' = [j \in DOMAIN lNodesLeader |->
              IF under(TRUE, j) # {} THEN ind(CHOOSE i \in under(TRUE, j) : TRUE)
                                     ELSE lNodesLeader[j]]
         /\ CL' = [j \in DOMAIN CL |-> CL[j] + Cardinality(under(TRUE, j))]
  /\ Go(b, "wait")
  /\ UNCHANGED <<iters, curLeavesNum, merged>>

Advance(b) ==
  /\ b = 0 /\ At(b, "rear", "run")
  /\ iNodesRear' = MOD(iNodesRear + tempLength \div 2)
  /\ Go(b, "wait")
  /\ UNCHANGED <<nodes, lNodesCur, iNodesFront, iNodesSize, minFreq, curLeavesNum,
                 merged>>

\* A leaf whose root got a parent moves up to it.
UpdateLeaders(b) ==
  /\ At(b, "leaders", "run")
  /\ LET up == {i \in Threads(b) \cap Leaf :
                  lNodesLeader[i] # -1 /\ iNodesLeader[lNodesLeader[i]] # -1}
     IN  /\ lNodesLeader' = [i \in DOMAIN lNodesLeader |->
              IF i \in up THEN iNodesLeader[lNodesLeader[i]] ELSE lNodesLeader[i]]
         /\ CL' = [i \in DOMAIN CL |-> IF i \in up THEN CL[i] + 1 ELSE CL[i]]
  /\ Go(b, "wait")
  /\ UNCHANGED <<iNodesFreq, iNodesLeader, iters, curLeavesNum, merged>>

Resize(b) ==
  /\ b = 0 /\ At(b, "size", "run")
  /\ iNodesSize' = MOD(iNodesRear - iNodesFront)
  /\ Go(b, "wait")
  /\ UNCHANGED <<nodes, lNodesCur, iNodesFront, iNodesRear, minFreq, curLeavesNum,
                 merged>>

-----------------------------------------------------------------------------
\* grid.sync(): nobody goes on before every block of the grid has arrived, and a
\* block that has left the kernel never does.
Round == [combine |-> "select", select |-> "iterate", iterate |-> "divide",
          divide |-> "merge", merge |-> "meld", meld |-> "rear",
          rear |-> "leaders", leaders |-> "size", size |-> "combine"]
NoLeaders == [Round EXCEPT !.rear = "size"]    \* mutants: a phase is skipped
NoTest    == [Round EXCEPT !.size = "size"]
Following == Round

GridSync ==
  /\ \A b \in Block : at[b] = "wait"
  /\ phase' = Following[phase]
  /\ at' = [b \in Block |-> "run"]
  /\ UNCHANGED <<histogram, nodes, iters, curLeavesNum, merged>>

BlockStep(b) ==
  \/ TestLoop(b) \/ Combine(b) \/ SelectMax(b) \/ SelectCopy(b) \/ Iterate(b)
  \/ Divide(b) \/ MergeShare(b) \/ Meld(b) \/ Advance(b) \/ UpdateLeaders(b)
  \/ Resize(b)
  \/ \E ph \in {"iterate", "rear", "size"} : Idle(b, ph)

\* As after the barrier that follows the initialisation; what a cudaMalloc()ed
\* array holds before it is written is never read, except by Candidates.  The
\* arrays of leaves have a word of padding, which a single leaf's run may write.
Init ==
  /\ histogram \in Histograms
  /\ phase = "combine" /\ at = [b \in Block |-> "run"]
  /\ lNodesLeader = [i \in 0 .. size |-> -1]
  /\ CL = [i \in 0 .. size |-> 0]
  /\ iNodesFreq = [j \in Leaf |-> 0] /\ iNodesLeader = [j \in Leaf |-> -1]
  /\ lNodesCur = 0 /\ iNodesFront = 0 /\ iNodesRear = 0 /\ iNodesSize = 0
  /\ minFreq = 0 /\ curLeavesNum = 0 /\ mergeFront = 0 /\ mergeRear = 0
  /\ copy = [k \in Leaf |-> [freq |-> 0, index |-> 0, leaf |-> TRUE]]
  /\ temp = copy
  /\ path = [b \in Block |-> [x |-> 0, y |-> 0]]

Next == GridSync \/ \E b \in Block : BlockStep(b)

\* As long as some block can go on, one does; which one is left open, since the
\* barriers keep the blocks together.
Spec == Init /\ [][Next]_vars /\ WF_vars(Next)
-----------------------------------------------------------------------------
Done == \A b \in Block : at[b] = "exit"

\* No block is in the middle of changing the forest.
Settled == phase = "combine" /\ at[0] # "wait"

Roots   == {MOD(iNodesFront + k) : k \in 0 .. iNodesSize - 1}
Tree(r) == {i \in Leaf : lNodesLeader[i] = r}

\* The Kraft sum of the lengths of S, in units of 2^-size.
pow2[k \in 0 .. NBlocks * NThreads] == IF k = 0 THEN 1 ELSE 2 * pow2[k - 1]
Kraft(S) == Sums([i \in Leaf |-> IF i \in S THEN pow2[size - CL[i]] ELSE 0])[size]

\* Types, of the iterators as positions in the ring.
TypeOK ==
  /\ histogram \in Histograms
  /\ at \in [Block -> {"run", "half", "wait", "exit"}]
  /\ lNodesCur \in 0 .. size + 1 /\ curLeavesNum \in 0 .. size
  /\ {iNodesFront, iNodesRear, iNodesSize, mergeFront, mergeRear} \subseteq Leaf

\* Between two rounds the leaves taken so far are partitioned into trees with
\* their roots in the ring, and their depths are those of a complete binary tree,
\* whatever order the roots are in.
ForestSound ==
  Settled /\ size > 1 =>
    /\ \A i \in Leaf : IF i < lNodesCur THEN lNodesLeader[i] \in Roots
                                       ELSE lNodesLeader[i] = -1 /\ CL[i] = 0
    /\ \A r \in Roots : Kraft(Tree(r)) = pow2[size]

\* The code is complete: no bit pattern is left undecodable.
CompleteCode == Done /\ size > 1 => Kraft(Leaf) = pow2[size]

\* A more frequent quant-code never has a longer codeword; in particular CL[0] is
\* the longest, as GPU_GetMaxCWLength() assumes, and GPU_GenerateCW() gets the
\* lengths in order.
FrequentNotLonger == Done => \A i, j \in Leaf : i < j => CL[i] >= CL[j]

\* The leaves that parMerge() is given are those before lNodesCur, each once and in
\* order, although the blocks that copied them may have seen different values of
\* curLeavesNum.
LeavesCopied ==
  phase \in {"divide", "merge", "meld"} =>
    \A k \in 0 .. ALength - 1 :
      copy[k] = [freq |-> histogram[lNodesCur - ALength + k],
                 index |-> lNodesCur - ALength + k, leaf |-> TRUE]

\* The internal nodes that parMerge() is given are sorted.  With dozens of leaves they
\* need not be: the node left out may be greater than the sum combined last.
RingSorted ==
  phase \in {"divide", "merge", "meld"} =>
    \A k \in 1 .. BLength - 1 : iNodesFreq[Inner(k - 1)] <= iNodesFreq[Inner(k)]

\* The shares of the blocks join up to one sorted sequence of all there was to
\* merge, each node once.
MergedWhole ==
  phase = "meld" /\ RingSorted =>
    /\ \A k \in 1 .. tempLength - 1 : temp[k - 1].freq <= temp[k].freq
    /\ {<<temp[k].leaf, temp[k].index>> : k \in 0 .. tempLength - 1}
         = {<<TRUE, i>> : i \in lNodesCur - ALength .. lNodesCur - 1}
           \cup {<<FALSE, Inner(k)>> : k \in 0 .. BLength - 1}

\* The ring has room: melding never reuses the slot of a node that leaves still
\* look up to find their new root.
RingHasRoom ==
  phase = "meld" =>
    {MOD(iNodesRear + i) : i \in 0 .. tempLength \div 2 - 1}
      \cap {lNodesLeader[i] : i \in 0 .. lNodesCur - ALength - 1} = {}

\* A block waits at a barrier for one that has left the kernel.
Stranded == \E b, c \in Block : at[b] = "wait" /\ at[c] = "exit"

\* The kernel ends, unless a block leaves it early (see LeavesWithOneNode): the
\* rounds do not go on for ever.
Terminates == <>(Done \/ Stranded)

\* A block leaves the loop when there is exactly one internal node left.
LeavesWithOneNode ==
  [][\A b \in Block : at[b] # "exit" /\ at'[b] = "exit" => iNodesSize = 1]_vars
===============================================================================
