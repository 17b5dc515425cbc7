------------------------------- MODULE CodeBook -------------------------------
(***************************************************************************)
(* The codewords of a Huffman codebook and what a decoder needs to know of *)
(* them: GPU_GenerateCW and the last part of hf_buildbook_g (hf_bookg.inl),*)
(* and how inflate uses their result (hf_codecg.inl).                      *)
(*                                                                         *)
(* GPU_GenerateCL has left the codeword lengths in order of frequency.     *)
(* Between two grid barriers every thread writes places of its own and     *)
(* reads none that another writes, so what a grid does there is one step.  *)
(* That does not hold of GPU_ReorderByIndex, which has no barrier: there a *)
(* warp reads in one step and writes in another.  The buffers live as long *)
(* as the codec: a codebook is built over the one before.                  *)
(***************************************************************************)
EXTENDS Integers, FiniteSets, FiniteSetsExt

CONSTANTS
  DictSize,    \* number of quant-codes
  TypeBW,      \* bits of a word, type_bw
  Lengths,     \* codeword lengths by ascending frequency, on 0 .. nz-1
  Orders,      \* orders of the quant-codes by ascending frequency
  NWarps,      \* warps that reorder the codebook
  MaxBuilds    \* bound on the codebooks built with one codec

Index  == 0 .. DictSize - 1
Bits   == 0 .. TypeBW - 1
Warp   == 0 .. NWarps - 1
Long   == TypeBW - 2                 \* the longest codeword there may be

pow2[n \in 0 .. TypeBW] == IF n = 0 THEN 1 ELSE 2 * pow2[n - 1]        \* 1 << n

MAX    == pow2[TypeBW] - 1           \* std::numeric_limits<H>::max()

\* How many sequences of Long bits begin with one of the i shortest codewords.
Count(L)  == Cardinality(DOMAIN L)
Spaces(L) == LET K[i \in 0 .. Count(L)] ==
                   IF i = 0 THEN 0 ELSE K[i - 1] + pow2[Long - L[Count(L) - i]]
             IN  K

\* The lengths are a prefix code's in which the two rarest quant-codes are siblings,
\* as they are in a Huffman tree (CompleteCode of ParHuffman).
ASSUME BookAssumption ==
  /\ {DictSize, TypeBW, NWarps, MaxBuilds} \subseteq Nat \ {0}
  /\ Lengths # {} /\ Orders # {}
  /\ \A L \in Lengths :
       /\ \E n \in 1 .. DictSize : L \in [0 .. n - 1 -> 1 .. Long]
       /\ \A i, j \in DOMAIN L : i < j => L[i] >= L[j]
       /\ Spaces(L)[Count(L)] <= pow2[Long]
       /\ Count(L) > 1 => L[0] = L[1]
  /\ \A q \in Orders : q \in [Index -> Index] /\ {q[i] : i \in Index} = Index

VARIABLES
  phase, builds,
  given,              \* what is built from: the lengths, and the order, by frequency
  CL,                 \* the lengths, which GenerateCW reverses
  codebook,           \* by frequency at first, by quant-code in the end
  first, entry,       \* of each length: its first codeword, and its place in keys
  qcode,              \* the quant-codes by frequency: the decoder's keys
  CCL, CDPI, newCDPI, \* the length being handled, from where to where it goes
  at, temp,           \* each warp, and what it has read and not yet written
  raced               \* history: a place was written before its warp read it

kernel == <<CL, CCL, CDPI, newCDPI>>
vars   == <<phase, builds, given, kernel, codebook, first, entry, qcode, at, temp, raced>>

size == Count(given.len)                      \* nz_dict_size
off  == DictSize - size                       \* first_nonzero_index
CW(i) == codebook[off + i].word               \* of _nz_d_codebook

Given == [len : Lengths, order : Orders]
Word(w) == [bits |-> 0, word |-> w]
Flip(w, l) == (w \div pow2[l]) * pow2[l] + (pow2[l] - 1 - (w % pow2[l]))  \* w ^ ((1 << l) - 1)
Reversed(f, n) == [i \in DOMAIN f |-> IF i < n THEN f[n - 1 - i] ELSE f[i]]

Goto(p, q) == phase = p /\ phase' = q
-----------------------------------------------------------------------------
\* hf_buildbook_g() sorts the quant-codes and GPU_GenerateCL gives the lengths.
BuildBook ==
  /\ Goto("idle", "reverse") /\ builds < MaxBuilds
  /\ builds' = builds + 1
  /\ given' \in Given
  /\ CL' = given'.len /\ qcode' = given'.order
  /\ raced' = FALSE
  /\ UNCHANGED <<codebook, first, entry, CCL, CDPI, newCDPI, at, temp>>

ReverseLengths ==
  /\ Goto("reverse", "start")
  /\ CL' = Reversed(CL, size)
  /\ UNCHANGED <<builds, given, codebook, first, entry, qcode, CCL, CDPI, newCDPI, at, temp, raced>>

\* Also the whole of the code when there is only one quant-code.
Start ==
  /\ Goto("start", "clear")
  /\ CCL' = CL[0] /\ CDPI' = 0 /\ newCDPI' = size - 1
  /\ codebook' = [codebook EXCEPT ![off] = Word(0)]
  /\ first' = [first EXCEPT ![CL[0]] = Flip(0, CL[0])]
  /\ entry' = [entry EXCEPT ![CL[0]] = 0, ![CL[0] + 1] = 1]
  /\ UNCHANGED <<builds, given, CL, qcode, at, temp, raced>>

\* Unused lengths are skipped over in decoding; mutants: they are not written, or
\* are written one too great.
Stale(f, from, to)   == f
Wide(f, from, to)    == [l \in Bits |-> IF l \in from .. to - 1 THEN MAX + 1 ELSE f[l]]
Skipped(f, from, to) == [l \in Bits |-> IF l \in from .. to - 1 THEN MAX ELSE f[l]]

Clear ==
  /\ Goto("clear", "test")
  /\ first' = Skipped(first, 0, CCL)
  /\ entry' = [l \in Bits |-> IF l < CCL THEN 0 ELSE entry[l]]
  /\ UNCHANGED <<builds, given, kernel, codebook, qcode, at, temp, raced>>

\* while (CDPI < size - 1): atomicMin finds the last codeword of length CCL.
FindLast ==
  /\ CDPI < size - 1
  /\ Goto("test", "base")
  /\ newCDPI' = Min({newCDPI} \cup {i \in 0 .. size - 2 : CL[i + 1] > CCL})
  /\ UNCHANGED <<builds, given, CL, CCL, CDPI, codebook, first, entry, qcode, at, temp, raced>>

updateEnd == IF newCDPI >= size - 1 THEN TypeBW ELSE CL[newCDPI + 1]
numCCL    == newCDPI - CDPI + 1

FirstWord ==
  /\ Goto("base", "words")
  /\ codebook' = [codebook EXCEPT ![off + newCDPI] =
                    Word(IF CDPI = 0 THEN 0 ELSE CW(CDPI))]
  /\ UNCHANGED <<builds, given, kernel, first, entry, qcode, at, temp, raced>>

\* The codewords of this length, and where in keys the next length begins.
Words ==
  /\ Goto("words", "first")
  /\ codebook' = [k \in Index |->
       IF k - off \in CDPI .. newCDPI - 1
         THEN Word(CW(newCDPI) + newCDPI - (k - off)) ELSE codebook[k]]
  /\ entry' = [l \in Bits |-> IF l > CCL /\ l <= updateEnd
                                THEN entry[CCL] + numCCL ELSE entry[l]]
  /\ UNCHANGED <<builds, given, kernel, first, qcode, at, temp, raced>>

FirstOfLength ==
  /\ Goto("first", "next")
  /\ first' = [Skipped(first, CCL + 1, updateEnd) EXCEPT
                 ![CCL] = Flip(CW(CDPI), CL[CDPI])]
  /\ UNCHANGED <<builds, given, kernel, codebook, entry, qcode, at, temp, raced>>

StuckCDPI(n) == CDPI                  \* mutant: the last group is not left
NextCDPI(n)  == n

NextLength ==
  /\ Goto("next", "test")
  /\ IF newCDPI < size - 1
       THEN /\ codebook' = [codebook EXCEPT ![off + newCDPI + 1] =
                 Word((CW(CDPI) + 1) * pow2[CL[newCDPI + 1] - CL[newCDPI]])]
            /\ CCL' = CL[newCDPI + 1]
            /\ CDPI' = newCDPI + 1
       ELSE CDPI' = NextCDPI(newCDPI) /\ UNCHANGED <<codebook, CCL>>
  /\ newCDPI' = size - 1
  /\ UNCHANGED <<builds, given, CL, first, entry, qcode, at, temp, raced>>

\* The length goes into the high bits, and the codeword is complemented.
Pack ==
  /\ CDPI >= size - 1
  /\ Goto("test", "unreverse")
  /\ codebook' = [k \in Index |->
       IF k >= off THEN [bits |-> CL[k - off], word |-> Flip(CW(k - off), CL[k - off])]
                   ELSE codebook[k]]
  /\ UNCHANGED <<builds, given, kernel, first, entry, qcode, at, temp, raced>>

ReversePartial ==
  /\ Goto("unreverse", "reverseall")
  /\ codebook' = [k \in Index |-> IF k >= off THEN codebook[off + DictSize - 1 - k]
                                              ELSE codebook[k]]
  /\ UNCHANGED <<builds, given, kernel, first, entry, qcode, at, temp, raced>>

Kept(f) == f                           \* mutant: only the codebook is reversed
Keys(f) == Reversed(f, DictSize)

\* GPU_ReverseArray on the codebook and on the quant-codes.
ReverseArrays ==
  /\ Goto("reverseall", "reorder")
  /\ codebook' = Reversed(codebook, DictSize)
  /\ qcode' = Keys(qcode)
  /\ at' = [w \in Warp |-> "read"]
  /\ UNCHANGED <<builds, given, kernel, first, entry, temp, raced>>

-----------------------------------------------------------------------------
\* GPU_ReorderByIndex: thread i moves codebook[i] to codebook[qcode[i]].
Threads(w) == {i \in Index : (i * NWarps) \div DictSize = w}

ReadWords(w) ==
  /\ phase = "reorder" /\ at[w] = "read"
  /\ at' = [at EXCEPT ![w] = "write"]
  /\ temp' = [temp EXCEPT ![w] = [i \in Threads(w) |-> codebook[i]]]
  /\ UNCHANGED <<phase, builds, given, kernel, codebook, first, entry, qcode, raced>>

\* The place k is for another warp to read, and it has not yet.
Unread(k, w) == \E v \in Warp \ {w} : at[v] = "read" /\ k \in Threads(v)

WriteWords(w) ==
  /\ phase = "reorder" /\ at[w] = "write"
  /\ at' = [at EXCEPT ![w] = "done"]
  /\ codebook' = [k \in Index |->
       IF \E i \in Threads(w) : qcode[i] = k
         THEN temp[w][CHOOSE i \in Threads(w) : qcode[i] = k] ELSE codebook[k]]
  /\ raced' = (raced \/ \E i \in Threads(w) : Unread(qcode[i], w))
  /\ UNCHANGED <<phase, builds, given, kernel, first, entry, qcode, temp>>

Finish ==
  /\ \A w \in Warp : at[w] = "done"
  /\ Goto("reorder", "idle")
  /\ UNCHANGED <<builds, given, kernel, codebook, first, entry, qcode, at, temp, raced>>

\* As LosslessCodec::init() clears them; "given" is of no use yet.
Init ==
  /\ phase = "idle" /\ builds = 0
  /\ given = CHOOSE g \in Given : TRUE
  /\ CL = given.len
  /\ codebook = [k \in Index |-> Word(0)]
  /\ first = [l \in Bits |-> 0] /\ entry = [l \in Bits |-> 0]
  /\ qcode = given.order
  /\ CCL = 0 /\ CDPI = 0 /\ newCDPI = 0
  /\ at = [w \in Warp |-> "done"]
  /\ temp = [w \in Warp |-> [i \in Threads(w) |-> Word(0)]]
  /\ raced = FALSE

Next ==
  \/ BuildBook \/ ReverseLengths \/ Start \/ Clear
  \/ FindLast \/ FirstWord \/ Words \/ FirstOfLength \/ NextLength
  \/ Pack \/ ReversePartial \/ ReverseArrays
  \/ \E w \in Warp : ReadWords(w) \/ WriteWords(w)
  \/ Finish

Spec == Init /\ [][Next]_vars /\ WF_vars(Next /\ ~BuildBook)
-----------------------------------------------------------------------------
Built == phase = "idle" /\ builds > 0

TypeOK ==
  /\ builds \in 0 .. MaxBuilds /\ given \in Given
  /\ codebook \in [Index -> [bits : 0 .. TypeBW - 1, word : 0 .. MAX]]
  /\ first \in [Bits -> 0 .. MAX] /\ entry \in [Bits -> 0 .. DictSize]
  /\ qcode \in [Index -> Index]
  /\ CCL \in Bits /\ CDPI \in Index /\ newCDPI \in Index

\* Every quant-code that occurs gets the length made for its frequency: five
\* reversals and a permutation, all in place and over an earlier codebook, end
\* with each codeword at the quant-code it belongs to, in every interleaving of
\* the warps of GPU_ReorderByIndex in which none writes what another has to read.
LengthsAssigned ==
  Built /\ ~raced => \A i \in 0 .. size - 1 :
                       codebook[given.order[off + i]].bits = given.len[i]

\* Inflate: one more bit is taken while what has been read is less than the first
\* codeword of that length.  (Here the bits to come are those of v.)
Taken(v, l)  == v \div pow2[Long - l]
Stops(v)     == {l \in 1 .. Long : Taken(v, l) >= first[l]}
Inflated(v)  == LET l == Min(Stops(v))
                    k == entry[l] + Taken(v, l) - first[l]
                IN  IF k \in Index THEN [key |-> qcode[k], bits |-> l]
                                   ELSE [key |-> -1, bits |-> l]

\* Inflate reads every codeword back as its quant-code and as of its length,
\* whatever bits follow it, unless the reordering has raced.
Decodable ==
  Built /\ ~raced => \A k \in 0 .. size - 1 :
    LET s == qcode[k]
        c == codebook[s]
    IN  \A v \in 0 .. pow2[Long] - 1 :
          Taken(v, c.bits) = c.word =>
            Stops(v) # {} /\ Inflated(v) = [key |-> s, bits |-> c.bits]

\* A codebook that has been begun gets finished.
Finishes == phase = "reverse" ~> phase = "idle"
===============================================================================
