------------------------------- MODULE MCCuszApi -------------------------------
(***************************************************************************)
(* Instance of CuszApi (and of Compressor) for TLC: five quant-codes, five *)
(* fields of three lengths.  Codeword widths are scaled down: four bytes   *)
(* hold codewords of two bits, so that four quant-codes with steep         *)
(* frequencies, already, need the fallback codec.                          *)
(***************************************************************************)
EXTENDS CuszApi

MCField == {"flat", "short", "steep", "long", "all"}
MCExtent == [flat |-> <<2, 1, 1>>, short |-> <<1, 1, 1>>, steep |-> <<1, 2, 1>>, long |-> <<3, 1, 1>>,
             all |-> <<1, 1, 1>>]
MCLen   == [flat |-> 2, short |-> 1, steep |-> 2, long |-> 3, all |-> 1]

Freqs(a, b, c, d, e) == [s \in 0 .. 4 |-> <<a, b, c, d, e>>[s + 1]]
MCHist == [flat  |-> Freqs(2, 3, 3, 2, 0), short |-> Freqs(0, 2, 1, 0, 0),
           steep |-> Freqs(8, 4, 2, 1, 0), long  |-> Freqs(9, 5, 2, 1, 0),
           all   |-> Freqs(1, 3, 1, 1, 1)]

\* The Huffman tree of four frequencies is deeper than two exactly when the two
\* least of them together are less than the greatest; of five, always.
TooDeep(q) ==
  LET nz == {s \in DOMAIN q : q[s] > 0} IN
  \/ Cardinality(nz) = 5
  \/ /\ Cardinality(nz) = 4
     /\ \E i, j, k \in nz : i # j /\ \A l \in nz \ {i, j} :
          /\ q[i] <= q[l] /\ q[j] <= q[l] /\ q[i] + q[j] < q[k]

\* The 8-byte codec holds every codebook of 32-bit frequencies; but where five
\* quant-codes occur, there are more than the device has resident threads for, and
\* neither codec gets its kernel launched (hf_bookg.inl:615-625).
FallbackBuilds(w, q) ==
  \/ w = 4 /\ TooDeep(q)
  \/ w = 8 /\ \A s \in DOMAIN q : q[s] > 0

\* A smaller instance for the object under arbitrary calls: three quant-codes,
\* of which three at once are too many for the 4-byte codec; two fields of one length
\* and different extents.
SmallField == {"plain", "wide", "three"}
SmallExtent == [plain |-> <<1, 1, 1>>, wide |-> <<2, 1, 1>>, three |-> <<1, 2, 1>>]
SmallLen   == [plain |-> 1, wide |-> 2, three |-> 2]
SmallHist  == [plain |-> [s \in 0 .. 2 |-> <<0, 1, 0>>[s + 1]],
               wide  |-> [s \in 0 .. 2 |-> <<1, 0, 0>>[s + 1]],
               three |-> [s \in 0 .. 2 |-> <<1, 1, 1>>[s + 1]]]
SmallFails(w, q) == \A s \in DOMAIN q : q[s] > 0
================================================================================
