----------------------------- MODULE MCParHuffman -----------------------------
(***************************************************************************)
(* Instances of ParHuffman, for a grid of three blocks of three threads:   *)
(* sorted histograms of up to four quant-codes with frequencies up to 3,   *)
(* of five with frequencies up to 2, of eight with frequencies 1 and 3,    *)
(* and some of eight and nine with greater ones.  A merge path of up to    *)
(* eight nodes is thus divided among the blocks, as one of hundreds is on  *)
(* the device.                                                             *)
(***************************************************************************)
EXTENDS ParHuffman

Sorted(n, m) == {h \in [0 .. n - 1 -> 1 .. m] :
                   \A i \in 1 .. n - 1 : h[i - 1] <= h[i]}

Eight(a, b, c, d, e, f, g, h) == [i \in 0 .. 7 |-> <<a, b, c, d, e, f, g, h>>[i + 1]]
Long  == {Eight(1, 1, 2, 3, 5, 8, 13, 21), Eight(1, 1, 1, 1, 1, 1, 1, 1),
          Eight(1, 2, 2, 3, 3, 3, 4, 30),  Eight(4, 5, 5, 6, 6, 7, 7, 8),
          Eight(1, 1, 1, 2, 2, 3, 4, 4),   Eight(1, 1, 1, 2, 2, 3, 3, 4)}
\* In the first, a root greater than minFreq is left out, and the next combine takes it
\* for the least; in the others, leaves and internal nodes alternate in a merge.
Nines == {[i \in 0 .. 8 |-> h[i + 1]] :
            h \in {<<1, 4, 4, 5, 5, 5, 5, 7, 18>>, <<1, 1, 1, 1, 1, 1, 2, 3, 4>>,
                   <<1, 1, 1, 2, 2, 2, 3, 3, 5>>}}
Steps == {h \in Sorted(8, 3) : \A i \in 0 .. 7 : h[i] # 2}
Small == Long \cup Nines \cup Steps \cup Sorted(5, 2) \cup UNION {Sorted(n, 3) : n \in 1 .. 4}
Pairs == Sorted(2, 2) \cup Sorted(3, 2)

\* No run's: with it, one block of 61 threads and Beyond = {0}, RingSorted is violated.
Unsorted ==
  {[i \in 0 .. 60 |-> <<1, 1, 2, 2, 2, 3, 3, 3, 3, 3, 4, 4, 5, 6, 6, 6, 6, 6, 7, 7, 7,
      7, 8, 8, 9, 9, 9, 10, 10, 10, 10, 11, 11, 12, 13, 14, 14, 15, 17, 17, 17, 17, 18,
      18, 18, 19, 19, 19, 19, 19, 20, 20, 59, 59, 62, 111, 122, 152, 155, 158,
      240>>[i + 1]]}
===============================================================================
