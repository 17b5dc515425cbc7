------------------------------- MODULE MCLorenzo -------------------------------
(***************************************************************************)
(* Instances of Predicted.  Blocks of 12, 4 x 4 and 6 x 3 x 3 cells stand    *)
(* for blocks of 256, 16 x 16 and 32 x 8 x 8; the fields end within a      *)
(* block on every axis and have cells that quantize and cells that do not. *)
(***************************************************************************)
EXTENDS Predicted

\* A field of the extents given; values that spread over about n.
Wave(x, y, z, n, k) ==
  [len3 |-> <<x, y, z>>,
   data |-> [i \in 0 .. x * y * z - 1 |-> ((i * i * k + 7 * i) % n) - n \div 2]]

Lines  == {Wave(17, 1, 1, 31, 5), Wave(12, 1, 1, 80, 11), Wave(2, 1, 1, 9, 3)}
Planes == {Wave(6, 5, 1, 31, 5), Wave(4, 4, 1, 9, 3), Wave(9, 2, 1, 300, 7)}
Solids == {Wave(7, 3, 4, 31, 5), Wave(5, 2, 2, 300, 7)}
Some   == Lines \cup Planes \cup Solids
All    == DOMAIN launch \ (DOMAIN origin_of \cup {"origin_1d", "origin_2d", "origin_3d"})
Tests  == DOMAIN origin_of
None   == {}
AnyGhost == {0, Undef}
NoGhost  == {0}

\* No property speaks of what follows once a warp was overtaken.
NotOvertaken == ~overtaken

Fused  == {"v0r1_3d"}
Cube27 == {Wave(3, 3, 2, 9, 3)}
===============================================================================
