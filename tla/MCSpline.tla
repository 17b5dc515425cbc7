-------------------------------- MODULE MCSpline --------------------------------
(***************************************************************************)
(* Instances of Spline.  Blocks of 8 x 4 x 4 cells, interpolated at two    *)
(* distances, stand for blocks of 32 x 8 x 8 and three distances; values   *)
(* are multiples of 64, so that every mean is exact.                       *)
(***************************************************************************)
EXTENDS Spline

Field(x, y, z, k) ==
  [len3 |-> <<x, y, z>>,
   data |-> [g \in Box(<<x, y, z>>) |-> 64 * (((g[1] * g[1] * k + 7 * g[2] + 5 * g[3] * g[2] * k) % 23) - 11)]]

Several == {Field(10, 6, 5, 3), Field(5, 5, 9, 5), Field(8, 4, 4, 2), Field(3, 2, 2, 7)}
===============================================================================
