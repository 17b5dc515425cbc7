---------------------------------- MODULE PN ----------------------------------
(***************************************************************************)
(* Zigzag coding, pn.hh: an integer of w bits as an unsigned code of w     *)
(* bits, the sign in the least bit, so that small differences of either    *)
(* sign get small codes.  Half is 2^(w-1).  The exclusive-or of the code   *)
(* with an arithmetic shift is a complement for a negative integer, and    *)
(* nothing for another.                                                    *)
(***************************************************************************)
EXTENDS Integers

CONSTANT Half                \* 2^(w-1), for codes of w bits

ASSUME HalfAssumption == Half \in Nat \ {0}

I  == -Half .. Half - 1
UI == 0 .. 2 * Half - 1

\* An integer's low w bits.
ToUI(v) == IF v < 0 THEN v + 2 * Half ELSE v

\* (2 * x) ^ (x >> (w - 1)), and (u >> 1) ^ -(u & 1).
encode(x) == IF x < 0 THEN 2 * Half - 1 - ToUI(2 * x) ELSE ToUI(2 * x)
decode(u) == IF u % 2 = 1 THEN -(u \div 2) - 1 ELSE u \div 2
===============================================================================
