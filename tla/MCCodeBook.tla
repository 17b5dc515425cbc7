------------------------------ MODULE MCCodeBook ------------------------------
(***************************************************************************)
(* Instances of CodeBook: six quant-codes, all the lengths a complete code *)
(* of up to six may have, two codebooks one after the other, words of      *)
(* seven bits, so that there are lengths beyond, below and between those   *)
(* that are used.                                                          *)
(***************************************************************************)
EXTENDS CodeBook, Sequences

FromZero(s) == [i \in 0 .. Len(s) - 1 |-> s[i + 1]]

\* A single quant-code gets one bit or two (see Candidates of ParHuffman).
Complete == {FromZero(s) : s \in
  {<<1>>, <<2>>, <<1, 1>>, <<2, 2, 1>>, <<2, 2, 2, 2>>, <<3, 3, 2, 1>>,
   <<3, 3, 2, 2, 2>>, <<3, 3, 3, 3, 1>>, <<4, 4, 3, 2, 1>>,
   <<3, 3, 3, 3, 2, 2>>, <<4, 4, 3, 2, 2, 2>>, <<4, 4, 3, 3, 3, 1>>,
   <<4, 4, 4, 4, 2, 1>>, <<5, 5, 4, 3, 2, 1>>}}

SomeOrders == {FromZero(s) : s \in
  {<<0, 1, 2, 3, 4, 5>>, <<5, 3, 1, 0, 2, 4>>, <<2, 5, 0, 4, 1, 3>>}}
===============================================================================
