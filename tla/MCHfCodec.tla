------------------------------ MODULE MCHfCodec ------------------------------
(***************************************************************************)
(* Instances of HfCodec: two complete codes of four quant-codes, cells of  *)
(* four bits, so that codewords lie across cells and fill them exactly.    *)
(* A codec for seven quant-codes in three chunks; fields of one, two and   *)
(* three chunks.                                                           *)
(***************************************************************************)
EXTENDS HfCodec

Steep == [a |-> <<1>>, b |-> <<0, 1>>, c |-> <<0, 0, 1>>, d |-> <<0, 0, 0>>]
Flat  == [a |-> <<1, 1>>, b |-> <<1, 0>>, c |-> <<0, 1>>, d |-> <<0, 0>>]
TwoBooks == {Steep, Flat}

Make(s) == [len |-> Len(s), data |-> [k \in 0 .. Len(s) - 1 |-> s[k + 1]]]
SomeFields ==
  {Make(s) : s \in {<<"a">>, <<"d", "c">>, <<"c", "d", "c">>, <<"c", "a", "c", "b">>,
     <<"b", "d", "d", "d", "a">>, <<"d", "c", "d", "a", "c", "d">>,
     <<"a", "a", "d", "d", "d", "d", "d">>, <<"c", "d", "d", "b", "b", "a", "c">>}}
===============================================================================
