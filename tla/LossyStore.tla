------------------------------ MODULE LossyStore ------------------------------
(***************************************************************************)
(* What a client of core_compress() and core_decompress() relies on: each  *)
(* compression hands out a new archive, nothing it already has changes,    *)
(* and decompressing an archive gives back the field it was made from.     *)
(* (Up to the error bound: a field here is its quantised form.)  Only a    *)
(* field the 4-byte Huffman codec cannot hold may be stored damaged, and   *)
(* the next field after one that could not be stored at all: an exception  *)
(* leaves the object shaken, for one archive at most.                      *)
(***************************************************************************)
CONSTANTS Field,
          Fragile,     \* fields that may be stored damaged
          Unstorable,  \* fields whose compression may end by an exception
          Handle, Nothing, Damaged

VARIABLES store, result,
          shaken       \* a compression has failed, and nothing was made since

Init == store = [h \in Handle |-> Nothing] /\ result = Nothing /\ shaken = FALSE

Put(h, f) ==
  /\ store[h] = Nothing
  /\ \/ store' = [store EXCEPT ![h] = f]
     \/ (f \in Fragile \/ shaken) /\ store' = [store EXCEPT ![h] = Damaged]
  /\ shaken' = FALSE
  /\ UNCHANGED result

Get(h) ==
  /\ store[h] # Nothing
  /\ store[h] # Damaged => result' = store[h]
  /\ result' \in Field \cup {Nothing, Damaged}
  /\ UNCHANGED <<store, shaken>>

\* The caller's output array is taken over for the next decompression.
Reuse == result' = Nothing /\ shaken' = FALSE /\ UNCHANGED store

\* A compression hands out nothing.
Fail == Unstorable # {} /\ shaken' = TRUE /\ UNCHANGED <<store, result>>

\* A call in progress puts in order what a failure had left behind.
Recover == shaken' = FALSE /\ UNCHANGED <<store, result>>

Next == \/ \E h \in Handle : Get(h) \/ \E f \in Field : Put(h, f)
        \/ Reuse \/ Fail \/ Recover

Spec == Init /\ [][Next]_<<store, result, shaken>>
===============================================================================
