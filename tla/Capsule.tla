-------------------------------- MODULE Capsule --------------------------------
(***************************************************************************)
(* A Capsule: a host array and a device array under one length, each of    *)
(* them allocated by the capsule or lent to it.  Calls are chained, so an  *)
(* operator takes what the call before it returned; when a call throws, or *)
(* ends the process because a file does not open, the rest is not made.    *)
(*                                                                         *)
(* An array is what it holds.  Lengths count what is there, whatever it    *)
(* is: only that there is something matters here.                          *)
(***************************************************************************)
EXTENDS Integers

NotSet == [kind |-> "not set"]     \* no pointer
Zeros  == [kind |-> "zeros"]       \* as allocated
Freed  == [kind |-> "freed"]       \* the pointer stays
NoFile == [kind |-> "nothing"]

HOST        == {"host"}
DEVICE      == {"device"}
HOST_DEVICE == HOST \cup DEVICE

Capsule == [len |-> 0, ptr |-> [loc \in HOST_DEVICE |-> NotSet],
            allocation_status |-> [loc \in HOST_DEVICE |-> FALSE], threw |-> FALSE]
hptr(c) == c.ptr["host"]
dptr(c) == c.ptr["device"]

Then(c, ok, d) == IF c.threw THEN c ELSE IF ok THEN d ELSE [c EXCEPT !.threw = TRUE]
Held(c, locs, what) == [c EXCEPT !.ptr = [loc \in HOST_DEVICE |-> IF loc \in locs THEN what ELSE @[loc]]]
Allocated(c, locs, is) ==
  [c EXCEPT !.allocation_status = [loc \in HOST_DEVICE |-> IF loc \in locs THEN is ELSE @[loc]]]

set_len(c, len)   == Then(c, TRUE, [c EXCEPT !.len = len])
set(c, locs, ptr) == Then(c, TRUE, Held(c, locs, ptr))

\* Of what is allocated already, a second allocation only warns.
alloc(c, locs) ==
  LET New == {loc \in locs : ~c.allocation_status[loc]}
  IN  Then(c, TRUE, Allocated(Held(c, New, Zeros), New, TRUE))

\* What is freed need not have been allocated here.
free(c, locs) ==
  Then(c, \A loc \in locs : c.ptr[loc] # NotSet, Allocated(Held(c, locs, Freed), locs, FALSE))

from_file(c, file) ==
  Then(c, hptr(c) # NotSet /\ c.len > 0 /\ file # NoFile, Held(c, HOST, file))
\* What is written is then hptr.
to_file(c) == Then(c, hptr(c) # NotSet, c)

\* A copy from or to where there is nothing fails, and nobody looks.
Copied(c, from, to) ==
  IF NotSet \in {c.ptr[from], c.ptr[to]} THEN c ELSE Held(c, {to}, c.ptr[from])
host2device(c) == Then(c, TRUE, Copied(c, "host", "device"))
device2host(c) == Then(c, TRUE, Copied(c, "device", "host"))
================================================================================
