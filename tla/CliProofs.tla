------------------------------- MODULE CliProofs -------------------------------
(***************************************************************************)
(* Theorems about the command and its archives: for every set of files, of *)
(* command lines and of calls of the C API, and whatever the encoders make *)
(* of a field.                                                             *)
(***************************************************************************)
EXTENDS Cli, NatLemmas, FiniteSetTheorems, SequenceTheorems

-----------------------------------------------------------------------------
(* Sequences.                                                               *)

IsSeqOf(s, m) == m \in Nat /\ s = [k \in 1 .. m |-> s[k]]

Concats(u, s, t, m, n) ==
  /\ IsSeqOf(u, m + n)
  /\ (\A k \in 1 .. m : u[k] = s[k]) /\ \A k \in 1 .. n : u[m + k] = t[k]

(* One sequence behind another: where each member is.                       *)
LEMMA ConcatAt ==
  ASSUME NEW s, NEW t, NEW m, NEW n, IsSeqOf(s, m), IsSeqOf(t, n)
  PROVE  Concats(s \o t, s, t, m, n)
<1>0. m \in Nat /\ n \in Nat /\ s = [k \in 1 .. m |-> s[k]] /\ t = [k \in 1 .. n |-> t[k]]
  BY DEF IsSeqOf
<1> DEFINE X == {s[k] : k \in 1 .. m} \cup {t[k] : k \in 1 .. n}
<1>1. (\A k \in 1 .. m : s[k] \in X) /\ (\A k \in 1 .. n : t[k] \in X)
  OBVIOUS
<1> HIDE DEF X
<1>2. s \in Seq(X) /\ Len(s) = m
  BY <1>0, <1>1
<1>3. t \in Seq(X) /\ Len(t) = n
  BY <1>0, <1>1
<1>4. s \o t \in Seq(X) /\ Len(s \o t) = m + n
  BY <1>2, <1>3
<1>5. s \o t = [k \in 1 .. m + n |-> (s \o t)[k]]
  BY <1>0, <1>4
<1>6. \A k \in 1 .. m : (s \o t)[k] = s[k]
  BY <1>0, <1>2, <1>3
<1>7. \A k \in 1 .. n : (s \o t)[m + k] = t[k]
  BY <1>0, <1>2, <1>3
<1> QED
  BY <1>0, <1>5, <1>6, <1>7 DEF IsSeqOf, Concats

LEMMA NatMembers ==
  ASSUME NEW s \in Seq(Nat), NEW m, Len(s) = m
  PROVE  m \in Nat /\ \A k \in 1 .. m : s[k] \in Nat
<1>1. m \in Nat
  OBVIOUS
<1>2. ASSUME NEW k \in 1 .. Len(s) PROVE s[k] \in Nat
  OBVIOUS
<1> QED
  BY <1>1, <1>2

LEMMA OneMember ==
  ASSUME NEW x
  PROVE  IsSeqOf(<<x>>, 1) /\ <<x>>[1] = x
BY DEF IsSeqOf

-----------------------------------------------------------------------------
(* The layout of an archive.                                                *)

\* e is where parts of these sizes start, and where the last ends.
Starts(e, s, m) ==
  /\ IsSeqOf(e, m + 1) /\ (\A k \in 1 .. m + 1 : e[k] \in Nat)
  /\ e[1] = 0 /\ \A k \in 1 .. m : e[k + 1] = e[k] + s[k]

(* The entries of a header are the sums of the sizes before.                *)
LEMMA EntriesStart ==
  ASSUME NEW s, NEW m \in Nat, s \in Seq(Nat), Len(s) = m
  PROVE  Starts(Entries(s), s, m)
<1> DEFINE g == [k \in 1 .. m |-> s[k]]
<1>1. g \in [1 .. m -> Nat] /\ \A k \in 1 .. m : g[k] = s[k]
  OBVIOUS
<1> HIDE DEF g
<1>2. PICK f : Recurs(f, m, 1, 0, g)
  BY <1>1, Recurrence, SMTT(30)
<1>3. f \in [0 .. m -> Nat] /\ f[0] = 0 /\ \A k \in 1 .. m : f[k] = f[k - 1] + s[k]
  BY <1>1, <1>2 DEF Recurs
<1> DEFINE h == [k \in 1 .. m + 1 |-> f[k - 1]]
           E == CHOOSE E : E = [k \in 1 .. Len(s) + 1 |-> IF k = 1 THEN 0 ELSE E[k - 1] + s[k - 1]]
<1>4. h = [k \in 1 .. Len(s) + 1 |-> IF k = 1 THEN 0 ELSE h[k - 1] + s[k - 1]]
  <2>1. ASSUME NEW k \in 1 .. m + 1 PROVE h[k] = IF k = 1 THEN 0 ELSE h[k - 1] + s[k - 1]
    <3>1. CASE k = 1
      BY <1>3, <3>1
    <3>2. CASE k # 1
      <4>1. k - 1 \in 1 .. m /\ k - 1 \in 1 .. m + 1
        BY <3>2
      <4> QED
        BY <1>3, <3>2, <4>1
    <3> QED
      BY <3>1, <3>2
  <2> QED
    BY <2>1
<1> HIDE DEF h
<1>5. E = [k \in 1 .. Len(s) + 1 |-> IF k = 1 THEN 0 ELSE E[k - 1] + s[k - 1]]
  BY <1>4, Zenon
<1>6. Entries(s) = E
  BY DEF Entries
<1> HIDE DEF E
<1>7. E[1] = 0 /\ \A k \in 1 .. m : E[k + 1] = E[k] + s[k]
  <2>1. E[1] = 0
    BY <1>5
  <2>2. ASSUME NEW k \in 1 .. m PROVE E[k + 1] = E[k] + s[k]
    <3>1. k + 1 \in 1 .. Len(s) + 1 /\ k + 1 # 1 /\ (k + 1) - 1 = k
      OBVIOUS
    <3> QED
      BY <1>5, <3>1
  <2> QED
    BY <2>1, <2>2
<1>8. \A k \in 1 .. m + 1 : E[k] \in Nat
  <2> DEFINE B == {k \in 1 .. m + 1 : E[k] \notin Nat}
  <2>1. SUFFICES ASSUME B # {} PROVE FALSE
    OBVIOUS
  <2>2. B \in SUBSET Nat
    OBVIOUS
  <2>3. PICK k \in B : \A j \in B : k <= j
    BY <2>1, <2>2, Least
  <2>4. k \in 1 .. m + 1 /\ E[k] \notin Nat
    BY <2>3
  <2>5. k # 1
    BY <1>7, <2>4
  <2>6. k - 1 \in 1 .. m /\ k - 1 \notin B
    BY <2>3, <2>4, <2>5
  <2>7. E[k - 1] \in Nat /\ E[k] = E[k - 1] + s[k - 1] /\ s[k - 1] \in Nat
    BY <1>7, <2>6
  <2> QED
    BY <2>4, <2>7
<1>9. IsSeqOf(E, m + 1)
  BY <1>5 DEF IsSeqOf
<1> QED
  BY <1>6, <1>7, <1>8, <1>9 DEF Starts

\* The numbers of a compression.
Counted(a) == {a.w, a.len, a.booklen, a.pardeg, a.ncell, a.nnz} \subseteq Nat

(* The sizes of the parts are numbers, and so are the places.               *)
LEMMA HfPlaces ==
  ASSUME NEW a, Counted(a)
  PROVE  /\ Starts(Entries(HfParts(a)), HfParts(a), 5) /\ Len(HfParts(a)) = 5
         /\ (\A k \in 1 .. 5 : HfParts(a)[k] \in Nat) /\ HfParts(a)[1] = 128
<1>1. a.w \in Nat /\ a.booklen \in Nat /\ a.pardeg \in Nat /\ a.ncell \in Nat
  BY DEF Counted
<1>2. get_revbook_nbyte(a.w, a.booklen) \in Nat
  <2>1. 2 * 8 * a.w \in Nat
    BY <1>1
  <2>2. a.w * (2 * 8 * a.w) \in Nat
    BY <1>1, <2>1
  <2> QED
    BY <1>1, <2>2 DEF get_revbook_nbyte
<1>3. 4 * a.pardeg \in Nat /\ a.w * a.ncell \in Nat
  BY <1>1
<1>4. HfParts(a) \in Seq(Nat) /\ Len(HfParts(a)) = 5 /\ HfParts(a)[1] = 128
  BY <1>2, <1>3 DEF HfParts, HEADER
<1> DEFINE p == HfParts(a)
<1> HIDE DEF p
<1>5. p \in Seq(Nat) /\ Len(p) = 5
  BY <1>4 DEF p
<1>6. (\A k \in 1 .. 5 : p[k] \in Nat) /\ 5 \in Nat
  BY <1>5, NatMembers
<1>7. Starts(Entries(p), p, 5)
  BY <1>5, <1>6, EntriesStart
<1> QED
  BY <1>4, <1>6, <1>7 DEF p

LEMMA SpPlaces ==
  ASSUME NEW a, Counted(a)
  PROVE  /\ Starts(Entries(SpParts(a)), SpParts(a), 3) /\ Len(SpParts(a)) = 3
         /\ (\A k \in 1 .. 3 : SpParts(a)[k] \in Nat) /\ SpParts(a)[1] = 128
<1>1. a.nnz \in Nat
  BY DEF Counted
<1>4. SpParts(a) \in Seq(Nat) /\ Len(SpParts(a)) = 3 /\ SpParts(a)[1] = 128
  BY <1>1 DEF SpParts, HEADER
<1> DEFINE p == SpParts(a)
<1> HIDE DEF p
<1>5. p \in Seq(Nat) /\ Len(p) = 3
  BY <1>4 DEF p
<1>6. (\A k \in 1 .. 3 : p[k] \in Nat) /\ 3 \in Nat
  BY <1>5, NatMembers
<1>7. Starts(Entries(p), p, 3)
  BY <1>5, <1>6, EntriesStart
<1> QED
  BY <1>4, <1>6, <1>7 DEF p

\* The places of parts, one by one.
Places5(e, s) ==
  /\ e[1] = 0 /\ e[2] = e[1] + s[1] /\ e[3] = e[2] + s[2] /\ e[4] = e[3] + s[3]
  /\ e[5] = e[4] + s[4] /\ e[6] = e[5] + s[5]
  /\ e[1] \in Nat /\ e[2] \in Nat /\ e[3] \in Nat /\ e[4] \in Nat /\ e[5] \in Nat /\ e[6] \in Nat
Places3(e, s) ==
  /\ e[1] = 0 /\ e[2] = e[1] + s[1] /\ e[3] = e[2] + s[2] /\ e[4] = e[3] + s[3]
  /\ e[1] \in Nat /\ e[2] \in Nat /\ e[3] \in Nat /\ e[4] \in Nat

LEMMA StartsPlaces ==
  ASSUME NEW e, NEW s
  PROVE  /\ Starts(e, s, 5) => Places5(e, s)
         /\ Starts(e, s, 3) => Places3(e, s)
BY DEF Starts, Places5, Places3

(* The compressor's own header puts the Huffman subfile at 128, behind it   *)
(* the sparse one, and there is nothing else.                               *)
LEMMA CuszPlaces ==
  ASSUME NEW a, Counted(a)
  PROVE  /\ Starts(Entries(CuszParts(a)), CuszParts(a), 4)
         /\ CuszParts(a)[3] = Entries(HfParts(a))[6] /\ CuszParts(a)[4] = Entries(SpParts(a))[4]
         /\ Entries(CuszParts(a))[3] = 128
         /\ Entries(CuszParts(a))[4] = 128 + Entries(HfParts(a))[6]
<1> DEFINE h == Entries(HfParts(a))
           s == Entries(SpParts(a))
           e == Entries(CuszParts(a))
<1>1. Starts(h, HfParts(a), 5) /\ Starts(s, SpParts(a), 3)
  BY HfPlaces, SpPlaces
<1>2. IsSeqOf(h, 6) /\ h[6] \in Nat /\ IsSeqOf(s, 4) /\ s[4] \in Nat
  BY <1>1, StartsPlaces DEF Starts, Places5, Places3
<1>3. Last(h) = h[6] /\ Last(s) = s[4]
  BY <1>2 DEF Last, IsSeqOf
<1>4. CuszParts(a) = <<128, 0, h[6], s[4]>>
  BY <1>3 DEF CuszParts, HEADER
<1> HIDE DEF h, s
<1>5. CuszParts(a) \in Seq(Nat) /\ Len(CuszParts(a)) = 4
  BY <1>2, <1>4
<1>6. Starts(e, CuszParts(a), 4)
  BY <1>5, EntriesStart
<1>7. e[2] = e[1] + CuszParts(a)[1] /\ e[1] = 0 /\ e[3] = e[2] + CuszParts(a)[2] /\ e[4] = e[3] + CuszParts(a)[3]
  BY <1>6 DEF Starts
<1>8. e[3] = 128 /\ e[4] = 128 + h[6]
  BY <1>2, <1>4, <1>7
<1> QED
  BY <1>4, <1>6, <1>8 DEF h, s

-----------------------------------------------------------------------------
(* The writes an archive is made of.                                        *)

\* What is written behind the header of a subfile that begins at "at".
PartsAt(buf, from, at, parts, names, e, m) ==
  \A k \in 1 .. m : buf[from + k] = [at |-> at + e[k + 1], n |-> parts[k + 1], what |-> Part(names[k + 1])]

\* A subfile before it is copied into the archive.
HfWrites(a, buf) ==
  /\ IsSeqOf(buf, 6)
  /\ buf[1] = [at |-> 0, n |-> a.w * a.len, what |-> Part("tmp")]
  /\ buf[2] = [at |-> 0, n |-> 64, what |-> [part |-> "hf", entry |-> Entries(HfParts(a))]]
  /\ PartsAt(buf, 2, 0, HfParts(a), HfNames, Entries(HfParts(a)), 4)
SpWrites(a, buf) ==
  /\ IsSeqOf(buf, 3)
  /\ buf[1] = [at |-> 0, n |-> 40, what |-> [part |-> "sp", entry |-> Entries(SpParts(a))]]
  /\ PartsAt(buf, 1, 0, SpParts(a), SpNames, Entries(SpParts(a)), 2)

BehindIs(b, nbyte, names, e, m) ==
  /\ IsSeqOf(b, m)
  /\ \A k \in 1 .. m : b[k] = [at |-> e[k + 1], n |-> nbyte[k + 1], what |-> Part(names[k + 1])]

LEMMA BehindAt ==
  ASSUME NEW nbyte, NEW names, NEW e, NEW m \in Nat, Len(nbyte) = m + 1
  PROVE  BehindIs(Behind(nbyte, names, e), nbyte, names, e, m)
<1>1. (m + 1) - 1 = m
  OBVIOUS
<1> QED
  BY <1>1 DEF Behind, BehindIs, IsSeqOf

LEMMA HfSubfileIs ==
  ASSUME NEW a, Counted(a)
  PROVE  HfWrites(a, HfSubfile(a))
<1> DEFINE h == Entries(HfParts(a))
           x == [at |-> 0, n |-> a.w * a.len, what |-> Part("tmp")]
           y == [at |-> 0, n |-> 64, what |-> [part |-> "hf", entry |-> h]]
           b == Behind(HfParts(a), HfNames, h)
<1>1. HfSubfile(a) = (<<x>> \o <<y>>) \o b
  BY DEF HfSubfile, Write, HfHeader
<1>2. Len(HfParts(a)) = 5 /\ Starts(h, HfParts(a), 5)
  BY HfPlaces
<1>3. BehindIs(b, HfParts(a), HfNames, h, 4)
  <2>1. Len(HfParts(a)) = 4 + 1
    BY <1>2
  <2> QED
    BY <2>1, BehindAt
<1>4. \A k \in 1 .. 4 : 0 + h[k + 1] = h[k + 1]
  BY <1>2 DEF Starts
<1> HIDE DEF x, y, b, h
<1>5. IsSeqOf(<<x>>, 1) /\ IsSeqOf(<<y>>, 1) /\ <<x>>[1] = x /\ <<y>>[1] = y
  BY OneMember
<1>6. Concats(<<x>> \o <<y>>, <<x>>, <<y>>, 1, 1)
  BY <1>5, ConcatAt
<1> DEFINE xy == <<x>> \o <<y>>
<1>7. IsSeqOf(xy, 2) /\ xy[1] = x /\ xy[2] = y
  BY <1>5, <1>6 DEF Concats
<1> HIDE DEF xy
<1>8. Concats(xy \o b, xy, b, 2, 4)
  <2>1. IsSeqOf(b, 4)
    BY <1>3 DEF BehindIs
  <2> QED
    BY <1>7, <2>1, ConcatAt
<1>9. HfSubfile(a) = xy \o b
  BY <1>1 DEF xy
<1>10. IsSeqOf(HfSubfile(a), 6) /\ HfSubfile(a)[1] = x /\ HfSubfile(a)[2] = y
  <2>1. IsSeqOf(xy \o b, 6)
    BY <1>8 DEF Concats
  <2>2. (xy \o b)[1] = xy[1] /\ (xy \o b)[2] = xy[2]
    <3>1. \A k \in 1 .. 2 : (xy \o b)[k] = xy[k]
      BY <1>8 DEF Concats
    <3>2. 1 \in 1 .. 2 /\ 2 \in 1 .. 2
      OBVIOUS
    <3> QED
      BY <3>1, <3>2, Zenon
  <2> QED
    BY <1>7, <1>9, <2>1, <2>2, Zenon
<1>11. PartsAt(HfSubfile(a), 2, 0, HfParts(a), HfNames, h, 4)
  BY <1>3, <1>4, <1>8, <1>9, ZenonT(60) DEF PartsAt, Concats, BehindIs
<1> QED
  BY <1>10, <1>11 DEF HfWrites, x, y, h

LEMMA SpSubfileIs ==
  ASSUME NEW a, Counted(a)
  PROVE  SpWrites(a, SpSubfile(a))
<1> DEFINE s == Entries(SpParts(a))
           y == [at |-> 0, n |-> 40, what |-> [part |-> "sp", entry |-> s]]
           b == Behind(SpParts(a), SpNames, s)
<1>1. SpSubfile(a) = <<y>> \o b
  BY DEF SpSubfile, Write, SpHeader
<1>2. Len(SpParts(a)) = 3 /\ Starts(s, SpParts(a), 3)
  BY SpPlaces
<1>3. BehindIs(b, SpParts(a), SpNames, s, 2)
  <2>1. Len(SpParts(a)) = 2 + 1
    BY <1>2
  <2> QED
    BY <2>1, BehindAt
<1>4. \A k \in 1 .. 2 : 0 + s[k + 1] = s[k + 1]
  BY <1>2 DEF Starts
<1> HIDE DEF y, b, s
<1>5. IsSeqOf(<<y>>, 1) /\ <<y>>[1] = y
  BY OneMember
<1>8. Concats(<<y>> \o b, <<y>>, b, 1, 2)
  <2>1. IsSeqOf(b, 2)
    BY <1>3 DEF BehindIs
  <2> QED
    BY <1>5, <2>1, ConcatAt
<1>10. IsSeqOf(SpSubfile(a), 3) /\ SpSubfile(a)[1] = y
  BY <1>1, <1>5, <1>8 DEF Concats
<1>11. PartsAt(SpSubfile(a), 1, 0, SpParts(a), SpNames, s, 2)
  BY <1>1, <1>3, <1>4, <1>8, ZenonT(60) DEF PartsAt, Concats, BehindIs
<1> QED
  BY <1>10, <1>11 DEF SpWrites, y, s

\* What an archive holds: its header, the Huffman subfile behind it, over which what
\* the codec left in its buffer was copied first, and the sparse subfile.
Collected(a, buf) ==
  /\ IsSeqOf(buf, 10)
  /\ buf[1] = [at |-> 0, n |-> 128, what |-> [part |-> "cusz", entry |-> Entries(CuszParts(a))]]
  /\ buf[2].at = 128 /\ buf[2].n \in Nat /\ buf[2].what = Part("tmp")
  /\ buf[3] = [at |-> 128, n |-> 64, what |-> [part |-> "hf", entry |-> Entries(HfParts(a))]]
  /\ PartsAt(buf, 3, 128, HfParts(a), HfNames, Entries(HfParts(a)), 4)
  /\ buf[8] = [at |-> 128 + Entries(HfParts(a))[6], n |-> 40, what |-> [part |-> "sp", entry |-> Entries(SpParts(a))]]
  /\ PartsAt(buf, 8, 128 + Entries(HfParts(a))[6], SpParts(a), SpNames, Entries(SpParts(a)), 2)

IsWrite(w, at, n, what) == w = [at |-> at, n |-> n, what |-> what]

\* A copy of a subfile, each write at its place and whole.
Moved(b, src, n, at, m) ==
  /\ IsSeqOf(b, m)
  /\ \A k \in 1 .. m : b[k] = [src[k] EXCEPT !.at = src[k].at + at,
                                 !.n = IF src[k].at >= n THEN 0 ELSE IF src[k].at + src[k].n > n THEN n - src[k].at
                                       ELSE src[k].n]

LEMMA CopyMoves ==
  ASSUME NEW src, NEW m, IsSeqOf(src, m), NEW n, NEW at
  PROVE  Moved(Copy(src, n, at), src, n, at, m)
<1>1. m \in Nat /\ DOMAIN src = 1 .. m
  BY DEF IsSeqOf
<1> QED
  BY <1>1 DEF Copy, Moved, IsSeqOf

LEMMA WriteMoved ==
  ASSUME NEW w, NEW p, NEW l, NEW what, NEW x, NEW y, IsWrite(w, p, l, what)
  PROVE  IsWrite([w EXCEPT !.at = x, !.n = y], x, y, what)
<1> DEFINE X == {p, l, what, x, y}
           r == [w EXCEPT !.at = x, !.n = y]
<1>1. p \in X /\ l \in X /\ what \in X /\ x \in X /\ y \in X
  OBVIOUS
<1> HIDE DEF X
<1>2. w \in [at : X, n : X, what : X] /\ w.what = what
  BY <1>1 DEF IsWrite
<1>3. r \in [at : X, n : X, what : X]
  BY <1>1, <1>2
<1>4. r.at = x /\ r.n = y /\ r.what = what
  BY <1>2
<1> HIDE DEF r
<1>5. r = [at |-> x, n |-> y, what |-> what]
  BY <1>3, <1>4
<1> QED
  BY <1>5 DEF r, IsWrite

(* A write that ends within what is copied is moved and nothing else.       *)
LEMMA WholeMoves ==
  ASSUME NEW b, NEW src, NEW n \in Nat, NEW at \in Nat, NEW m, Moved(b, src, n, at, m),
         NEW k \in 1 .. m, NEW p \in Nat, NEW l \in Nat, NEW what,
         IsWrite(src[k], p, l, what), p + l <= n
  PROVE  IsWrite(b[k], at + p, l, what)
<1>0. src[k] = [at |-> p, n |-> l, what |-> what]
  BY DEF IsWrite
<1>1. src[k].at = p /\ src[k].n = l
  BY <1>0
<1>2. (IF src[k].at >= n THEN 0 ELSE IF src[k].at + src[k].n > n THEN n - src[k].at ELSE src[k].n) = l
  BY <1>1
<1>3. src[k].at + at = at + p
  BY <1>1
<1>4. b[k] = [src[k] EXCEPT !.at = src[k].at + at,
                !.n = IF src[k].at >= n THEN 0 ELSE IF src[k].at + src[k].n > n THEN n - src[k].at ELSE src[k].n]
  BY Zenon DEF Moved
<1>5. b[k] = [src[k] EXCEPT !.at = at + p, !.n = l]
  BY <1>2, <1>3, <1>4, Zenon
<1> DEFINE x == at + p
<1> HIDE DEF x
<1>6. IsWrite([src[k] EXCEPT !.at = x, !.n = l], x, l, what)
  BY WriteMoved
<1>7. b[k] = [src[k] EXCEPT !.at = x, !.n = l]
  BY <1>5 DEF x
<1> QED
  BY <1>6, <1>7 DEF x

(* The parts of a subfile end where its last entry says.                    *)
LEMMA Within5 ==
  ASSUME NEW e, NEW s, Places5(e, s), \A k \in 1 .. 5 : s[k] \in Nat
  PROVE  \A k \in 1 .. 5 : e[k] \in Nat /\ e[k] + s[k] <= e[6]
<1>1. s[1] \in Nat /\ s[2] \in Nat /\ s[3] \in Nat /\ s[4] \in Nat /\ s[5] \in Nat
  OBVIOUS
<1>2. ASSUME NEW k \in 1 .. 5 PROVE k = 1 \/ k = 2 \/ k = 3 \/ k = 4 \/ k = 5
  OBVIOUS
<1>3. /\ e[1] \in Nat /\ e[1] + s[1] <= e[6] /\ e[2] \in Nat /\ e[2] + s[2] <= e[6]
      /\ e[3] \in Nat /\ e[3] + s[3] <= e[6] /\ e[4] \in Nat /\ e[4] + s[4] <= e[6]
      /\ e[5] \in Nat /\ e[5] + s[5] <= e[6]
  BY <1>1 DEF Places5
<1> QED
  BY <1>2, <1>3

LEMMA Within3 ==
  ASSUME NEW e, NEW s, Places3(e, s), \A k \in 1 .. 3 : s[k] \in Nat
  PROVE  \A k \in 1 .. 3 : e[k] \in Nat /\ e[k] + s[k] <= e[4]
<1>1. s[1] \in Nat /\ s[2] \in Nat /\ s[3] \in Nat
  OBVIOUS
<1>2. ASSUME NEW k \in 1 .. 3 PROVE k = 1 \/ k = 2 \/ k = 3
  OBVIOUS
<1>3. /\ e[1] \in Nat /\ e[1] + s[1] <= e[4] /\ e[2] \in Nat /\ e[2] + s[2] <= e[4]
      /\ e[3] \in Nat /\ e[3] + s[3] <= e[4]
  BY <1>1 DEF Places3
<1> QED
  BY <1>2, <1>3

(* The parts behind a header, moved.                                        *)
LEMMA PartsMove ==
  ASSUME NEW b, NEW src, NEW n \in Nat, NEW at \in Nat, NEW m \in Nat, NEW from \in Nat, NEW o, o = from + m,
         Moved(b, src, n, at, o),
         NEW parts, NEW names, NEW e, PartsAt(src, from, 0, parts, names, e, m),
         \A k \in 1 .. m : e[k + 1] \in Nat /\ parts[k + 1] \in Nat /\ e[k + 1] + parts[k + 1] <= n
  PROVE  PartsAt(b, from, at, parts, names, e, m)
<1>1. SUFFICES ASSUME NEW k \in 1 .. m
               PROVE  b[from + k] = [at |-> at + e[k + 1], n |-> parts[k + 1], what |-> Part(names[k + 1])]
  BY DEF PartsAt
<1>2. e[k + 1] \in Nat /\ parts[k + 1] \in Nat /\ e[k + 1] + parts[k + 1] <= n
  OBVIOUS
<1>3. src[from + k] = [at |-> e[k + 1], n |-> parts[k + 1], what |-> Part(names[k + 1])]
  BY <1>2 DEF PartsAt
<1>4. from + k \in 1 .. from + m
  OBVIOUS
<1> DEFINE what == Part(names[k + 1])
           j == from + k
           p == e[k + 1]
           l == parts[k + 1]
<1>5. p \in Nat /\ l \in Nat /\ p + l <= n /\ j \in 1 .. o /\ IsWrite(src[j], p, l, what) /\ Moved(b, src, n, at, o)
  BY <1>2, <1>3, <1>4 DEF IsWrite
<1> HIDE DEF what, j, p, l
<1>6. IsWrite(b[j], at + p, l, what)
  BY <1>5, WholeMoves
<1> QED
  BY <1>6 DEF what, j, p, l, IsWrite

\* The Huffman subfile in the archive, and the sparse one.
HfMoved(a, b) ==
  /\ IsSeqOf(b, 6)
  /\ b[1].at = 128 /\ b[1].n \in Nat /\ b[1].what = Part("tmp")
  /\ b[2] = [at |-> 128, n |-> 64, what |-> [part |-> "hf", entry |-> Entries(HfParts(a))]]
  /\ PartsAt(b, 2, 128, HfParts(a), HfNames, Entries(HfParts(a)), 4)
SpMoved(a, b, at) ==
  /\ IsSeqOf(b, 3)
  /\ b[1] = [at |-> at, n |-> 40, what |-> [part |-> "sp", entry |-> Entries(SpParts(a))]]
  /\ PartsAt(b, 1, at, SpParts(a), SpNames, Entries(SpParts(a)), 2)

LEMMA HfMoves ==
  ASSUME NEW a, Counted(a)
  PROVE  HfMoved(a, Copy(HfSubfile(a), Entries(HfParts(a))[6], 128))
<1> DEFINE h == Entries(HfParts(a))
           p == HfParts(a)
           src == HfSubfile(a)
           H == h[6]
           b == Copy(src, H, 128)
           hdr == [part |-> "hf", entry |-> h]
<1>1. Starts(h, p, 5) /\ p[1] = 128 /\ \A k \in 1 .. 5 : p[k] \in Nat
  BY HfPlaces
<1>2. Places5(h, p)
  BY <1>1, StartsPlaces
<1>3. \A k \in 1 .. 5 : h[k] \in Nat /\ p[k] \in Nat /\ h[k] + p[k] <= H
  BY <1>1, <1>2, Within5
<1>4. H \in Nat /\ H >= 128
  <2>1. h[1] = 0 /\ h[1] + p[1] <= H /\ H \in Nat
    BY <1>2, <1>3 DEF Places5
  <2> QED
    BY <1>1, <2>1
<1>5. HfWrites(a, src)
  BY HfSubfileIs
<1> HIDE DEF h, p, src, H, b, hdr
<1>6. /\ IsSeqOf(src, 6) /\ IsWrite(src[1], 0, a.w * a.len, Part("tmp")) /\ IsWrite(src[2], 0, 64, hdr)
      /\ PartsAt(src, 2, 0, p, HfNames, h, 4)
  BY <1>5 DEF HfWrites, IsWrite, h, p, hdr
<1>7. Moved(b, src, H, 128, 6)
  BY <1>6, CopyMoves DEF b
<1>8. IsSeqOf(b, 6)
  BY <1>7 DEF Moved
<1>9. b[1].at = 128 /\ b[1].n \in Nat /\ b[1].what = Part("tmp")
  <2> DEFINE l == a.w * a.len
             m == IF src[1].at >= H THEN 0 ELSE IF src[1].at + src[1].n > H THEN H - src[1].at ELSE src[1].n
  <2>1. l \in Nat
    BY DEF Counted
  <2>2. src[1] = [at |-> 0, n |-> l, what |-> Part("tmp")]
    BY <1>6 DEF IsWrite
  <2> HIDE DEF l
  <2>3. m \in Nat /\ src[1].at + 128 = 128
    BY <1>4, <2>1, <2>2
  <2>4. b[1] = [src[1] EXCEPT !.at = src[1].at + 128, !.n = m]
    <3>1. 1 \in 1 .. 6
      OBVIOUS
    <3> QED
      BY <1>7, <3>1, Zenon DEF Moved
  <2> HIDE DEF m
  <2>5. b[1] = [src[1] EXCEPT !.at = 128, !.n = m]
    BY <2>3, <2>4
  <2>6. IsWrite(src[1], 0, l, Part("tmp"))
    BY <2>2 DEF IsWrite
  <2>7. IsWrite([src[1] EXCEPT !.at = 128, !.n = m], 128, m, Part("tmp"))
    BY <2>6, WriteMoved
  <2>8. IsWrite(b[1], 128, m, Part("tmp"))
    BY <2>5, <2>7, Zenon
  <2>9. b[1].at = 128 /\ b[1].n = m /\ b[1].what = Part("tmp")
    BY <2>8 DEF IsWrite
  <2> QED
    BY <2>3, <2>9
<1>10. IsWrite(b[2], 128, 64, hdr)
  <2>1. 2 \in 1 .. 6 /\ 0 + 64 <= H /\ 0 \in Nat /\ 64 \in Nat /\ 128 \in Nat
    BY <1>4
  <2>2. IsWrite(b[2], 128 + 0, 64, hdr)
    BY <1>4, <1>6, <1>7, <2>1, WholeMoves
  <2> QED
    BY <2>2
<1>11. PartsAt(b, 2, 128, p, HfNames, h, 4)
  <2>1. 2 + 4 = 6 /\ 2 \in Nat /\ 4 \in Nat /\ 128 \in Nat
    OBVIOUS
  <2>2. \A k \in 1 .. 4 : h[k + 1] \in Nat /\ p[k + 1] \in Nat /\ h[k + 1] + p[k + 1] <= H
    BY <1>3
  <2> QED
    BY <1>4, <1>6, <1>7, <2>1, <2>2, PartsMove, ZenonT(90)
<1> QED
  BY <1>8, <1>9, <1>10, <1>11 DEF HfMoved, IsWrite, h, p, b, hdr, src, H

LEMMA SpMoves ==
  ASSUME NEW a, Counted(a), NEW at \in Nat
  PROVE  SpMoved(a, Copy(SpSubfile(a), Entries(SpParts(a))[4], at), at)
<1> DEFINE h == Entries(SpParts(a))
           p == SpParts(a)
           src == SpSubfile(a)
           H == h[4]
           b == Copy(src, H, at)
           hdr == [part |-> "sp", entry |-> h]
<1>1. Starts(h, p, 3) /\ p[1] = 128 /\ \A k \in 1 .. 3 : p[k] \in Nat
  BY SpPlaces
<1>2. Places3(h, p)
  BY <1>1, StartsPlaces
<1>3. \A k \in 1 .. 3 : h[k] \in Nat /\ p[k] \in Nat /\ h[k] + p[k] <= H
  BY <1>1, <1>2, Within3
<1>4. H \in Nat /\ H >= 128
  <2>1. h[1] = 0 /\ h[1] + p[1] <= H /\ H \in Nat
    BY <1>2, <1>3 DEF Places3
  <2> QED
    BY <1>1, <2>1
<1>5. SpWrites(a, src)
  BY SpSubfileIs
<1> HIDE DEF h, p, src, H, b, hdr
<1>6. /\ IsSeqOf(src, 3) /\ IsWrite(src[1], 0, 40, hdr)
      /\ PartsAt(src, 1, 0, p, SpNames, h, 2)
  BY <1>5 DEF SpWrites, IsWrite, h, p, hdr
<1>7. Moved(b, src, H, at, 3)
  BY <1>6, CopyMoves DEF b
<1>8. IsSeqOf(b, 3)
  BY <1>7 DEF Moved
<1>10. IsWrite(b[1], at, 40, hdr)
  <2>1. 1 \in 1 .. 3 /\ 0 + 40 <= H /\ 0 \in Nat /\ 40 \in Nat
    BY <1>4
  <2>2. IsWrite(b[1], at + 0, 40, hdr)
    BY <1>4, <1>6, <1>7, <2>1, WholeMoves
  <2> QED
    BY <2>2
<1>11. PartsAt(b, 1, at, p, SpNames, h, 2)
  <2>1. 1 + 2 = 3 /\ 1 \in Nat /\ 2 \in Nat
    OBVIOUS
  <2>2. \A k \in 1 .. 2 : h[k + 1] \in Nat /\ p[k + 1] \in Nat /\ h[k + 1] + p[k + 1] <= H
    BY <1>3
  <2> QED
    BY <1>4, <1>6, <1>7, <2>1, <2>2, PartsMove, ZenonT(90)
<1> QED
  BY <1>8, <1>10, <1>11 DEF SpMoved, IsWrite, h, p, b, hdr, src, H

(* The parts of a sequence of writes that another follows or precedes.      *)
LEMMA PartsBefore ==
  ASSUME NEW u, NEW s, NEW t, NEW m \in Nat, NEW n, Concats(u, s, t, m, n), NEW from \in Nat, NEW k \in Nat, from + k <= m,
         NEW at, NEW parts, NEW names, NEW e, PartsAt(s, from, at, parts, names, e, k)
  PROVE  PartsAt(u, from, at, parts, names, e, k)
<1>1. \A j \in 1 .. k : u[from + j] = s[from + j]
  <2>1. \A j \in 1 .. k : from + j \in 1 .. m
    OBVIOUS
  <2> QED
    BY <2>1 DEF Concats
<1> QED
  BY <1>1 DEF PartsAt

LEMMA PartsBehind ==
  ASSUME NEW u, NEW s, NEW t, NEW m \in Nat, NEW n \in Nat, Concats(u, s, t, m, n), NEW from \in Nat, NEW k \in Nat, from + k <= n,
         NEW at, NEW parts, NEW names, NEW e, PartsAt(t, from, at, parts, names, e, k), NEW o, o = m + from
  PROVE  PartsAt(u, o, at, parts, names, e, k)
<1>1. \A j \in 1 .. k : u[(m + from) + j] = t[from + j]
  <2>1. \A j \in 1 .. k : from + j \in 1 .. n /\ m + (from + j) = (m + from) + j
    OBVIOUS
  <2>2. \A j \in 1 .. k : u[m + (from + j)] = t[from + j]
    BY <2>1 DEF Concats
  <2> QED
    BY <2>1, <2>2
<1> QED
  BY <1>1 DEF PartsAt

LEMMA CollectIs ==
  ASSUME NEW a, Counted(a)
  PROVE  Collected(a, subfile_collect(a))
<1> DEFINE h == Entries(HfParts(a))
           s == Entries(SpParts(a))
           e == Entries(CuszParts(a))
           c == [at |-> 0, n |-> 128, what |-> [part |-> "cusz", entry |-> e]]
           F == 128 + h[6]
           x == Copy(HfSubfile(a), h[6], 128)
           y == Copy(SpSubfile(a), s[4], F)
           cx == <<c>> \o x
           u == cx \o y
<1>1. CuszParts(a)[3] = h[6] /\ CuszParts(a)[4] = s[4] /\ e[3] = 128 /\ e[4] = F
  BY CuszPlaces
<1>2. subfile_collect(a) = u
  BY <1>1 DEF subfile_collect, Write, CuszHeader
<1>3. F \in Nat
  <2>1. h[6] \in Nat
    BY HfPlaces, StartsPlaces DEF Places5
  <2> QED
    BY <2>1
<1>4. HfMoved(a, x)
  BY HfMoves
<1> HIDE DEF F
<1>5. SpMoved(a, y, F)
  BY <1>3, SpMoves
<1> HIDE DEF h, s, e, c, x, y, cx, u
<1>6. IsSeqOf(<<c>>, 1) /\ <<c>>[1] = c
  BY OneMember
<1>7. IsSeqOf(x, 6) /\ IsSeqOf(y, 3)
  BY <1>4, <1>5 DEF HfMoved, SpMoved
<1>8. Concats(cx, <<c>>, x, 1, 6)
  BY <1>6, <1>7, ConcatAt DEF cx
<1>9. IsSeqOf(cx, 7)
  BY <1>8 DEF Concats
<1>10. Concats(u, cx, y, 7, 3)
  BY <1>7, <1>9, ConcatAt DEF u
<1>11. IsSeqOf(u, 10)
  BY <1>10 DEF Concats
<1>12. cx[1] = c /\ cx[2] = x[1] /\ cx[3] = x[2]
  <2>1. 1 \in 1 .. 1 /\ 1 \in 1 .. 6 /\ 2 \in 1 .. 6 /\ 1 + 1 = 2 /\ 1 + 2 = 3
    OBVIOUS
  <2>2. (\A k \in 1 .. 1 : cx[k] = <<c>>[k]) /\ \A k \in 1 .. 6 : cx[1 + k] = x[k]
    BY <1>8 DEF Concats
  <2> QED
    BY <1>6, <2>1, <2>2
<1>13. u[1] = c /\ u[2] = x[1] /\ u[3] = x[2] /\ u[8] = y[1]
  <2>1. 1 \in 1 .. 7 /\ 2 \in 1 .. 7 /\ 3 \in 1 .. 7 /\ 1 \in 1 .. 3 /\ 7 + 1 = 8
    OBVIOUS
  <2>2. (\A k \in 1 .. 7 : u[k] = cx[k]) /\ \A k \in 1 .. 3 : u[7 + k] = y[k]
    BY <1>10 DEF Concats
  <2> QED
    BY <1>12, <2>1, <2>2
<1>14. PartsAt(u, 3, 128, HfParts(a), HfNames, h, 4)
  <2>1. PartsAt(x, 2, 128, HfParts(a), HfNames, h, 4)
    BY <1>4 DEF HfMoved, h
  <2>2. 3 + 4 <= 7 /\ 3 \in Nat /\ 4 \in Nat /\ 7 \in Nat
    OBVIOUS
  <2>4. 1 \in Nat /\ 2 \in Nat /\ 4 \in Nat /\ 6 \in Nat /\ 2 + 4 <= 6 /\ 3 = 1 + 2
    OBVIOUS
  <2>3. PartsAt(cx, 3, 128, HfParts(a), HfNames, h, 4)
    BY <1>8, <2>1, <2>4, PartsBehind, SMTT(150)
  <2> QED
    BY <1>10, <2>2, <2>3, PartsBefore
<1>15. PartsAt(u, 8, F, SpParts(a), SpNames, s, 2)
  <2>1. PartsAt(y, 1, F, SpParts(a), SpNames, s, 2)
    BY <1>5 DEF SpMoved, s
  <2>2. 7 + 1 = 8 /\ 1 + 2 <= 3 /\ {1, 2, 3, 7} \subseteq Nat
    OBVIOUS
  <2> QED
    BY <1>10, <2>1, <2>2, PartsBehind
<1>16. x[1].at = 128 /\ x[1].n \in Nat /\ x[1].what = Part("tmp") /\ x[2] = [at |-> 128, n |-> 64, what |-> [part |-> "hf", entry |-> h]]
  BY <1>4 DEF HfMoved, h
<1>17. y[1] = [at |-> F, n |-> 40, what |-> [part |-> "sp", entry |-> s]]
  BY <1>5 DEF SpMoved, s
<1> QED
  BY <1>2, <1>11, <1>13, <1>14, <1>15, <1>16, <1>17 DEF Collected, c, e, h, s, F

-----------------------------------------------------------------------------
(* What the decoders find.                                                  *)


\* Where the writes of an archive are, as numbers.
Laid(a, buf) ==
  LET h == Entries(HfParts(a))
      s == Entries(SpParts(a))
      F == 128 + h[6]
  IN  /\ DOMAIN buf = 1 .. 10
      /\ Places5(h, HfParts(a)) /\ Places3(s, SpParts(a)) /\ h[2] = 128 /\ s[2] = 128
      /\ buf[1].at = 0 /\ buf[2].at = 128 /\ buf[3].at = 128
      /\ buf[4].at = 128 + h[2] /\ buf[5].at = 128 + h[3] /\ buf[6].at = 128 + h[4] /\ buf[7].at = 128 + h[5]
      /\ buf[8].at = F /\ buf[9].at = F + s[2] /\ buf[10].at = F + s[3]

LEMMA CollectedLaid ==
  ASSUME NEW a, Counted(a), NEW buf, Collected(a, buf)
  PROVE  Laid(a, buf)
<1> DEFINE h == Entries(HfParts(a))
           s == Entries(SpParts(a))
           F == 128 + h[6]
<1>1. Places5(h, HfParts(a)) /\ Places3(s, SpParts(a)) /\ HfParts(a)[1] = 128 /\ SpParts(a)[1] = 128
  BY HfPlaces, SpPlaces, StartsPlaces
<1> HIDE DEF h, s
<1>2. h[2] = 128 /\ s[2] = 128
  BY <1>1 DEF Places5, Places3
<1>3. DOMAIN buf = 1 .. 10
  BY DEF Collected, IsSeqOf
<1>4. buf[1].at = 0 /\ buf[2].at = 128 /\ buf[3].at = 128 /\ buf[8].at = F
  BY DEF Collected, h
<1>5. buf[4].at = 128 + h[2] /\ buf[5].at = 128 + h[3] /\ buf[6].at = 128 + h[4] /\ buf[7].at = 128 + h[5]
  <2>1. \A k \in 1 .. 4 : buf[3 + k].at = 128 + h[k + 1]
    BY DEF Collected, PartsAt, h
  <2> QED
    BY <2>1
<1>6. buf[9].at = F + s[2] /\ buf[10].at = F + s[3]
  <2>1. \A k \in 1 .. 2 : buf[8 + k].at = F + s[k + 1]
    BY DEF Collected, PartsAt, h, s
  <2> QED
    BY <2>1
<1> QED
  BY <1>1, <1>2, <1>3, <1>4, <1>5, <1>6 DEF Laid, h, s

\* The k-th of n writes is the header e at "at", and no later one is at the same place.
LastThere(buf, n, k, at, e) ==
  /\ DOMAIN buf = 1 .. n /\ k \in 1 .. n
  /\ buf[k].n > 0 /\ buf[k].at = at /\ buf[k].what.entry = e /\ e # <<>>
  /\ \A j \in 1 .. n : j > k => buf[j].at # at

(* The header that is written last at a place is the one that is read there. *)
LEMMA HeaderAt ==
  ASSUME NEW buf, NEW n \in Nat, NEW k, NEW at, NEW e, LastThere(buf, n, k, at, e)
  PROVE  EntryAt(buf, at) = e
<1>0. /\ DOMAIN buf = 1 .. n /\ k \in 1 .. n
      /\ buf[k].n > 0 /\ buf[k].at = at /\ buf[k].what.entry = e /\ e # <<>>
      /\ \A j \in 1 .. n : j > k => buf[j].at # at
  BY DEF LastThere
<1> DEFINE J == {j \in DOMAIN buf : buf[j].n > 0 /\ buf[j].at = at /\ buf[j].what.entry # <<>>}
<1>1. k \in J /\ \A j \in J : j <= k
  <2>1. k \in J
    BY <1>0
  <2>2. ASSUME NEW j \in J PROVE j <= k
    <3>1. j \in 1 .. n /\ ~(j > k)
      BY <1>0
    <3> QED
      BY <1>0, <3>1
  <2> QED
    BY <2>1, <2>2
<1>2. J \subseteq Nat
  BY <1>0
<1> HIDE DEF J
<1>3. (CHOOSE j \in J : \A l \in J : l <= j) = k
  <2>1. \A j \in J : (\A l \in J : l <= j) => j = k
    BY <1>1, <1>2
  <2> QED
    BY <1>1, <2>1
<1>4. J # {}
  BY <1>1
<1>5. EntryAt(buf, at) = IF J = {} THEN <<>> ELSE buf[CHOOSE j \in J : \A l \in J : l <= j].what.entry
  BY DEF EntryAt, J
<1> QED
  BY <1>0, <1>3, <1>4, <1>5

LEMMA SomeEntries ==
  ASSUME NEW e, NEW s, NEW m \in Nat, Starts(e, s, m)
  PROVE  e # <<>> /\ Len(e) = m + 1
<1>1. e = [k \in 1 .. m + 1 |-> e[k]] /\ m + 1 \in Nat
  BY DEF Starts, IsSeqOf
<1>2. Len(e) = m + 1
  BY <1>1
<1> QED
  BY <1>2

(* The parts of a subfile have no entries of their own.                     *)
LEMMA NoEntries ==
  ASSUME NEW a, NEW buf, Collected(a, buf)
  PROVE  \A j \in {2, 4, 5, 6, 7, 9, 10} : buf[j].what.entry = <<>>
<1>1. buf[2].what.entry = <<>>
  BY DEF Collected, Part
<1>2. \A k \in 1 .. 4 : buf[3 + k].what.entry = <<>>
  BY DEF Collected, PartsAt, Part
<1>3. \A k \in 1 .. 2 : buf[8 + k].what.entry = <<>>
  BY DEF Collected, PartsAt, Part
<1>4. \A j \in {4, 5, 6, 7} : j - 3 \in 1 .. 4 /\ 3 + (j - 3) = j
  OBVIOUS
<1>5. \A j \in {9, 10} : j - 8 \in 1 .. 2 /\ 8 + (j - 8) = j
  OBVIOUS
<1> QED
  BY <1>1, <1>2, <1>3, <1>4, <1>5

\* Behind the header, each write but the first begins where the one before it ends.
Climbs(buf) ==
  /\ \A j \in 1 .. 10 : buf[j].at \in Nat
  /\ buf[1].at = 0 /\ buf[2].at = 128 /\ buf[3].at = 128 /\ 256 <= buf[4].at
  /\ buf[4].at <= buf[5].at /\ buf[5].at <= buf[6].at /\ buf[6].at <= buf[7].at /\ buf[7].at <= buf[8].at
  /\ buf[8].at + 128 <= buf[9].at /\ buf[9].at <= buf[10].at

LEMMA LaidClimbs ==
  ASSUME NEW a, Counted(a), NEW buf, Laid(a, buf)
  PROVE  Climbs(buf)
<1> DEFINE h == Entries(HfParts(a))
           s == Entries(SpParts(a))
           p == HfParts(a)
           q == SpParts(a)
<1>1. Places5(h, p) /\ Places3(s, q) /\ h[2] = 128 /\ s[2] = 128
  BY DEF Laid
<1>2. (\A k \in 1 .. 5 : p[k] \in Nat) /\ \A k \in 1 .. 3 : q[k] \in Nat
  BY HfPlaces, SpPlaces
<1>3. /\ buf[1].at = 0 /\ buf[2].at = 128 /\ buf[3].at = 128
      /\ buf[4].at = 128 + h[2] /\ buf[5].at = 128 + h[3] /\ buf[6].at = 128 + h[4] /\ buf[7].at = 128 + h[5]
      /\ buf[8].at = 128 + h[6] /\ buf[9].at = (128 + h[6]) + s[2] /\ buf[10].at = (128 + h[6]) + s[3]
  BY DEF Laid
<1> HIDE DEF h, s, p, q
<1>4. /\ h[2] \in Nat /\ h[3] \in Nat /\ h[4] \in Nat /\ h[5] \in Nat /\ h[6] \in Nat /\ s[2] \in Nat /\ s[3] \in Nat
      /\ h[2] <= h[3] /\ h[3] <= h[4] /\ h[4] <= h[5] /\ h[5] <= h[6] /\ s[2] <= s[3]
  <2>1. p[2] \in Nat /\ p[3] \in Nat /\ p[4] \in Nat /\ p[5] \in Nat /\ q[2] \in Nat
    BY <1>2
  <2> QED
    BY <1>1, <2>1 DEF Places5, Places3
<1>5. \A j \in 1 .. 10 : j \in {1, 2, 3, 4, 5, 6, 7, 8, 9, 10}
  OBVIOUS
<1>6. \A j \in {1, 2, 3, 4, 5, 6, 7, 8, 9, 10} : buf[j].at \in Nat
  BY <1>3, <1>4
<1> QED
  BY <1>1, <1>3, <1>4, <1>5, <1>6 DEF Climbs

(* What one write put somewhere is there, when the later ones all begin     *)
(* behind its end.                                                          *)
LEMMA HoldsAt ==
  ASSUME NEW buf, NEW n \in Nat, DOMAIN buf = 1 .. n, NEW k \in 1 .. n, NEW p \in Nat, NEW l \in Nat, NEW what,
         IsWrite(buf[k], p, l, what), \A j \in 1 .. n : j > k => buf[j].at >= p + l /\ buf[j].at \in Nat
  PROVE  Holds(buf, p, l, what)
<1> DEFINE Over == {z \in DOMAIN buf : buf[z].n > 0 /\ buf[z].at < p + l /\ p < buf[z].at + buf[z].n}
<1>1. ASSUME l > 0
      PROVE  \E z \in Over : buf[z] = [at |-> p, n |-> l, what |-> what] /\ \A j \in Over : j <= z
  <2>1. buf[k] = [at |-> p, n |-> l, what |-> what]
    BY DEF IsWrite
  <2>2. buf[k].at = p /\ buf[k].n = l
    BY <2>1
  <2>3. k \in Over
    BY <1>1, <2>2
  <2>4. ASSUME NEW j \in Over PROVE j <= k
    <3>1. j \in 1 .. n /\ buf[j].at < p + l
      OBVIOUS
    <3>2. ~(j > k)
      BY <3>1
    <3> QED
      BY <3>1, <3>2
  <2> QED
    BY <2>1, <2>3, <2>4
<1> QED
  BY <1>1 DEF Holds


(* Each header is found where it was put: the first at 0, the Huffman       *)
(* codec's at 128 and the sparse codec's behind the Huffman subfile.        *)
LEMMA HeadersFound ==
  ASSUME NEW a, Counted(a), NEW buf, Collected(a, buf)
  PROVE  /\ EntryAt(buf, 0) = Entries(CuszParts(a))
         /\ EntryAt(buf, 128) = Entries(HfParts(a))
         /\ EntryAt(buf, 128 + Entries(HfParts(a))[6]) = Entries(SpParts(a))
<1> DEFINE h == Entries(HfParts(a))
           s == Entries(SpParts(a))
           e == Entries(CuszParts(a))
           F == 128 + h[6]
<1>1. Starts(e, CuszParts(a), 4) /\ Starts(h, HfParts(a), 5) /\ Starts(s, SpParts(a), 3)
  BY CuszPlaces, HfPlaces, SpPlaces
<1>2. e # <<>> /\ h # <<>> /\ s # <<>>
  BY <1>1, SomeEntries
<1>3. Climbs(buf) /\ DOMAIN buf = 1 .. 10
  BY CollectedLaid, LaidClimbs DEF Laid
<1>4. \A j \in {2, 4, 5, 6, 7, 9, 10} : buf[j].what.entry = <<>>
  BY NoEntries
<1>5. /\ buf[1].n > 0 /\ buf[1].at = 0 /\ buf[1].what.entry = e
      /\ buf[3].n > 0 /\ buf[3].at = 128 /\ buf[3].what.entry = h
      /\ buf[8].n > 0 /\ buf[8].at = F /\ buf[8].what.entry = s
  BY DEF Collected
<1> HIDE DEF h, s, e, F
<1>6. \A j \in 1 .. 10 : j > 1 => buf[j].at # 0
  BY <1>3 DEF Climbs
<1>7. \A j \in 1 .. 10 : j > 3 => buf[j].at # 128
  BY <1>3 DEF Climbs
<1>8. \A j \in 1 .. 10 : j > 8 => buf[j].at # F
  BY <1>3, <1>5 DEF Climbs
<1>9. EntryAt(buf, 0) = e
  <2>1. LastThere(buf, 10, 1, 0, e)
    BY <1>2, <1>3, <1>5, <1>6 DEF LastThere
  <2> QED
    BY <2>1, HeaderAt
<1>10. EntryAt(buf, 128) = h
  <2>1. LastThere(buf, 10, 3, 128, h)
    BY <1>2, <1>3, <1>5, <1>7 DEF LastThere
  <2> QED
    BY <2>1, HeaderAt
<1>11. EntryAt(buf, F) = s
  <2>1. LastThere(buf, 10, 8, F, s)
    BY <1>2, <1>3, <1>5, <1>8 DEF LastThere
  <2> QED
    BY <2>1, HeaderAt
<1> QED
  BY <1>9, <1>10, <1>11 DEF h, s, e, F

(* No later write covers a part of the Huffman subfile, nor one of the      *)
(* sparse subfile.                                                          *)
LEMMA HfPartsHeld ==
  ASSUME NEW a, Counted(a), NEW buf, Collected(a, buf), NEW k \in 2 .. 5
  PROVE  Holds(buf, 128 + Entries(HfParts(a))[k], HfParts(a)[k], Part(HfNames[k]))
<1> DEFINE h == Entries(HfParts(a))
           p == HfParts(a)
           at == 128 + h[k]
           l == p[k]
           what == Part(HfNames[k])
           z == 2 + k
<1>1. Starts(h, p, 5) /\ \A j \in 1 .. 5 : p[j] \in Nat
  BY HfPlaces
<1>2. Climbs(buf) /\ DOMAIN buf = 1 .. 10 /\ Laid(a, buf)
  BY CollectedLaid, LaidClimbs DEF Laid
<1>3. IsWrite(buf[z], at, l, what)
  <2>1. \A j \in 1 .. 4 : IsWrite(buf[3 + j], 128 + h[j + 1], p[j + 1], Part(HfNames[j + 1]))
    BY DEF Collected, PartsAt, IsWrite
  <2>2. k - 1 \in 1 .. 4 /\ 3 + (k - 1) = z /\ (k - 1) + 1 = k
    OBVIOUS
  <2> QED
    BY <2>1, <2>2
<1>4. /\ buf[4].at = 128 + h[2] /\ buf[5].at = 128 + h[3] /\ buf[6].at = 128 + h[4] /\ buf[7].at = 128 + h[5]
      /\ buf[8].at = 128 + h[6]
  BY <1>2 DEF Laid
<1> HIDE DEF h, p
<1>5. h[k + 1] = h[k] + p[k] /\ h[k] \in Nat /\ p[k] \in Nat
  BY <1>1 DEF Starts
<1>6. k = 2 \/ k = 3 \/ k = 4 \/ k = 5
  OBVIOUS
<1>7. buf[z + 1].at = at + l
  BY <1>4, <1>5, <1>6
<1>8. at \in Nat /\ l \in Nat /\ z \in 4 .. 7
  BY <1>5
<1> HIDE DEF at, l, what, z
<1>9. \A j \in 1 .. 10 : j > z => buf[j].at >= at + l /\ buf[j].at \in Nat
  <2>1. z = 4 \/ z = 5 \/ z = 6 \/ z = 7
    BY <1>8
  <2>2. \A j \in 1 .. 10 : j > z => buf[j].at >= buf[z + 1].at /\ buf[j].at \in Nat
    <3>1. CASE z = 4
      BY <1>2, <3>1 DEF Climbs
    <3>2. CASE z = 5
      BY <1>2, <3>2 DEF Climbs
    <3>3. CASE z = 6
      BY <1>2, <3>3 DEF Climbs
    <3>4. CASE z = 7
      BY <1>2, <3>4 DEF Climbs
    <3> QED
      BY <2>1, <3>1, <3>2, <3>3, <3>4
  <2> QED
    BY <1>7, <2>2
<1>10. z \in 1 .. 10 /\ 10 \in Nat
  BY <1>8
<1>11. Holds(buf, at, l, what)
  BY <1>2, <1>3, <1>8, <1>9, <1>10, HoldsAt
<1> QED
  BY <1>11 DEF at, l, what, h, p

LEMMA SpPartsHeld ==
  ASSUME NEW a, Counted(a), NEW buf, Collected(a, buf), NEW k \in 2 .. 3
  PROVE  Holds(buf, (128 + Entries(HfParts(a))[6]) + Entries(SpParts(a))[k], SpParts(a)[k], Part(SpNames[k]))
<1> DEFINE s == Entries(SpParts(a))
           q == SpParts(a)
           F == 128 + Entries(HfParts(a))[6]
           at == F + s[k]
           l == q[k]
           what == Part(SpNames[k])
           z == 7 + k
<1>1. Starts(s, q, 3) /\ \A j \in 1 .. 3 : q[j] \in Nat
  BY SpPlaces
<1>2. Climbs(buf) /\ DOMAIN buf = 1 .. 10 /\ Laid(a, buf)
  BY CollectedLaid, LaidClimbs DEF Laid
<1>3. IsWrite(buf[z], at, l, what)
  <2>1. \A j \in 1 .. 2 : IsWrite(buf[8 + j], F + s[j + 1], q[j + 1], Part(SpNames[j + 1]))
    BY DEF Collected, PartsAt, IsWrite
  <2>2. k - 1 \in 1 .. 2 /\ 8 + (k - 1) = z /\ (k - 1) + 1 = k
    OBVIOUS
  <2> QED
    BY <2>1, <2>2
<1>4. buf[8].at = F /\ buf[9].at = F + s[2] /\ buf[10].at = F + s[3]
  BY <1>2 DEF Laid
<1> HIDE DEF s, q, F
<1>5. s[k + 1] = s[k] + q[k] /\ s[k] \in Nat /\ q[k] \in Nat /\ F \in Nat
  <2>1. s[k + 1] = s[k] + q[k] /\ s[k] \in Nat /\ q[k] \in Nat
    BY <1>1 DEF Starts
  <2>2. F \in Nat
    BY <1>2, <1>4 DEF Climbs
  <2> QED
    BY <2>1, <2>2
<1>6. k = 2 \/ k = 3
  OBVIOUS
<1>8. at \in Nat /\ l \in Nat /\ z \in 9 .. 10
  BY <1>5
<1>9. \A j \in 1 .. 10 : j > z => buf[j].at >= at + l /\ buf[j].at \in Nat
  <2>1. \A j \in 1 .. 10 : j > z => k = 2 /\ j = 10
    BY <1>6
  <2>2. k = 2 => buf[10].at = at + l
    BY <1>4, <1>5
  <2>3. at + l \in Nat
    BY <1>8
  <2> HIDE DEF at, l, z
  <2> QED
    BY <2>1, <2>2, <2>3
<1> HIDE DEF at, l, what, z
<1>10. z \in 1 .. 10 /\ 10 \in Nat
  BY <1>8
<1>11. Holds(buf, at, l, what)
  BY <1>2, <1>3, <1>8, <1>9, <1>10, HoldsAt
<1> QED
  BY <1>11 DEF at, l, what, s, q, F

(* In an archive whose buffers had room for it, the decoders are led to the *)
(* parts the encoders wrote, and no write that came later covers them.      *)
THEOREM ArchiveReadable ==
  ASSUME NEW a, Counted(a)
  PROVE  HfDecoderReads(a, subfile_collect(a)) /\ SpDecoderReads(a, subfile_collect(a))
<1> DEFINE h == Entries(HfParts(a))
           s == Entries(SpParts(a))
           e == Entries(CuszParts(a))
           F == 128 + h[6]
           buf == subfile_collect(a)
<1>1. Collected(a, buf)
  BY CollectIs
<1> HIDE DEF buf
<1>2. EntryAt(buf, 0) = e /\ EntryAt(buf, 128) = h /\ EntryAt(buf, F) = s
  BY <1>1, HeadersFound
<1>3. Starts(e, CuszParts(a), 4) /\ e[3] = 128 /\ e[4] = F
  BY CuszPlaces
<1>4. Starts(h, HfParts(a), 5) /\ Starts(s, SpParts(a), 3) /\ Len(HfParts(a)) = 5 /\ Len(SpParts(a)) = 3
  BY HfPlaces, SpPlaces
<1>5. Len(e) = 5 /\ Len(h) = 6 /\ Len(s) = 4
  <2> HIDE DEF e, h, s
  <2>4. Starts(e, CuszParts(a), 4) /\ 4 \in Nat
    BY <1>3
  <2>1. Len(e) = 4 + 1
    BY <2>4, SomeEntries
  <2>2. Len(h) = 5 + 1
    BY <1>4, SomeEntries
  <2>3. Len(s) = 3 + 1
    BY <1>4, SomeEntries
  <2> QED
    BY <2>1, <2>2, <2>3
<1>6. \A k \in 2 .. 5 : Holds(buf, 128 + h[k], HfParts(a)[k], Part(HfNames[k]))
  BY <1>1, HfPartsHeld
<1>7. \A k \in 2 .. 3 : Holds(buf, F + s[k], SpParts(a)[k], Part(SpNames[k]))
  BY <1>1, SpPartsHeld
<1> HIDE DEF h, s, e, F
<1>8. Reads(buf, 128, HfParts(a), HfNames, 2 .. 5)
  BY <1>2, <1>4, <1>5, <1>6 DEF Reads
<1>9. Reads(buf, F, SpParts(a), SpNames, 2 .. 3)
  BY <1>2, <1>4, <1>5, <1>7 DEF Reads
<1> QED
  BY <1>2, <1>3, <1>5, <1>8, <1>9 DEF HfDecoderReads, SpDecoderReads, buf

\* The members of a context.
Members  == DOMAIN Fresh
IsCtx(c) == c = [f \in Members |-> c[f]]

\* The context c with what u sets.
Over(c, u) == [f \in Members |-> IF f \in DOMAIN u THEN u[f] ELSE c[f]]

LEMMA HasMembers ==
  {"construct", "reconstruct", "dryrun", "binning", "prescan", "gzip", "nvcomp", "predefined_demo", "release_input",
   "anchor", "autotune", "gpu_verify", "skip_write2disk", "skip_huffman", "report_time", "report_cr",
   "report_compressibility", "fname", "origin_cmp", "basename", "path_basename", "opath", "verbose", "status",
   "dtype", "mode", "predictor", "pipeline", "nz_density_factor", "codecs_in_use", "huff_bytewidth", "vle_sublen",
   "x", "y", "z", "w", "ndim", "data_len", "alloclen", "eb", "dict_size", "radius", "thrown"} \subseteq Members
BY DEF Members, Fresh

LEMMA FreshCtx == IsCtx(Fresh)
BY DEF IsCtx, Members, Fresh

LEMMA OverCtx ==
  ASSUME NEW c, NEW u
  PROVE  /\ IsCtx(Over(c, u))
         /\ \A f \in Members : Over(c, u)[f] = IF f \in DOMAIN u THEN u[f] ELSE c[f]
BY DEF IsCtx, Over

(* One member set.                                                          *)
LEMMA SetOne ==
  ASSUME NEW c, IsCtx(c), NEW f \in Members, NEW v, NEW u, DOMAIN u = {f}, u[f] = v
  PROVE  [c EXCEPT ![f] = v] = Over(c, u)
BY DEF IsCtx, Over

LEMMA SetDtype ==
  ASSUME NEW c, IsCtx(c), NEW v
  PROVE  [c EXCEPT !.dtype = v] = Over(c, [dtype |-> v])
BY HasMembers DEF IsCtx, Over

(* Functions on the members that agree on each of them are the same.        *)
LEMMA SameCtx ==
  ASSUME NEW c, NEW d, IsCtx(c), IsCtx(d), \A f \in Members : c[f] = d[f]
  PROVE  c = d
BY DEF IsCtx

Box(n, x, y, z, w) == [ndim |-> n, x |-> x, y |-> y, z |-> z, w |-> w, data_len |-> (x * y * z * w) % UINT]

LEMMA ExtentsSet ==
  ASSUME NEW c, IsCtx(c), NEW n, NEW x, NEW y, NEW z, NEW w
  PROVE  Extents(c, n, x, y, z, w) = Over(c, Box(n, x, y, z, w))
<1> DEFINE len == (x * y * z * w) % UINT
           u == [ndim |-> n, x |-> x, y |-> y, z |-> z, w |-> w, data_len |-> len]
           r == [c EXCEPT !.ndim = n, !.x = x, !.y = y, !.z = z, !.w = w, !.data_len = len]
<1>1. Extents(c, n, x, y, z, w) = r /\ Box(n, x, y, z, w) = u
  BY DEF Extents, Box
<1> HIDE DEF len
<1>2. IsCtx(r)
  BY DEF IsCtx
<1>3. ASSUME NEW f \in Members PROVE r[f] = IF f \in DOMAIN u THEN u[f] ELSE c[f]
  <2>1. CASE f \in {"ndim", "x", "y", "z", "w", "data_len"}
    <3>0. DOMAIN c = Members
      BY DEF IsCtx
    <3>1. CASE f = "ndim"
      BY <3>0, <3>1
    <3>2. CASE f = "x"
      BY <3>0, <3>2
    <3>3. CASE f = "y"
      BY <3>0, <3>3
    <3>4. CASE f = "z"
      BY <3>0, <3>4
    <3>5. CASE f = "w"
      BY <3>0, <3>5
    <3>6. CASE f = "data_len"
      BY <3>0, <3>6
    <3> QED
      BY <2>1, <3>1, <3>2, <3>3, <3>4, <3>5, <3>6
  <2>2. CASE f \notin {"ndim", "x", "y", "z", "w", "data_len"}
    <3>1. r[f] = c[f]
      BY <2>2 DEF IsCtx
    <3>2. f \notin DOMAIN u
      BY <2>2
    <3> QED
      BY <3>1, <3>2
  <2> QED
    BY <2>1, <2>2
<1> HIDE DEF u, r
<1>4. r = Over(c, u)
  BY <1>2, <1>3, OverCtx, SameCtx
<1> QED
  BY <1>1, <1>4
\* The setting a member belongs to, and the lengths and numbers that are typed.
Owner(f) ==
  IF f \in {"ndim", "x", "y", "z", "w", "data_len", "predefined_demo"} THEN "len"
  ELSE IF f \in {"dict_size", "radius"} THEN "dict" ELSE IF f \in {"huff_bytewidth", "codecs_in_use"} THEN "huffbyte"
  ELSE IF f \in {"vle_sublen", "autotune"} THEN "huffchunk" ELSE IF f = "nz_density_factor" THEN "density"
  ELSE IF f = "release_input" THEN "releaseinput" ELSE IF f = "gpu_verify" THEN "gpuverify" ELSE f
NumbersIn(u) ==
  /\ "data_len" \in DOMAIN u => u["data_len"] \in 0 .. UINT - 1
  /\ "radius" \in DOMAIN u => u["radius"] \in Int
  /\ "vle_sublen" \in DOMAIN u => u["vle_sublen"] \in Int

\* A pair sets what u says, whatever the context is, and nothing of another setting.
Sets(kv, u) == \A c : IsCtx(c) => SetKey(c, kv) = Over(c, u)
OwnSetting(kv, u) ==
  \A f \in DOMAIN u : f \in Members /\ IF f = "thrown" THEN u[f] = TRUE ELSE Owner(f) = Setting(kv.k)
Marks(u) ==
  /\ "anchor" \in DOMAIN u => u["anchor"] = TRUE
  /\ "fname" \notin DOMAIN u
IsOverlay(kv, u) == Sets(kv, u) /\ OwnSetting(kv, u) /\ Marks(u) /\ (IsPair(kv) => NumbersIn(u))
Overlay(kv) == CHOOSE u : IsOverlay(kv, u)

LEMMA SetNothing ==
  ASSUME NEW c, IsCtx(c)
  PROVE  c = Over(c, <<>>)
BY DEF IsCtx, Over

LEMMA KeyDtype ==
  ASSUME NEW kv, kv.k \in {"type", "dtype"}
  PROVE  \E u : IsOverlay(kv, u)
<1> DEFINE u == [dtype |-> kv.str]
<1>1. ASSUME NEW c, IsCtx(c) PROVE SetKey(c, kv) = Over(c, u)
  <2>1. SetKey(c, kv) = [c EXCEPT !.dtype = kv.str]
    BY DEF SetKey
  <2>2. [c EXCEPT !.dtype = kv.str] = Over(c, u)
    BY <1>1, HasMembers DEF IsCtx, Over
  <2> QED
    BY <2>1, <2>2
<1>2. OwnSetting(kv, u)
  <2>1. DOMAIN u = {"dtype"}
    OBVIOUS
  <2>2. Setting(kv.k) = "dtype"
    BY DEF Setting
  <2>3. \A f \in {"dtype"} : f \in Members /\ f # "thrown" /\ Owner(f) = "dtype"
    BY HasMembers DEF Owner
  <2> QED
    BY <2>1, <2>2, <2>3 DEF OwnSetting
<1>3. Marks(u)
  BY DEF Marks
<1>4. IsPair(kv) => NumbersIn(u)
  BY DEF NumbersIn
<1> HIDE DEF u
<1>5. IsOverlay(kv, u)
  BY <1>1, <1>2, <1>3, <1>4 DEF IsOverlay, Sets
<1> QED
  BY <1>5

LEMMA KeyEb ==
  ASSUME NEW kv, kv.k \in {"eb", "errorbound"}
  PROVE  \E u : IsOverlay(kv, u)
<1> DEFINE u == [eb |-> kv.num]
<1>1. ASSUME NEW c, IsCtx(c) PROVE SetKey(c, kv) = Over(c, u)
  <2>1. SetKey(c, kv) = [c EXCEPT !.eb = kv.num]
    BY DEF SetKey, set_eb
  <2>2. [c EXCEPT !.eb = kv.num] = Over(c, u)
    BY <1>1, HasMembers DEF IsCtx, Over
  <2> QED
    BY <2>1, <2>2
<1>2. OwnSetting(kv, u)
  <2>1. DOMAIN u = {"eb"}
    OBVIOUS
  <2>2. Setting(kv.k) = "eb"
    BY DEF Setting
  <2>3. \A f \in {"eb"} : f \in Members /\ f # "thrown" /\ Owner(f) = "eb"
    BY HasMembers DEF Owner
  <2> QED
    BY <2>1, <2>2, <2>3 DEF OwnSetting
<1>3. Marks(u)
  BY DEF Marks
<1>4. IsPair(kv) => NumbersIn(u)
  BY DEF NumbersIn
<1> HIDE DEF u
<1>5. IsOverlay(kv, u)
  BY <1>1, <1>2, <1>3, <1>4 DEF IsOverlay, Sets
<1> QED
  BY <1>5

LEMMA KeyMode ==
  ASSUME NEW kv, kv.k = "mode" /\ kv.str \in {"r2r", "abs"}
  PROVE  \E u : IsOverlay(kv, u)
<1> DEFINE u == [mode |-> kv.str]
<1>1. ASSUME NEW c, IsCtx(c) PROVE SetKey(c, kv) = Over(c, u)
  <2>1. SetKey(c, kv) = [c EXCEPT !.mode = kv.str]
    BY DEF SetKey
  <2>2. [c EXCEPT !.mode = kv.str] = Over(c, u)
    BY <1>1, HasMembers DEF IsCtx, Over
  <2> QED
    BY <2>1, <2>2
<1>2. OwnSetting(kv, u)
  <2>1. DOMAIN u = {"mode"}
    OBVIOUS
  <2>2. Setting(kv.k) = "mode"
    BY DEF Setting
  <2>3. \A f \in {"mode"} : f \in Members /\ f # "thrown" /\ Owner(f) = "mode"
    BY HasMembers DEF Owner
  <2> QED
    BY <2>1, <2>2, <2>3 DEF OwnSetting
<1>3. Marks(u)
  BY DEF Marks
<1>4. IsPair(kv) => NumbersIn(u)
  BY DEF NumbersIn
<1> HIDE DEF u
<1>5. IsOverlay(kv, u)
  BY <1>1, <1>2, <1>3, <1>4 DEF IsOverlay, Sets
<1> QED
  BY <1>5

LEMMA KeyBadMode ==
  ASSUME NEW kv, kv.k = "mode" /\ kv.str \notin {"r2r", "abs"}
  PROVE  \E u : IsOverlay(kv, u)
<1> DEFINE v0 == TRUE
           u == [thrown |-> v0]
<1>1. ASSUME NEW c, IsCtx(c) PROVE SetKey(c, kv) = Over(c, u)
  <2>1. SetKey(c, kv) = [c EXCEPT !.thrown = v0]
    BY DEF SetKey, Thrown
  <2> HIDE DEF v0
  <2>2. [c EXCEPT !.thrown = v0] = Over(c, u)
    BY <1>1, HasMembers DEF IsCtx, Over
  <2> QED
    BY <2>1, <2>2
<1>2. OwnSetting(kv, u)
  <2>1. DOMAIN u = {"thrown"}
    OBVIOUS
  <2> QED
    BY <2>1, HasMembers DEF OwnSetting
<1>3. Marks(u)
  BY DEF Marks
<1>4. IsPair(kv) => NumbersIn(u)
  BY DEF NumbersIn
<1> HIDE DEF u
<1>5. IsOverlay(kv, u)
  BY <1>1, <1>2, <1>3, <1>4 DEF IsOverlay, Sets
<1> QED
  BY <1>5

LEMMA KeyAlloclen ==
  ASSUME NEW kv, kv.k = "alloclen"
  PROVE  \E u : IsOverlay(kv, u)
<1> DEFINE u == [alloclen |-> kv.num]
<1>1. ASSUME NEW c, IsCtx(c) PROVE SetKey(c, kv) = Over(c, u)
  <2>1. SetKey(c, kv) = [c EXCEPT !.alloclen = kv.num]
    BY DEF SetKey
  <2>2. [c EXCEPT !.alloclen = kv.num] = Over(c, u)
    BY <1>1, HasMembers DEF IsCtx, Over
  <2> QED
    BY <2>1, <2>2
<1>2. OwnSetting(kv, u)
  <2>1. DOMAIN u = {"alloclen"}
    OBVIOUS
  <2>2. Setting(kv.k) = "alloclen"
    BY DEF Setting
  <2>3. \A f \in {"alloclen"} : f \in Members /\ f # "thrown" /\ Owner(f) = "alloclen"
    BY HasMembers DEF Owner
  <2> QED
    BY <2>1, <2>2, <2>3 DEF OwnSetting
<1>3. Marks(u)
  BY DEF Marks
<1>4. IsPair(kv) => NumbersIn(u)
  BY DEF NumbersIn
<1> HIDE DEF u
<1>5. IsOverlay(kv, u)
  BY <1>1, <1>2, <1>3, <1>4 DEF IsOverlay, Sets
<1> QED
  BY <1>5

LEMMA KeyDict ==
  ASSUME NEW kv, kv.k \in {"cap", "booklen", "dictsize"}
  PROVE  \E u : IsOverlay(kv, u)
<1> DEFINE v0 == kv.num
           v1 == kv.num \div 2
           u == [dict_size |-> v0, radius |-> v1]
<1>1. ASSUME NEW c, IsCtx(c) PROVE SetKey(c, kv) = Over(c, u)
  <2>1. SetKey(c, kv) = [c EXCEPT !.dict_size = v0, !.radius = v1]
    BY DEF SetKey, set_dict
  <2> HIDE DEF v0, v1
  <2> DEFINE r == [c EXCEPT !.dict_size = v0, !.radius = v1]
  <2>2. DOMAIN c = Members /\ IsCtx(r)
    BY <1>1 DEF IsCtx
  <2>3. r["dict_size"] = u["dict_size"] /\ r["radius"] = u["radius"]
    BY <2>2, HasMembers
  <2>4. ASSUME NEW f \in Members, f \notin {"dict_size", "radius"} PROVE r[f] = c[f]
    BY <2>2, <2>4
  <2>5. DOMAIN u = {"dict_size", "radius"}
    OBVIOUS
  <2> HIDE DEF r, u
  <2>6. \A f \in Members : r[f] = IF f \in DOMAIN u THEN u[f] ELSE c[f]
    BY <2>3, <2>4, <2>5
  <2>7. r = Over(c, u)
    BY <2>2, <2>6, OverCtx, SameCtx
  <2> QED
    BY <2>1, <2>7 DEF r
<1>2. OwnSetting(kv, u)
  <2>1. DOMAIN u = {"dict_size", "radius"}
    OBVIOUS
  <2>2. Setting(kv.k) = "dict"
    BY DEF Setting
  <2>3. \A f \in {"dict_size", "radius"} : f \in Members /\ f # "thrown" /\ Owner(f) = "dict"
    BY HasMembers DEF Owner
  <2> QED
    BY <2>1, <2>2, <2>3 DEF OwnSetting
<1>3. Marks(u)
  BY DEF Marks
<1>4. IsPair(kv) => NumbersIn(u)
  <2>1. IsPair(kv) => kv.num \in Int
    BY DEF IsPair, Numeric, IsNumber
  <2> QED
    BY <2>1 DEF NumbersIn
<1> HIDE DEF u
<1>5. IsOverlay(kv, u)
  BY <1>1, <1>2, <1>3, <1>4 DEF IsOverlay, Sets
<1> QED
  BY <1>5

LEMMA KeyRadius ==
  ASSUME NEW kv, kv.k = "radius"
  PROVE  \E u : IsOverlay(kv, u)
<1> DEFINE v0 == kv.num
           v1 == 2 * kv.num
           u == [radius |-> v0, dict_size |-> v1]
<1>1. ASSUME NEW c, IsCtx(c) PROVE SetKey(c, kv) = Over(c, u)
  <2>1. SetKey(c, kv) = [c EXCEPT !.radius = v0, !.dict_size = v1]
    BY DEF SetKey, set_radius
  <2> HIDE DEF v0, v1
  <2> DEFINE r == [c EXCEPT !.radius = v0, !.dict_size = v1]
  <2>2. DOMAIN c = Members /\ IsCtx(r)
    BY <1>1 DEF IsCtx
  <2>3. r["radius"] = u["radius"] /\ r["dict_size"] = u["dict_size"]
    BY <2>2, HasMembers
  <2>4. ASSUME NEW f \in Members, f \notin {"radius", "dict_size"} PROVE r[f] = c[f]
    BY <2>2, <2>4
  <2>5. DOMAIN u = {"radius", "dict_size"}
    OBVIOUS
  <2> HIDE DEF r, u
  <2>6. \A f \in Members : r[f] = IF f \in DOMAIN u THEN u[f] ELSE c[f]
    BY <2>3, <2>4, <2>5
  <2>7. r = Over(c, u)
    BY <2>2, <2>6, OverCtx, SameCtx
  <2> QED
    BY <2>1, <2>7 DEF r
<1>2. OwnSetting(kv, u)
  <2>1. DOMAIN u = {"radius", "dict_size"}
    OBVIOUS
  <2>2. Setting(kv.k) = "dict"
    BY DEF Setting
  <2>3. \A f \in {"radius", "dict_size"} : f \in Members /\ f # "thrown" /\ Owner(f) = "dict"
    BY HasMembers DEF Owner
  <2> QED
    BY <2>1, <2>2, <2>3 DEF OwnSetting
<1>3. Marks(u)
  BY DEF Marks
<1>4. IsPair(kv) => NumbersIn(u)
  <2>1. IsPair(kv) => kv.num \in Int
    BY DEF IsPair, Numeric, IsNumber
  <2> QED
    BY <2>1 DEF NumbersIn
<1> HIDE DEF u
<1>5. IsOverlay(kv, u)
  BY <1>1, <1>2, <1>3, <1>4 DEF IsOverlay, Sets
<1> QED
  BY <1>5

LEMMA KeyHuffbyte ==
  ASSUME NEW kv, kv.k = "huffbyte"
  PROVE  \E u : IsOverlay(kv, u)
<1> DEFINE v0 == kv.num
           v1 == IF kv.num = 8 THEN {4, 8} ELSE {4}
           u == [huff_bytewidth |-> v0, codecs_in_use |-> v1]
<1>1. ASSUME NEW c, IsCtx(c) PROVE SetKey(c, kv) = Over(c, u)
  <2>1. SetKey(c, kv) = [c EXCEPT !.huff_bytewidth = v0, !.codecs_in_use = v1]
    BY DEF SetKey, set_huffbyte
  <2> HIDE DEF v0, v1
  <2> DEFINE r == [c EXCEPT !.huff_bytewidth = v0, !.codecs_in_use = v1]
  <2>2. DOMAIN c = Members /\ IsCtx(r)
    BY <1>1 DEF IsCtx
  <2>3. r["huff_bytewidth"] = u["huff_bytewidth"] /\ r["codecs_in_use"] = u["codecs_in_use"]
    BY <2>2, HasMembers
  <2>4. ASSUME NEW f \in Members, f \notin {"huff_bytewidth", "codecs_in_use"} PROVE r[f] = c[f]
    BY <2>2, <2>4
  <2>5. DOMAIN u = {"huff_bytewidth", "codecs_in_use"}
    OBVIOUS
  <2> HIDE DEF r, u
  <2>6. \A f \in Members : r[f] = IF f \in DOMAIN u THEN u[f] ELSE c[f]
    BY <2>3, <2>4, <2>5
  <2>7. r = Over(c, u)
    BY <2>2, <2>6, OverCtx, SameCtx
  <2> QED
    BY <2>1, <2>7 DEF r
<1>2. OwnSetting(kv, u)
  <2>1. DOMAIN u = {"huff_bytewidth", "codecs_in_use"}
    OBVIOUS
  <2>2. Setting(kv.k) = "huffbyte"
    BY DEF Setting
  <2>3. \A f \in {"huff_bytewidth", "codecs_in_use"} : f \in Members /\ f # "thrown" /\ Owner(f) = "huffbyte"
    BY HasMembers DEF Owner
  <2> QED
    BY <2>1, <2>2, <2>3 DEF OwnSetting
<1>3. Marks(u)
  BY DEF Marks
<1>4. IsPair(kv) => NumbersIn(u)
  BY DEF NumbersIn
<1> HIDE DEF u
<1>5. IsOverlay(kv, u)
  BY <1>1, <1>2, <1>3, <1>4 DEF IsOverlay, Sets
<1> QED
  BY <1>5

LEMMA KeyHuffchunk ==
  ASSUME NEW kv, kv.k = "huffchunk"
  PROVE  \E u : IsOverlay(kv, u)
<1> DEFINE v0 == kv.num
           v1 == FALSE
           u == [vle_sublen |-> v0, autotune |-> v1]
<1>1. ASSUME NEW c, IsCtx(c) PROVE SetKey(c, kv) = Over(c, u)
  <2>1. SetKey(c, kv) = [c EXCEPT !.vle_sublen = v0, !.autotune = v1]
    BY DEF SetKey, set_huffchunk
  <2> HIDE DEF v0, v1
  <2> DEFINE r == [c EXCEPT !.vle_sublen = v0, !.autotune = v1]
  <2>2. DOMAIN c = Members /\ IsCtx(r)
    BY <1>1 DEF IsCtx
  <2>3. r["vle_sublen"] = u["vle_sublen"] /\ r["autotune"] = u["autotune"]
    BY <2>2, HasMembers
  <2>4. ASSUME NEW f \in Members, f \notin {"vle_sublen", "autotune"} PROVE r[f] = c[f]
    BY <2>2, <2>4
  <2>5. DOMAIN u = {"vle_sublen", "autotune"}
    OBVIOUS
  <2> HIDE DEF r, u
  <2>6. \A f \in Members : r[f] = IF f \in DOMAIN u THEN u[f] ELSE c[f]
    BY <2>3, <2>4, <2>5
  <2>7. r = Over(c, u)
    BY <2>2, <2>6, OverCtx, SameCtx
  <2> QED
    BY <2>1, <2>7 DEF r
<1>2. OwnSetting(kv, u)
  <2>1. DOMAIN u = {"vle_sublen", "autotune"}
    OBVIOUS
  <2>2. Setting(kv.k) = "huffchunk"
    BY DEF Setting
  <2>3. \A f \in {"vle_sublen", "autotune"} : f \in Members /\ f # "thrown" /\ Owner(f) = "huffchunk"
    BY HasMembers DEF Owner
  <2> QED
    BY <2>1, <2>2, <2>3 DEF OwnSetting
<1>3. Marks(u)
  BY DEF Marks
<1>4. IsPair(kv) => NumbersIn(u)
  <2>1. IsPair(kv) => kv.num \in Int
    BY DEF IsPair, Numeric, IsNumber
  <2> QED
    BY <2>1 DEF NumbersIn
<1> HIDE DEF u
<1>5. IsOverlay(kv, u)
  BY <1>1, <1>2, <1>3, <1>4 DEF IsOverlay, Sets
<1> QED
  BY <1>5

LEMMA KeyPredictor ==
  ASSUME NEW kv, kv.k = "predictor"
  PROVE  \E u : IsOverlay(kv, u)
<1> DEFINE u == [predictor |-> kv.str]
<1>1. ASSUME NEW c, IsCtx(c) PROVE SetKey(c, kv) = Over(c, u)
  <2>1. SetKey(c, kv) = [c EXCEPT !.predictor = kv.str]
    BY DEF SetKey
  <2>2. [c EXCEPT !.predictor = kv.str] = Over(c, u)
    BY <1>1, HasMembers DEF IsCtx, Over
  <2> QED
    BY <2>1, <2>2
<1>2. OwnSetting(kv, u)
  <2>1. DOMAIN u = {"predictor"}
    OBVIOUS
  <2>2. Setting(kv.k) = "predictor"
    BY DEF Setting
  <2>3. \A f \in {"predictor"} : f \in Members /\ f # "thrown" /\ Owner(f) = "predictor"
    BY HasMembers DEF Owner
  <2> QED
    BY <2>1, <2>2, <2>3 DEF OwnSetting
<1>3. Marks(u)
  BY DEF Marks
<1>4. IsPair(kv) => NumbersIn(u)
  BY DEF NumbersIn
<1> HIDE DEF u
<1>5. IsOverlay(kv, u)
  BY <1>1, <1>2, <1>3, <1>4 DEF IsOverlay, Sets
<1> QED
  BY <1>5

LEMMA KeyAnchor ==
  ASSUME NEW kv, kv.k = "anchor" /\ is_enabled(kv.str)
  PROVE  \E u : IsOverlay(kv, u)
<1> DEFINE v0 == TRUE
           u == [anchor |-> v0]
<1>1. ASSUME NEW c, IsCtx(c) PROVE SetKey(c, kv) = Over(c, u)
  <2>1. SetKey(c, kv) = [c EXCEPT !.anchor = v0]
    BY DEF SetKey
  <2> HIDE DEF v0
  <2>2. [c EXCEPT !.anchor = v0] = Over(c, u)
    BY <1>1, HasMembers DEF IsCtx, Over
  <2> QED
    BY <2>1, <2>2
<1>2. OwnSetting(kv, u)
  <2>1. DOMAIN u = {"anchor"}
    OBVIOUS
  <2>2. Setting(kv.k) = "anchor"
    BY DEF Setting
  <2>3. \A f \in {"anchor"} : f \in Members /\ f # "thrown" /\ Owner(f) = "anchor"
    BY HasMembers DEF Owner
  <2> QED
    BY <2>1, <2>2, <2>3 DEF OwnSetting
<1>3. Marks(u)
  BY DEF Marks
<1>4. IsPair(kv) => NumbersIn(u)
  BY DEF NumbersIn
<1> HIDE DEF u
<1>5. IsOverlay(kv, u)
  BY <1>1, <1>2, <1>3, <1>4 DEF IsOverlay, Sets
<1> QED
  BY <1>5

LEMMA KeyRelease ==
  ASSUME NEW kv, kv.k = "releaseinput" /\ is_enabled(kv.str)
  PROVE  \E u : IsOverlay(kv, u)
<1> DEFINE v0 == TRUE
           u == [release_input |-> v0]
<1>1. ASSUME NEW c, IsCtx(c) PROVE SetKey(c, kv) = Over(c, u)
  <2>1. SetKey(c, kv) = [c EXCEPT !.release_input = v0]
    BY DEF SetKey
  <2> HIDE DEF v0
  <2>2. [c EXCEPT !.release_input = v0] = Over(c, u)
    BY <1>1, HasMembers DEF IsCtx, Over
  <2> QED
    BY <2>1, <2>2
<1>2. OwnSetting(kv, u)
  <2>1. DOMAIN u = {"release_input"}
    OBVIOUS
  <2>2. Setting(kv.k) = "releaseinput"
    BY DEF Setting
  <2>3. \A f \in {"release_input"} : f \in Members /\ f # "thrown" /\ Owner(f) = "releaseinput"
    BY HasMembers DEF Owner
  <2> QED
    BY <2>1, <2>2, <2>3 DEF OwnSetting
<1>3. Marks(u)
  BY DEF Marks
<1>4. IsPair(kv) => NumbersIn(u)
  BY DEF NumbersIn
<1> HIDE DEF u
<1>5. IsOverlay(kv, u)
  BY <1>1, <1>2, <1>3, <1>4 DEF IsOverlay, Sets
<1> QED
  BY <1>5

LEMMA KeyVerify ==
  ASSUME NEW kv, kv.k = "gpuverify" /\ is_enabled(kv.str)
  PROVE  \E u : IsOverlay(kv, u)
<1> DEFINE v0 == TRUE
           u == [gpu_verify |-> v0]
<1>1. ASSUME NEW c, IsCtx(c) PROVE SetKey(c, kv) = Over(c, u)
  <2>1. SetKey(c, kv) = [c EXCEPT !.gpu_verify = v0]
    BY DEF SetKey
  <2> HIDE DEF v0
  <2>2. [c EXCEPT !.gpu_verify = v0] = Over(c, u)
    BY <1>1, HasMembers DEF IsCtx, Over
  <2> QED
    BY <2>1, <2>2
<1>2. OwnSetting(kv, u)
  <2>1. DOMAIN u = {"gpu_verify"}
    OBVIOUS
  <2>2. Setting(kv.k) = "gpuverify"
    BY DEF Setting
  <2>3. \A f \in {"gpu_verify"} : f \in Members /\ f # "thrown" /\ Owner(f) = "gpuverify"
    BY HasMembers DEF Owner
  <2> QED
    BY <2>1, <2>2, <2>3 DEF OwnSetting
<1>3. Marks(u)
  BY DEF Marks
<1>4. IsPair(kv) => NumbersIn(u)
  BY DEF NumbersIn
<1> HIDE DEF u
<1>5. IsOverlay(kv, u)
  BY <1>1, <1>2, <1>3, <1>4 DEF IsOverlay, Sets
<1> QED
  BY <1>5

LEMMA KeyPipeline ==
  ASSUME NEW kv, kv.k = "pipeline"
  PROVE  \E u : IsOverlay(kv, u)
<1> DEFINE u == [pipeline |-> kv.str]
<1>1. ASSUME NEW c, IsCtx(c) PROVE SetKey(c, kv) = Over(c, u)
  <2>1. SetKey(c, kv) = [c EXCEPT !.pipeline = kv.str]
    BY DEF SetKey
  <2>2. [c EXCEPT !.pipeline = kv.str] = Over(c, u)
    BY <1>1, HasMembers DEF IsCtx, Over
  <2> QED
    BY <2>1, <2>2
<1>2. OwnSetting(kv, u)
  <2>1. DOMAIN u = {"pipeline"}
    OBVIOUS
  <2>2. Setting(kv.k) = "pipeline"
    BY DEF Setting
  <2>3. \A f \in {"pipeline"} : f \in Members /\ f # "thrown" /\ Owner(f) = "pipeline"
    BY HasMembers DEF Owner
  <2> QED
    BY <2>1, <2>2, <2>3 DEF OwnSetting
<1>3. Marks(u)
  BY DEF Marks
<1>4. IsPair(kv) => NumbersIn(u)
  BY DEF NumbersIn
<1> HIDE DEF u
<1>5. IsOverlay(kv, u)
  BY <1>1, <1>2, <1>3, <1>4 DEF IsOverlay, Sets
<1> QED
  BY <1>5

LEMMA KeyDensity ==
  ASSUME NEW kv, kv.k \in {"density", "densityfactor"}
  PROVE  \E u : IsOverlay(kv, u)
<1> DEFINE u == [nz_density_factor |-> kv.num]
<1>1. ASSUME NEW c, IsCtx(c) PROVE SetKey(c, kv) = Over(c, u)
  <2>1. SetKey(c, kv) = [c EXCEPT !.nz_density_factor = kv.num]
    BY DEF SetKey
  <2>2. [c EXCEPT !.nz_density_factor = kv.num] = Over(c, u)
    BY <1>1, HasMembers DEF IsCtx, Over
  <2> QED
    BY <2>1, <2>2
<1>2. OwnSetting(kv, u)
  <2>1. DOMAIN u = {"nz_density_factor"}
    OBVIOUS
  <2>2. Setting(kv.k) = "density"
    BY DEF Setting
  <2>3. \A f \in {"nz_density_factor"} : f \in Members /\ f # "thrown" /\ Owner(f) = "density"
    BY HasMembers DEF Owner
  <2> QED
    BY <2>1, <2>2, <2>3 DEF OwnSetting
<1>3. Marks(u)
  BY DEF Marks
<1>4. IsPair(kv) => NumbersIn(u)
  BY DEF NumbersIn
<1> HIDE DEF u
<1>5. IsOverlay(kv, u)
  BY <1>1, <1>2, <1>3, <1>4 DEF IsOverlay, Sets
<1> QED
  BY <1>5



\* What parse_input_length makes of a literal.
BoxOf(lit) ==
  LET d == Dims(lit)
      D(k) == IF Len(d) >= k THEN d[k] ELSE 1
  IN  Box(Len(d), D(1), D(2), D(3), D(4))

LEMMA Wraps ==
  ASSUME NEW x \in Int, NEW y \in Int, NEW z \in Int, NEW w \in Int
  PROVE  (x * y * z * w) % UINT \in 0 .. UINT - 1
<1>1. UINT \in Nat /\ UINT > 1
  BY ContextAssumption
<1>2. x * y \in Int
  OBVIOUS
<1>3. x * y * z \in Int
  BY <1>2
<1>4. x * y * z * w \in Int
  BY <1>3
<1> DEFINE p == x * y * z * w
<1> HIDE DEF p
<1>5. p \in Int
  BY <1>4 DEF p
<1>6. p % UINT \in 0 .. UINT - 1
  BY <1>1, <1>5
<1> QED
  BY <1>6 DEF p

LEMMA BoxIs ==
  ASSUME NEW n, NEW x, NEW y, NEW z, NEW w, NEW u, u = Box(n, x, y, z, w)
  PROVE  /\ DOMAIN u = {"ndim", "x", "y", "z", "w", "data_len"}
         /\ u["x"] = x /\ u["y"] = y /\ u["z"] = z /\ u["data_len"] = (x * y * z * w) % UINT
<1> DEFINE len == (x * y * z * w) % UINT
<1>1. u = [ndim |-> n, x |-> x, y |-> y, z |-> z, w |-> w, data_len |-> len]
  BY DEF Box
<1> HIDE DEF len
<1>2. /\ DOMAIN u = {"ndim", "x", "y", "z", "w", "data_len"}
      /\ u["x"] = x /\ u["y"] = y /\ u["z"] = z /\ u["data_len"] = len
  BY <1>1
<1> QED
  BY <1>2 DEF len

LEMMA LengthSets ==
  ASSUME NEW c, IsCtx(c), NEW lit
  PROVE  parse_input_length(c, lit) = Over(c, BoxOf(lit))
<1> DEFINE d == Dims(lit)
           D(k) == IF Len(d) >= k THEN d[k] ELSE 1
<1>1. parse_input_length(c, lit) = Extents(c, Len(d), D(1), D(2), D(3), D(4))
  BY DEF parse_input_length
<1>2. BoxOf(lit) = Box(Len(d), D(1), D(2), D(3), D(4))
  BY DEF BoxOf
<1> HIDE DEF d, D
<1> QED
  BY <1>1, <1>2, ExtentsSet

LEMMA LengthNumbers ==
  ASSUME NEW lit, IsExtents(lit)
  PROVE  BoxOf(lit)["data_len"] \in 0 .. UINT - 1
<1> DEFINE d == Dims(lit)
           D(k) == IF Len(d) >= k THEN d[k] ELSE 1
<1>1. lit.dims \in Seq(Int) /\ lit.dims # <<>>
  BY DEF IsExtents
<1>2. d \in Seq(Int)
  <2>1. lit.dims[1] \in Int
    BY <1>1
  <2>2. <<lit.dims[1]>> \in Seq(Int)
    BY <2>1
  <2> QED
    BY <1>1, <2>2 DEF Dims
<1>3. BoxOf(lit) = Box(Len(d), D(1), D(2), D(3), D(4))
  BY DEF BoxOf
<1> HIDE DEF d
<1>4. D(1) \in Int /\ D(2) \in Int /\ D(3) \in Int /\ D(4) \in Int
  BY <1>2
<1> HIDE DEF D
<1>5. BoxOf(lit)["data_len"] = (D(1) * D(2) * D(3) * D(4)) % UINT
  BY <1>3, BoxIs
<1> QED
  BY <1>4, <1>5, Wraps

\* The members that extents set.
LEMMA BoxOwn ==
  \A f \in {"ndim", "x", "y", "z", "w", "data_len", "predefined_demo"} : f \in Members /\ f # "thrown" /\ Owner(f) = "len"
BY HasMembers DEF Owner

LEMMA KeyLen ==
  ASSUME NEW kv, kv.k \in {"len", "length"}
  PROVE  \E u : IsOverlay(kv, u)
<1> DEFINE u == BoxOf(kv)
<1>1. ASSUME NEW c, IsCtx(c) PROVE SetKey(c, kv) = Over(c, u)
  <2>1. SetKey(c, kv) = parse_input_length(c, kv)
    BY DEF SetKey
  <2> QED
    BY <1>1, <2>1, LengthSets
<1>2. DOMAIN u = {"ndim", "x", "y", "z", "w", "data_len"}
  BY BoxIs DEF BoxOf
<1>3. Setting(kv.k) = "len"
  BY DEF Setting
<1>4. IsPair(kv) => u["data_len"] \in 0 .. UINT - 1
  BY LengthNumbers DEF IsPair
<1> HIDE DEF u
<1>5. OwnSetting(kv, u)
  BY <1>2, <1>3, BoxOwn DEF OwnSetting
<1>6. Marks(u) /\ (IsPair(kv) => NumbersIn(u))
  BY <1>2, <1>4 DEF Marks, NumbersIn
<1> QED
  BY <1>1, <1>5, <1>6 DEF IsOverlay, Sets

\* What a predefined data set makes of a context, and what it does without one of that name.
DemoOf(name) ==
  LET d == DemoSizes[name]
      b == Box(d[5], d[1], d[2], d[3], d[4])
  IN  IF name \notin DOMAIN DemoSizes THEN [f \in {"predefined_demo", "thrown"} |-> TRUE]
      ELSE [f \in {"ndim", "x", "y", "z", "w", "data_len", "predefined_demo"} |-> IF f = "predefined_demo" THEN TRUE ELSE b[f]]

LEMMA DemoSets ==
  ASSUME NEW c, IsCtx(c), NEW name
  PROVE  load_demo_sizes(c, name) = Over(c, DemoOf(name))
<1> DEFINE u == DemoOf(name)
           d == DemoSizes[name]
           b == Box(d[5], d[1], d[2], d[3], d[4])
<1>1. CASE name \notin DOMAIN DemoSizes
  <2> DEFINE v == TRUE
  <2>1. u = [f \in {"predefined_demo", "thrown"} |-> v]
    BY <1>1 DEF DemoOf
  <2> DEFINE r == [[c EXCEPT !.predefined_demo = v] EXCEPT !.thrown = v]
  <2>2. load_demo_sizes(c, name) = r
    BY <1>1 DEF load_demo_sizes, Thrown
  <2> HIDE DEF v
  <2>3. DOMAIN c = Members /\ IsCtx(r)
    BY DEF IsCtx
  <2>4. r["predefined_demo"] = v /\ r["thrown"] = v
    BY <2>3, HasMembers
  <2>5. ASSUME NEW f \in Members, f \notin {"predefined_demo", "thrown"} PROVE r[f] = c[f]
    BY <2>3, <2>5
  <2> HIDE DEF r, u
  <2>6. \A f \in Members : r[f] = IF f \in DOMAIN u THEN u[f] ELSE c[f]
    BY <2>1, <2>4, <2>5
  <2>7. r = Over(c, u)
    BY <2>3, <2>6, OverCtx, SameCtx
  <2> QED
    BY <2>2, <2>7 DEF u
<1>2. CASE name \in DOMAIN DemoSizes
  <2> DEFINE v == TRUE
             e == Over(c, b)
             r == [e EXCEPT !.predefined_demo = v]
  <2>1. u = [f \in {"ndim", "x", "y", "z", "w", "data_len", "predefined_demo"} |-> IF f = "predefined_demo" THEN v ELSE b[f]]
    BY <1>2 DEF DemoOf
  <2>2. Extents(c, d[5], d[1], d[2], d[3], d[4]) = e
    BY ExtentsSet
  <2>3. load_demo_sizes(c, name) = r
    BY <1>2, <2>2 DEF load_demo_sizes
  <2>4. DOMAIN b = {"ndim", "x", "y", "z", "w", "data_len"}
    BY BoxIs
  <2> HIDE DEF v, b, u, d
  <2>5. IsCtx(e) /\ \A f \in Members : e[f] = IF f \in DOMAIN b THEN b[f] ELSE c[f]
    BY OverCtx
  <2> HIDE DEF e
  <2>6. DOMAIN e = Members /\ IsCtx(r)
    BY <2>5 DEF IsCtx
  <2>7. r["predefined_demo"] = v /\ \A f \in Members \ {"predefined_demo"} : r[f] = e[f]
    BY <2>6, HasMembers
  <2> HIDE DEF r
  <2>8. \A f \in Members : r[f] = IF f \in DOMAIN u THEN u[f] ELSE c[f]
    BY <2>1, <2>4, <2>5, <2>7
  <2>9. r = Over(c, u)
    BY <2>6, <2>8, OverCtx, SameCtx
  <2> QED
    BY <2>3, <2>9 DEF u
<1> QED
  BY <1>1, <1>2

LEMMA KeyDemo ==
  ASSUME NEW kv, kv.k = "demo"
  PROVE  \E u : IsOverlay(kv, u)
<1> DEFINE u == DemoOf(kv.str)
           d == DemoSizes[kv.str]
           b == Box(d[5], d[1], d[2], d[3], d[4])
<1>1. ASSUME NEW c, IsCtx(c) PROVE SetKey(c, kv) = Over(c, u)
  <2>1. SetKey(c, kv) = load_demo_sizes(c, kv.str)
    BY DEF SetKey
  <2> QED
    BY <1>1, <2>1, DemoSets
<1>2. Setting(kv.k) = "len"
  BY DEF Setting
<1>3. CASE kv.str \notin DOMAIN DemoSizes
  <2>1. u = [f \in {"predefined_demo", "thrown"} |-> TRUE]
    BY <1>3 DEF DemoOf
  <2> HIDE DEF u
  <2>2. DOMAIN u = {"predefined_demo", "thrown"} /\ u["thrown"] = TRUE
    BY <2>1
  <2>3. OwnSetting(kv, u)
    BY <1>2, <2>2, HasMembers, BoxOwn DEF OwnSetting
  <2>4. Marks(u) /\ NumbersIn(u)
    BY <2>2 DEF Marks, NumbersIn
  <2> QED
    BY <1>1, <2>3, <2>4 DEF IsOverlay, Sets
<1>4. CASE kv.str \in DOMAIN DemoSizes
  <2>1. u = [f \in {"ndim", "x", "y", "z", "w", "data_len", "predefined_demo"} |-> IF f = "predefined_demo" THEN TRUE ELSE b[f]]
    BY <1>4 DEF DemoOf
  <2>2. b["data_len"] = (d[1] * d[2] * d[3] * d[4]) % UINT
    BY BoxIs
  <2>3. d[1] \in Int /\ d[2] \in Int /\ d[3] \in Int /\ d[4] \in Int
    <3>1. \A k \in 1 .. 4 : d[k] \in Int
      BY <1>4, ContextAssumption
    <3> QED
      BY <3>1
  <2>4. b["data_len"] \in 0 .. UINT - 1
    BY <2>2, <2>3, Wraps
  <2> HIDE DEF u, b
  <2>5. DOMAIN u = {"ndim", "x", "y", "z", "w", "data_len", "predefined_demo"} /\ u["data_len"] = b["data_len"]
    BY <2>1
  <2>6. OwnSetting(kv, u)
    BY <1>2, <2>5, BoxOwn DEF OwnSetting
  <2>7. Marks(u) /\ NumbersIn(u)
    BY <2>4, <2>5 DEF Marks, NumbersIn
  <2> QED
    BY <1>1, <2>6, <2>7 DEF IsOverlay, Sets
<1> QED
  BY <1>3, <1>4

(* Of any other key, nothing is made.                                       *)
KnownKey(kv) ==
  \/ kv.k \in {"type", "dtype"}
  \/ kv.k \in {"eb", "errorbound"}
  \/ (kv.k = "mode" /\ kv.str \in {"r2r", "abs"})
  \/ (kv.k = "mode" /\ kv.str \notin {"r2r", "abs"})
  \/ kv.k \in {"len", "length"}
  \/ kv.k = "alloclen"
  \/ kv.k = "demo"
  \/ kv.k \in {"cap", "booklen", "dictsize"}
  \/ kv.k = "radius"
  \/ kv.k = "huffbyte"
  \/ kv.k = "huffchunk"
  \/ kv.k = "predictor"
  \/ (kv.k = "anchor" /\ is_enabled(kv.str))
  \/ (kv.k = "releaseinput" /\ is_enabled(kv.str))
  \/ (kv.k = "gpuverify" /\ is_enabled(kv.str))
  \/ kv.k = "pipeline"
  \/ kv.k \in {"density", "densityfactor"}

LEMMA KeyOther ==
  ASSUME NEW kv, ~KnownKey(kv)
  PROVE  \E u : IsOverlay(kv, u)
<1>1. ASSUME NEW c PROVE SetKey(c, kv) = c
  BY DEF SetKey, KnownKey
<1>2. Sets(kv, <<>>)
  BY <1>1, SetNothing DEF Sets
<1>3. OwnSetting(kv, <<>>) /\ Marks(<<>>) /\ NumbersIn(<<>>)
  BY DEF OwnSetting, Marks, NumbersIn
<1>4. IsOverlay(kv, <<>>)
  BY <1>2, <1>3 DEF IsOverlay
<1> QED
  BY <1>4

(* What a pair does to a context is the same whatever the context is.       *)
LEMMA OverlayIs ==
  ASSUME NEW kv
  PROVE  IsOverlay(kv, Overlay(kv))
<1> DEFINE E == \E u : IsOverlay(kv, u)
<1>1. (kv.k \in {"type", "dtype"}) => E
  BY KeyDtype
<1>2. (kv.k \in {"eb", "errorbound"}) => E
  BY KeyEb
<1>3. (kv.k = "mode" /\ kv.str \in {"r2r", "abs"}) => E
  BY KeyMode
<1>4. (kv.k = "mode" /\ kv.str \notin {"r2r", "abs"}) => E
  BY KeyBadMode
<1>5. (kv.k \in {"len", "length"}) => E
  BY KeyLen
<1>6. (kv.k = "alloclen") => E
  BY KeyAlloclen
<1>7. (kv.k = "demo") => E
  BY KeyDemo
<1>8. (kv.k \in {"cap", "booklen", "dictsize"}) => E
  BY KeyDict
<1>9. (kv.k = "radius") => E
  BY KeyRadius
<1>10. (kv.k = "huffbyte") => E
  BY KeyHuffbyte
<1>11. (kv.k = "huffchunk") => E
  BY KeyHuffchunk
<1>12. (kv.k = "predictor") => E
  BY KeyPredictor
<1>13. (kv.k = "anchor" /\ is_enabled(kv.str)) => E
  BY KeyAnchor
<1>14. (kv.k = "releaseinput" /\ is_enabled(kv.str)) => E
  BY KeyRelease
<1>15. (kv.k = "gpuverify" /\ is_enabled(kv.str)) => E
  BY KeyVerify
<1>16. (kv.k = "pipeline") => E
  BY KeyPipeline
<1>17. (kv.k \in {"density", "densityfactor"}) => E
  BY KeyDensity
<1>18. ~KnownKey(kv) => E
  BY KeyOther
<1> HIDE DEF E
<1>19. E
  BY <1>1, <1>2, <1>3, <1>4, <1>5, <1>6, <1>7, <1>8, <1>9, <1>10, <1>11, <1>12, <1>13, <1>14, <1>15, <1>16, <1>17, <1>18, Zenon DEF KnownKey
<1> QED
  BY <1>19 DEF Overlay, E

-----------------------------------------------------------------------------
(* The orders in which the pairs of a configuration are applied.            *)

\* What comes of applying one of S last, where R has what comes of the others.
Onto(R, S)      == UNION {{AfterKey(d, kv) : d \in R[S \ {kv}]} : kv \in S}
OrdersAt(c, R, S) == IF S = {} THEN {c} ELSE Onto(R, S)
Layer(P, n)     == {S \in SUBSET P : Cardinality(S) <= n}
OrdersUpTo(c, P, n, R) == R = [S \in Layer(P, n) |-> OrdersAt(c, R, S)]

LEMMA SameOnto ==
  ASSUME NEW Q, NEW R, NEW S, \A kv \in S : Q[S \ {kv}] = R[S \ {kv}]
  PROVE  Onto(Q, S) = Onto(R, S)
BY DEF Onto

LEMMA OntoMember ==
  ASSUME NEW R, NEW S, NEW e
  PROVE  e \in Onto(R, S) <=> \E kv \in S : \E d \in R[S \ {kv}] : e = AfterKey(d, kv)
BY DEF Onto

LEMMA LayerBelow ==
  ASSUME NEW P, IsFiniteSet(P), NEW n \in Nat, n > 0, NEW S \in Layer(P, n), NEW kv \in S
  PROVE  S \ {kv} \in Layer(P, n - 1)
<1>1. S \in SUBSET P /\ Cardinality(S) <= n
  BY DEF Layer
<1>2. IsFiniteSet(S)
  BY <1>1, FS_Subset
<1>3. Cardinality(S \ {kv}) = Cardinality(S) - 1 /\ Cardinality(S) \in Nat
  BY <1>2, FS_RemoveElement, FS_CardinalityType
<1>4. Cardinality(S \ {kv}) <= n - 1 /\ S \ {kv} \in SUBSET P
  BY <1>1, <1>3
<1> QED
  BY <1>4 DEF Layer

LEMMA OrdersLayered ==
  ASSUME NEW c, NEW P, IsFiniteSet(P), NEW n \in Nat
  PROVE  \E R : OrdersUpTo(c, P, n, R)
<1> DEFINE Bad == {m \in Nat : ~\E R : OrdersUpTo(c, P, m, R)}
<1>1. SUFFICES ASSUME Bad # {} PROVE FALSE
  OBVIOUS
<1>2. PICK m \in Bad : \A k \in Bad : m <= k
  <2>1. Bad \in SUBSET Nat
    OBVIOUS
  <2> QED
    BY <1>1, <2>1, Least
<1>3. m \in Nat /\ ~\E R : OrdersUpTo(c, P, m, R)
  BY <1>2
<1>4. CASE m = 0
  <2> DEFINE R == [S \in Layer(P, 0) |-> {c}]
  <2>1. \A S \in Layer(P, 0) : S = {}
    <3>1. SUFFICES ASSUME NEW S \in Layer(P, 0) PROVE S = {}
      OBVIOUS
    <3>2. S \in SUBSET P /\ Cardinality(S) <= 0
      BY DEF Layer
    <3>3. IsFiniteSet(S)
      BY <3>2, FS_Subset
    <3>4. Cardinality(S) = 0
      BY <3>2, <3>3, FS_CardinalityType
    <3> QED
      BY <3>3, <3>4, FS_EmptySet
  <2>2. R = [S \in Layer(P, 0) |-> OrdersAt(c, R, S)]
    BY <2>1 DEF OrdersAt
  <2> HIDE DEF R
  <2>3. OrdersUpTo(c, P, 0, R)
    BY <2>2 DEF OrdersUpTo
  <2> QED
    BY <1>3, <1>4, <2>3
<1>5. CASE m > 0
  <2>1. m - 1 \in Nat /\ m - 1 \notin Bad
    BY <1>2, <1>3, <1>5
  <2>2. PICK Q : OrdersUpTo(c, P, m - 1, Q)
    BY <2>1
  <2> DEFINE R == [S \in Layer(P, m) |-> OrdersAt(c, Q, S)]
  <2>3. \A S \in Layer(P, m - 1) : S \in Layer(P, m) /\ Q[S] = R[S]
    <3>1. SUFFICES ASSUME NEW S \in Layer(P, m - 1) PROVE S \in Layer(P, m) /\ Q[S] = R[S]
      OBVIOUS
    <3>2. S \in SUBSET P /\ Cardinality(S) <= m - 1
      BY DEF Layer
    <3>3. Cardinality(S) \in Nat
      BY <3>2, FS_Subset, FS_CardinalityType
    <3>4. S \in Layer(P, m)
      BY <1>3, <3>2, <3>3 DEF Layer
    <3>5. Q[S] = OrdersAt(c, Q, S)
      BY <2>2 DEF OrdersUpTo
    <3> QED
      BY <3>4, <3>5
  <2>4. \A S \in Layer(P, m) : OrdersAt(c, Q, S) = OrdersAt(c, R, S)
    <3>1. SUFFICES ASSUME NEW S \in Layer(P, m) PROVE OrdersAt(c, Q, S) = OrdersAt(c, R, S)
      OBVIOUS
    <3> HIDE DEF R
    <3>2. \A kv \in S : Q[S \ {kv}] = R[S \ {kv}]
      BY <1>3, <1>5, <2>3, LayerBelow
    <3> QED
      BY <3>2, SameOnto DEF OrdersAt
  <2>5. R = [S \in Layer(P, m) |-> OrdersAt(c, R, S)]
    BY <2>4
  <2> HIDE DEF R
  <2>6. OrdersUpTo(c, P, m, R)
    BY <2>5 DEF OrdersUpTo
  <2> QED
    BY <1>3, <2>6
<1> QED
  BY <1>3, <1>4, <1>5

LEMMA OrdersDefined ==
  ASSUME NEW c, NEW P, IsFiniteSet(P)
  PROVE  \A S \in SUBSET P : Orders(c, P)[S] = OrdersAt(c, Orders(c, P), S)
<1> DEFINE n == Cardinality(P)
           E == CHOOSE R : R = [S \in SUBSET P |-> IF S = {} THEN {c}
                                   ELSE UNION {{AfterKey(d, kv) : d \in R[S \ {kv}]} : kv \in S}]
<1>1. n \in Nat
  BY FS_CardinalityType
<1>2. Layer(P, n) = SUBSET P
  <2>1. \A S \in SUBSET P : Cardinality(S) <= n
    BY FS_Subset
  <2> QED
    BY <2>1 DEF Layer
<1>3. PICK R : OrdersUpTo(c, P, n, R)
  BY <1>1, OrdersLayered
<1>4. R = [S \in SUBSET P |-> IF S = {} THEN {c} ELSE UNION {{AfterKey(d, kv) : d \in R[S \ {kv}]} : kv \in S}]
  BY <1>2, <1>3 DEF OrdersUpTo, OrdersAt, Onto
<1>5. E = [S \in SUBSET P |-> IF S = {} THEN {c} ELSE UNION {{AfterKey(d, kv) : d \in E[S \ {kv}]} : kv \in S}]
  BY <1>4, Zenon
<1>6. Orders(c, P) = E
  BY DEF Orders
<1> HIDE DEF E
<1>7. \A S \in SUBSET P : E[S] = OrdersAt(c, E, S)
  BY <1>5 DEF OrdersAt, Onto
<1> QED
  BY <1>6, <1>7

(* A fact about every set of pairs and what comes of it that holds of none  *)
(* and is kept by every pair.                                               *)
LEMMA OrdersKeep ==
  ASSUME NEW c, NEW P, IsFiniteSet(P), NEW G, <<{}, c>> \in G,
         \A S \in SUBSET P : \A kv \in S : \A d \in Orders(c, P)[S \ {kv}] : <<S \ {kv}, d>> \in G => <<S, AfterKey(d, kv)>> \in G
  PROVE  \A S \in SUBSET P : \A d \in Orders(c, P)[S] : <<S, d>> \in G
<1> DEFINE R == Orders(c, P)
           Good(S) == \A d \in R[S] : <<S, d>> \in G
           Bad == {Cardinality(S) : S \in {T \in SUBSET P : ~Good(T)}}
<1>0. \A S \in SUBSET P : R[S] = OrdersAt(c, R, S)
  BY OrdersDefined
<1> HIDE DEF R
<1>1. SUFFICES ASSUME NEW T \in SUBSET P, ~Good(T) PROVE FALSE
  BY DEF R
<1>2. \A S \in SUBSET P : IsFiniteSet(S) /\ Cardinality(S) \in Nat
  BY FS_Subset, FS_CardinalityType
<1>3. PICK m \in Bad : \A k \in Bad : m <= k
  <2>1. Bad \in SUBSET Nat /\ Bad # {}
    BY <1>1, <1>2
  <2> QED
    BY <2>1, Least
<1>4. PICK S \in SUBSET P : ~Good(S) /\ m = Cardinality(S)
  BY <1>3
<1>5. PICK d \in R[S] : <<S, d>> \notin G
  BY <1>4
<1>6. S # {}
  BY <1>0, <1>5 DEF OrdersAt
<1>7. PICK kv \in S : \E b \in R[S \ {kv}] : d = AfterKey(b, kv)
  BY <1>0, <1>5, <1>6, OntoMember DEF OrdersAt
<1>8. Good(S \ {kv})
  <2>1. Cardinality(S \ {kv}) = Cardinality(S) - 1 /\ Cardinality(S) \in Nat /\ S \ {kv} \in SUBSET P
    BY <1>2, FS_RemoveElement
  <2>2. ~(m <= Cardinality(S \ {kv}))
    BY <1>4, <2>1
  <2>3. Cardinality(S \ {kv}) \notin Bad
    BY <1>3, <2>2
  <2> QED
    BY <2>1, <2>3
<1>9. PICK b \in R[S \ {kv}] : d = AfterKey(b, kv)
  BY <1>7
<1>10. <<S, AfterKey(b, kv)>> \in G
  BY <1>8, <1>9 DEF R
<1> QED
  BY <1>5, <1>9, <1>10

\* What is needed of a context: the numbers that count something, and the path.
Typed(c) ==
  /\ IsCtx(c)
  /\ c["data_len"] \in 0 .. UINT - 1 /\ c["radius"] \in Int /\ c["vle_sublen"] \in Int
  /\ c["fname"] \in Seq(STRING) /\ c["thrown"] \in BOOLEAN

\* What AfterKey makes of d, member by member.
Sent(d, u, e) ==
  /\ IsCtx(e)
  /\ \A f \in Members \ {"anchor"} : e[f] = IF f \in DOMAIN u THEN u[f] ELSE d[f]
  /\ e["anchor"] = IF e["predictor"] = "spline3" THEN TRUE ELSE IF "anchor" \in DOMAIN u THEN u["anchor"] ELSE d["anchor"]

LEMMA AfterKeyIs ==
  ASSUME NEW d, NEW kv, IsCtx(d)
  PROVE  /\ d["thrown"] = TRUE => AfterKey(d, kv) = d
         /\ d["thrown"] = FALSE => Sent(d, Overlay(kv), AfterKey(d, kv))
<1> DEFINE u == Overlay(kv)
           g == Over(d, u)
           v == TRUE
           r == [g EXCEPT !.anchor = v]
<1>1. SetKey(d, kv) = g
  BY OverlayIs DEF IsOverlay, Sets
<1>2. d["thrown"] = TRUE => AfterKey(d, kv) = d
  BY DEF AfterKey
<1>3. d["thrown"] = FALSE => AfterKey(d, kv) = IF g["predictor"] = "spline3" THEN r ELSE g
  BY <1>1 DEF AfterKey
<1> HIDE DEF u, v
<1>4. IsCtx(g) /\ \A f \in Members : g[f] = IF f \in DOMAIN u THEN u[f] ELSE d[f]
  BY OverCtx
<1> HIDE DEF g
<1>5. DOMAIN g = Members /\ IsCtx(r)
  BY <1>4 DEF IsCtx
<1>6. r["anchor"] = v /\ \A f \in Members \ {"anchor"} : r[f] = g[f]
  BY <1>5, HasMembers
<1> HIDE DEF r
<1>7. "anchor" \in Members /\ "predictor" \in Members /\ "predictor" # "anchor"
  BY HasMembers
<1>8. g["predictor"] = "spline3" => Sent(d, u, r)
  BY <1>4, <1>5, <1>6, <1>7 DEF Sent, v
<1>9. g["predictor"] # "spline3" => Sent(d, u, g)
  BY <1>4, <1>7 DEF Sent
<1> QED
  BY <1>2, <1>3, <1>8, <1>9 DEF u

LEMMA AfterKeyTyped ==
  ASSUME NEW d, NEW kv, Typed(d), IsPair(kv)
  PROVE  Typed(AfterKey(d, kv))
<1> DEFINE u == Overlay(kv)
           e == AfterKey(d, kv)
<1>1. IsOverlay(kv, u)
  BY OverlayIs
<1>2. NumbersIn(u) /\ "fname" \notin DOMAIN u /\ ("thrown" \in DOMAIN u => u["thrown"] = TRUE)
  BY <1>1 DEF IsOverlay, Marks, OwnSetting
<1> HIDE DEF u, e
<1>3. CASE d["thrown"] = TRUE
  BY <1>3, AfterKeyIs DEF Typed, e
<1>4. CASE d["thrown"] = FALSE
  <2>1. Sent(d, u, e)
    BY <1>4, AfterKeyIs DEF Typed, e, u
  <2>2. \A f \in {"data_len", "radius", "vle_sublen", "fname", "thrown"} : e[f] = IF f \in DOMAIN u THEN u[f] ELSE d[f]
    <3>1. \A f \in {"data_len", "radius", "vle_sublen", "fname", "thrown"} : f \in Members \ {"anchor"}
      BY HasMembers
    <3> QED
      BY <2>1, <3>1 DEF Sent
  <2>3. e["data_len"] \in 0 .. UINT - 1
    BY <1>2, <2>2 DEF NumbersIn, Typed
  <2>4. e["radius"] \in Int /\ e["vle_sublen"] \in Int
    BY <1>2, <2>2 DEF NumbersIn, Typed
  <2>5. e["fname"] \in Seq(STRING) /\ e["thrown"] \in BOOLEAN
    BY <1>2, <2>2 DEF Typed
  <2> QED
    BY <2>1, <2>3, <2>4, <2>5 DEF Typed, Sent, e
<1> QED
  BY <1>3, <1>4 DEF Typed

-----------------------------------------------------------------------------
(* What the pairs of S make of c, in whatever order they were applied.      *)

Throws(S) == \E kv \in S : "thrown" \in DOMAIN Overlay(kv)
Plain(c, S, d) ==
  \A f \in Members \ {"anchor", "thrown"} :
    /\ \A kv \in S : f \in DOMAIN Overlay(kv) => d[f] = Overlay(kv)[f]
    /\ (\A kv \in S : f \notin DOMAIN Overlay(kv)) => d[f] = c[f]
Predicting(kv) == "predictor" \in DOMAIN Overlay(kv)
Turns(kv)      == "anchor" \in DOMAIN Overlay(kv) \/ (Predicting(kv) /\ Overlay(kv)["predictor"] = "spline3")
Turned(c, S)   == (S # {} /\ c["predictor"] = "spline3") \/ \E kv \in S : Turns(kv)
AnchorIs(c, S, d) == d["anchor"] = IF Turned(c, S) THEN TRUE ELSE c["anchor"]
\* No pair of P replaces a predictor of spline3.
Keeps(c, P) == c["predictor"] # "spline3" \/ \A kv \in P : ~Predicting(kv)
Applied(c, P, S, d) ==
  /\ IsCtx(d)
  /\ IF Throws(S) THEN d["thrown"] = TRUE
     ELSE d["thrown"] = FALSE /\ Plain(c, S, d) /\ (Keeps(c, P) => AnchorIs(c, S, d))

\* No two of the pairs are of one setting.
Distinct(P) == \A kv \in P : \A l \in P : Setting(kv.k) = Setting(l.k) => kv = l

LEMMA OverlaysApart ==
  ASSUME NEW P, Distinct(P), NEW kv \in P, NEW l \in P, NEW f, f # "thrown",
         f \in DOMAIN Overlay(kv), f \in DOMAIN Overlay(l)
  PROVE  kv = l
<1>1. IsOverlay(kv, Overlay(kv)) /\ IsOverlay(l, Overlay(l))
  BY OverlayIs
<1>2. Owner(f) = Setting(kv.k) /\ Owner(f) = Setting(l.k)
  BY <1>1 DEF IsOverlay, OwnSetting
<1> QED
  BY <1>2 DEF Distinct

LEMMA PlainStep ==
  ASSUME NEW c, NEW P, Distinct(P), NEW S \in SUBSET P, NEW kv \in S, NEW d, NEW e,
         Plain(c, S \ {kv}, d), Sent(d, Overlay(kv), e)
  PROVE  Plain(c, S, e)
<1>1. SUFFICES ASSUME NEW f \in Members \ {"anchor", "thrown"}
               PROVE  /\ \A l \in S : f \in DOMAIN Overlay(l) => e[f] = Overlay(l)[f]
                      /\ (\A l \in S : f \notin DOMAIN Overlay(l)) => e[f] = c[f]
  BY DEF Plain
<1>2. e[f] = IF f \in DOMAIN Overlay(kv) THEN Overlay(kv)[f] ELSE d[f]
  BY DEF Sent
<1>3. ASSUME NEW l \in S, f \in DOMAIN Overlay(l) PROVE e[f] = Overlay(l)[f]
  <2>1. CASE l = kv
    BY <1>2, <1>3, <2>1
  <2>2. CASE l # kv
    <3>1. f \notin DOMAIN Overlay(kv)
      BY <1>3, <2>2, OverlaysApart
    <3>2. d[f] = Overlay(l)[f]
      BY <1>3, <2>2 DEF Plain
    <3> QED
      BY <1>2, <3>1, <3>2
  <2> QED
    BY <2>1, <2>2
<1>4. ASSUME \A l \in S : f \notin DOMAIN Overlay(l) PROVE e[f] = c[f]
  <2>1. d[f] = c[f]
    BY <1>4 DEF Plain
  <2> QED
    BY <1>2, <1>4, <2>1
<1> QED
  BY <1>3, <1>4

\* The predictor that comes of S: what a pair of S says, or c's.
LEMMA PlainPredictor ==
  ASSUME NEW c, NEW S, NEW e, Plain(c, S, e)
  PROVE  /\ \A kv \in S : Predicting(kv) => e["predictor"] = Overlay(kv)["predictor"]
         /\ (\A kv \in S : ~Predicting(kv)) => e["predictor"] = c["predictor"]
<1>1. "predictor" \in Members \ {"anchor", "thrown"}
  BY HasMembers
<1> QED
  BY <1>1 DEF Plain, Predicting

LEMMA AnchorStep ==
  ASSUME NEW c, NEW P, Keeps(c, P), NEW S \in SUBSET P, NEW kv \in S, NEW d, NEW e,
         Plain(c, S, e), Sent(d, Overlay(kv), e), AnchorIs(c, S \ {kv}, d)
  PROVE  AnchorIs(c, S, e)
<1>0. S # {}
  OBVIOUS
<1>1. CASE e["predictor"] = "spline3"
  <2>1. e["anchor"] = TRUE
    BY <1>1 DEF Sent
  <2>2. Turned(c, S)
    <3>1. CASE \E l \in S : Predicting(l)
      <4>1. PICK l \in S : Predicting(l)
        BY <3>1
      <4>2. Overlay(l)["predictor"] = "spline3"
        BY <1>1, <4>1, PlainPredictor
      <4> QED
        BY <4>1, <4>2 DEF Turned, Turns
    <3>2. CASE \A l \in S : ~Predicting(l)
      BY <1>0, <1>1, <3>2, PlainPredictor DEF Turned
    <3> QED
      BY <3>1, <3>2
  <2> QED
    BY <2>1, <2>2 DEF AnchorIs
<1>2. CASE e["predictor"] # "spline3" /\ "anchor" \in DOMAIN Overlay(kv)
  <2>1. Overlay(kv)["anchor"] = TRUE
    BY <1>2, OverlayIs DEF IsOverlay, Marks
  <2>2. e["anchor"] = TRUE
    BY <1>2, <2>1 DEF Sent
  <2>3. Turned(c, S)
    BY <1>2 DEF Turned, Turns
  <2> QED
    BY <2>2, <2>3 DEF AnchorIs
<1>3. CASE e["predictor"] # "spline3" /\ "anchor" \notin DOMAIN Overlay(kv)
  <2>1. e["anchor"] = d["anchor"]
    BY <1>3 DEF Sent
  <2>2. Turned(c, S) => Turned(c, S \ {kv})
    <3>1. ~(c["predictor"] = "spline3")
      <4>1. SUFFICES ASSUME c["predictor"] = "spline3" PROVE FALSE
        OBVIOUS
      <4>2. \A l \in S : ~Predicting(l)
        BY <4>1 DEF Keeps
      <4> QED
        BY <1>3, <4>1, <4>2, PlainPredictor
    <3>2. ~Turns(kv)
      BY <1>3, PlainPredictor DEF Turns
    <3> QED
      BY <3>1, <3>2 DEF Turned
  <2>3. Turned(c, S \ {kv}) => Turned(c, S)
    BY DEF Turned
  <2>4. Turned(c, S) <=> Turned(c, S \ {kv})
    BY <2>2, <2>3
  <2> HIDE DEF Turned
  <2> QED
    BY <2>1, <2>4 DEF AnchorIs
<1> QED
  BY <1>1, <1>2, <1>3

LEMMA AppliedStep ==
  ASSUME NEW c, NEW P, Distinct(P), NEW S \in SUBSET P, NEW kv \in S, NEW d, Applied(c, P, S \ {kv}, d)
  PROVE  Applied(c, P, S, AfterKey(d, kv))
<1> DEFINE e == AfterKey(d, kv)
<1>0. IsCtx(d)
  BY DEF Applied
<1>1. CASE Throws(S \ {kv})
  <2>1. e = d /\ d["thrown"] = TRUE
    BY <1>0, <1>1, AfterKeyIs DEF Applied
  <2>2. Throws(S)
    BY <1>1 DEF Throws
  <2> QED
    BY <1>0, <2>1, <2>2 DEF Applied
<1>2. CASE ~Throws(S \ {kv})
  <2>1. d["thrown"] = FALSE /\ Plain(c, S \ {kv}, d) /\ (Keeps(c, P) => AnchorIs(c, S \ {kv}, d))
    BY <1>2 DEF Applied
  <2>2. Sent(d, Overlay(kv), e)
    BY <1>0, <2>1, AfterKeyIs
  <2> HIDE DEF e
  <2>3. e["thrown"] = IF "thrown" \in DOMAIN Overlay(kv) THEN Overlay(kv)["thrown"] ELSE d["thrown"]
    <3>1. "thrown" \in Members \ {"anchor"}
      BY HasMembers
    <3> QED
      BY <2>2, <3>1 DEF Sent
  <2>4. IsCtx(e)
    BY <2>2 DEF Sent
  <2>5. CASE "thrown" \in DOMAIN Overlay(kv)
    <3>1. Overlay(kv)["thrown"] = TRUE
      BY <2>5, OverlayIs DEF IsOverlay, OwnSetting
    <3>2. Throws(S)
      BY <2>5 DEF Throws
    <3> QED
      BY <2>3, <2>4, <2>5, <3>1, <3>2 DEF Applied, e
  <2>6. CASE "thrown" \notin DOMAIN Overlay(kv)
    <3>1. ~Throws(S)
      BY <1>2, <2>6 DEF Throws
    <3>2. Plain(c, S, e)
      BY <2>1, <2>2, PlainStep
    <3>3. Keeps(c, P) => AnchorIs(c, S, e)
      BY <2>1, <2>2, <3>2, AnchorStep
    <3> QED
      BY <2>1, <2>3, <2>4, <2>6, <3>1, <3>2, <3>3 DEF Applied, e
  <2> QED
    BY <2>5, <2>6
<1> QED
  BY <1>1, <1>2

LEMMA OrdersApplied ==
  ASSUME NEW c, IsCtx(c), c["thrown"] = FALSE, NEW P, IsFiniteSet(P), Distinct(P)
  PROVE  \A S \in SUBSET P : \A d \in Orders(c, P)[S] : Applied(c, P, S, d)
<1> DEFINE R == Orders(c, P)
           Reach == UNION {R[S] : S \in SUBSET P}
           G == {p \in (SUBSET P) \X Reach : Applied(c, P, p[1], p[2])}
<1>0. \A S \in SUBSET P : R[S] = OrdersAt(c, R, S)
  BY OrdersDefined
<1>1. Applied(c, P, {}, c)
  BY DEF Applied, Throws, Plain, AnchorIs, Turned
<1>2. c \in Reach
  <2>1. R[{}] = {c} /\ {} \in SUBSET P
    BY <1>0 DEF OrdersAt
  <2> QED
    BY <2>1
<1>3. <<{}, c>> \in G
  BY <1>1, <1>2
<1>4. ASSUME NEW S \in SUBSET P, NEW kv \in S, NEW d \in R[S \ {kv}], <<S \ {kv}, d>> \in G
      PROVE  <<S, AfterKey(d, kv)>> \in G
  <2> HIDE DEF R
  <2>5. AfterKey(d, kv) \in Onto(R, S)
    BY <1>4, OntoMember
  <2>6. R[S] = Onto(R, S)
    BY <1>0 DEF OrdersAt
  <2>1. AfterKey(d, kv) \in R[S]
    BY <2>5, <2>6
  <2>2. AfterKey(d, kv) \in Reach
    BY <2>1
  <2>3. Applied(c, P, S \ {kv}, d)
    BY <1>4
  <2>4. Applied(c, P, S, AfterKey(d, kv))
    BY <2>3, AppliedStep
  <2> QED
    BY <2>2, <2>4
<1> HIDE DEF Reach
<1>5. \A S \in SUBSET P : \A d \in R[S] : <<S, d>> \in G
  <2> HIDE DEF G
  <2> QED
    BY <1>3, <1>4, OrdersKeep
<1> QED
  BY <1>5

LEMMA OrdersTyped ==
  ASSUME NEW c, Typed(c), NEW P, IsFiniteSet(P), \A kv \in P : IsPair(kv)
  PROVE  \A d \in Orders(c, P)[P] : Typed(d)
<1> DEFINE R == Orders(c, P)
           Reach == UNION {R[S] : S \in SUBSET P}
           G == {p \in (SUBSET P) \X Reach : Typed(p[2])}
<1>0. \A S \in SUBSET P : R[S] = OrdersAt(c, R, S)
  BY OrdersDefined
<1>2. c \in Reach
  <2>1. R[{}] = {c} /\ {} \in SUBSET P
    BY <1>0 DEF OrdersAt
  <2> QED
    BY <2>1
<1>3. <<{}, c>> \in G
  BY <1>2
<1>4. ASSUME NEW S \in SUBSET P, NEW kv \in S, NEW d \in R[S \ {kv}], <<S \ {kv}, d>> \in G
      PROVE  <<S, AfterKey(d, kv)>> \in G
  <2> HIDE DEF R
  <2>5. AfterKey(d, kv) \in Onto(R, S)
    BY <1>4, OntoMember
  <2>6. R[S] = Onto(R, S)
    BY <1>0 DEF OrdersAt
  <2>1. AfterKey(d, kv) \in R[S]
    BY <2>5, <2>6
  <2>2. AfterKey(d, kv) \in Reach
    BY <2>1
  <2>3. Typed(d) /\ IsPair(kv)
    BY <1>4
  <2>4. Typed(AfterKey(d, kv))
    BY <2>3, AfterKeyTyped
  <2> QED
    BY <2>2, <2>4
<1> HIDE DEF Reach
<1>5. \A S \in SUBSET P : \A d \in R[S] : <<S, d>> \in G
  <2> HIDE DEF G
  <2> QED
    BY <1>3, <1>4, OrdersKeep
<1>6. P \in SUBSET P
  OBVIOUS
<1> QED
  BY <1>5, <1>6

-----------------------------------------------------------------------------
(* A configuration string.                                                  *)

IsSeq(s) == \E X : s \in Seq(X)

LEMMA PairsFinite ==
  ASSUME NEW kvs, IsSeq(kvs)
  PROVE  /\ IsFiniteSet(parse_strlist_as_kv(kvs))
         /\ \A kv \in parse_strlist_as_kv(kvs) : \E k \in DOMAIN kvs : kv = kvs[k]
<1> DEFINE I == {k \in DOMAIN kvs : \A j \in 1 .. k - 1 : kvs[j].k # kvs[k].k}
           f == [k \in I |-> kvs[k]]
           P == {kvs[k] : k \in I}
<1>1. parse_strlist_as_kv(kvs) = P
  BY DEF parse_strlist_as_kv
<1>2. PICK X : kvs \in Seq(X)
  BY DEF IsSeq
<1>3. DOMAIN kvs = 1 .. Len(kvs) /\ Len(kvs) \in Nat
  BY <1>2
<1>4. IsFiniteSet(1 .. Len(kvs))
  BY <1>3, FS_Interval
<1>5. I \in SUBSET (1 .. Len(kvs))
  BY <1>3
<1>6. IsFiniteSet(I)
  BY <1>4, <1>5, FS_Subset
<1> HIDE DEF I
<1>7. f \in Surjection(I, P)
  BY DEF Surjection
<1>8. IsFiniteSet(P)
  BY <1>6, <1>7, FS_Surjection
<1>9. \A kv \in P : \E k \in DOMAIN kvs : kv = kvs[k]
  BY DEF I
<1> QED
  BY <1>1, <1>8, <1>9

\* Of pairs without "=", none comes into the map.
Paired(kvs) == \A k \in DOMAIN kvs : is_kv_pair(kvs[k])

LEMMA ConfigIs ==
  ASSUME NEW c, NEW kvs
  PROVE  set_config(c, kvs) = IF Paired(kvs) THEN Orders(c, parse_strlist_as_kv(kvs))[parse_strlist_as_kv(kvs)] ELSE {Thrown(c)}
BY DEF set_config, Paired, separate_kv

LEMMA ThrownIs ==
  ASSUME NEW c, IsCtx(c)
  PROVE  /\ IsCtx(Thrown(c)) /\ Thrown(c)["thrown"] = TRUE
         /\ \A f \in Members \ {"thrown"} : Thrown(c)[f] = c[f]
<1> DEFINE v == TRUE
           r == [c EXCEPT !.thrown = v]
<1>1. Thrown(c) = r
  BY DEF Thrown
<1> HIDE DEF v
<1>2. IsCtx(r) /\ r["thrown"] = v /\ \A f \in Members \ {"thrown"} : r[f] = c[f]
  BY HasMembers DEF IsCtx
<1> QED
  BY <1>1, <1>2 DEF v

(* A configuration leaves a context as it is needed.                        *)
LEMMA ConfigTyped ==
  ASSUME NEW c, Typed(c), NEW kvs, IsSeq(kvs), \A k \in DOMAIN kvs : is_kv_pair(kvs[k]) => IsPair(kvs[k])
  PROVE  \A d \in set_config(c, kvs) : Typed(d)
<1>1. CASE ~Paired(kvs)
  <2>1. set_config(c, kvs) = {Thrown(c)}
    BY <1>1, ConfigIs
  <2>2. \A f \in {"data_len", "radius", "vle_sublen", "fname"} : f \in Members \ {"thrown"}
    BY HasMembers
  <2>3. IsCtx(Thrown(c)) /\ Thrown(c)["thrown"] = TRUE /\ \A f \in Members \ {"thrown"} : Thrown(c)[f] = c[f]
    BY ThrownIs DEF Typed
  <2>4. Typed(Thrown(c))
    BY <2>2, <2>3 DEF Typed
  <2> QED
    BY <2>1, <2>4
<1>2. CASE Paired(kvs)
  <2> DEFINE P == parse_strlist_as_kv(kvs)
  <2>1. set_config(c, kvs) = Orders(c, P)[P]
    BY <1>2, ConfigIs
  <2>2. IsFiniteSet(P) /\ \A kv \in P : \E k \in DOMAIN kvs : kv = kvs[k]
    BY PairsFinite
  <2>3. \A kv \in P : IsPair(kv)
    BY <1>2, <2>2 DEF Paired
  <2> HIDE DEF P
  <2> QED
    BY <2>1, <2>2, <2>3, OrdersTyped
<1> QED
  BY <1>1, <1>2

LEMMA PairsDistinct ==
  ASSUME NEW kvs, IsSeq(kvs), \A j, k \in DOMAIN kvs : Setting(kvs[j].k) = Setting(kvs[k].k) => kvs[j].k = kvs[k].k
  PROVE  Distinct(parse_strlist_as_kv(kvs))
<1> DEFINE I == {k \in DOMAIN kvs : \A j \in 1 .. k - 1 : kvs[j].k # kvs[k].k}
           P == {kvs[k] : k \in I}
<1>1. parse_strlist_as_kv(kvs) = P
  BY DEF parse_strlist_as_kv
<1>2. PICK X : kvs \in Seq(X)
  BY DEF IsSeq
<1>3. DOMAIN kvs = 1 .. Len(kvs) /\ Len(kvs) \in Nat
  BY <1>2
<1>4. SUFFICES ASSUME NEW p \in P, NEW q \in P, Setting(p.k) = Setting(q.k) PROVE p = q
  BY <1>1 DEF Distinct
<1>5. PICK j \in I : p = kvs[j]
  OBVIOUS
<1>6. PICK k \in I : q = kvs[k]
  OBVIOUS
<1>7. kvs[j].k = kvs[k].k /\ j \in 1 .. Len(kvs) /\ k \in 1 .. Len(kvs)
  BY <1>3, <1>4, <1>5, <1>6
<1>8. ~(j < k)
  <2>1. SUFFICES ASSUME j < k PROVE FALSE
    OBVIOUS
  <2>2. j \in 1 .. k - 1
    BY <1>7, <2>1
  <2> QED
    BY <1>6, <1>7, <2>2
<1>9. ~(k < j)
  <2>1. SUFFICES ASSUME k < j PROVE FALSE
    OBVIOUS
  <2>2. k \in 1 .. j - 1
    BY <1>7, <2>1
  <2> QED
    BY <1>5, <1>7, <2>2
<1>10. j = k
  BY <1>7, <1>8, <1>9
<1> QED
  BY <1>5, <1>6, <1>10

Alike(c, P, d, e) ==
  \/ d["thrown"] = TRUE /\ e["thrown"] = TRUE
  \/ (\A f \in Members \ {"anchor"} : d[f] = e[f]) /\ (Keeps(c, P) => d["anchor"] = e["anchor"])

(* Two contexts that come of the same pairs are the same, but for the       *)
(* anchor when a predictor of spline3 is replaced.                          *)
LEMMA AppliedSame ==
  ASSUME NEW c, NEW P, NEW d, NEW e, Applied(c, P, P, d), Applied(c, P, P, e)
  PROVE  Alike(c, P, d, e)
<1>1. CASE Throws(P)
  BY <1>1 DEF Applied, Alike
<1>2. CASE ~Throws(P)
  <2>1. d["thrown"] = FALSE /\ e["thrown"] = FALSE /\ Plain(c, P, d) /\ Plain(c, P, e)
    BY <1>2 DEF Applied
  <2>2. Keeps(c, P) => AnchorIs(c, P, d) /\ AnchorIs(c, P, e)
    BY <1>2 DEF Applied
  <2>3. ASSUME NEW f \in Members \ {"anchor"} PROVE d[f] = e[f]
    <3>1. CASE f = "thrown"
      BY <2>1, <3>1
    <3>2. CASE f # "thrown"
      <4>1. CASE \E kv \in P : f \in DOMAIN Overlay(kv)
        BY <2>1, <3>2, <4>1 DEF Plain
      <4>2. CASE \A kv \in P : f \notin DOMAIN Overlay(kv)
        <5>1. d[f] = c[f]
          BY <2>1, <3>2, <4>2 DEF Plain
        <5>2. e[f] = c[f]
          BY <2>1, <3>2, <4>2 DEF Plain
        <5> QED
          BY <5>1, <5>2
      <4> QED
        BY <4>1, <4>2
    <3> QED
      BY <3>1, <3>2
  <2>4. Keeps(c, P) => d["anchor"] = e["anchor"]
    <3>1. CASE Turned(c, P)
      BY <2>2, <3>1 DEF AnchorIs
    <3>2. CASE ~Turned(c, P)
      BY <2>2, <3>2 DEF AnchorIs
    <3> QED
      BY <3>1, <3>2
  <2> QED
    BY <2>3, <2>4 DEF Alike
<1> QED
  BY <1>1, <1>2

LEMMA AnchoredIs ==
  ASSUME NEW c, IsCtx(c)
  PROVE  /\ IsCtx(Anchored(c)) /\ Anchored(c)["anchor"] = TRUE
         /\ \A f \in Members \ {"anchor"} : Anchored(c)[f] = c[f]
<1> DEFINE v == TRUE
           r == [c EXCEPT !.anchor = v]
<1>1. Anchored(c) = r
  BY DEF Anchored
<1> HIDE DEF v
<1>2. IsCtx(r) /\ r["anchor"] = v /\ \A f \in Members \ {"anchor"} : r[f] = c[f]
  BY HasMembers DEF IsCtx
<1> QED
  BY <1>1, <1>2 DEF v

\* A pair that sets the predictor is named so.
LEMMA PredictingIs ==
  ASSUME NEW kv, Predicting(kv)
  PROVE  kv.k = "predictor"
<1>1. Owner("predictor") = Setting(kv.k)
  BY OverlayIs DEF Predicting, IsOverlay, OwnSetting
<1>2. Owner("predictor") = "predictor"
  BY DEF Owner
<1> QED
  BY <1>1, <1>2 DEF Setting

(* What OrderIrrelevant says of one context and one configuration.          *)
LEMMA ConfigSame ==
  ASSUME NEW c, IsCtx(c), c["thrown"] = FALSE, NEW kvs, IsSeq(kvs),
         \A j, k \in DOMAIN kvs : Setting(kvs[j].k) = Setting(kvs[k].k) => kvs[j].k = kvs[k].k,
         NEW d \in set_config(c, kvs), NEW e \in set_config(c, kvs)
  PROVE  \/ d = e \/ (d["thrown"] = TRUE /\ e["thrown"] = TRUE)
         \/ c["predictor"] = "spline3" /\ (\E j \in DOMAIN kvs : kvs[j].k = "predictor") /\ Anchored(d) = Anchored(e)
<1>1. CASE ~Paired(kvs)
  BY <1>1, ConfigIs
<1>2. CASE Paired(kvs)
  <2> DEFINE P == parse_strlist_as_kv(kvs)
  <2>1. set_config(c, kvs) = Orders(c, P)[P]
    BY <1>2, ConfigIs
  <2>2. IsFiniteSet(P) /\ \A kv \in P : \E k \in DOMAIN kvs : kv = kvs[k]
    BY PairsFinite
  <2>3. Distinct(P)
    BY PairsDistinct
  <2> HIDE DEF P
  <2>4. P \in SUBSET P
    OBVIOUS
  <2>5. Applied(c, P, P, d) /\ Applied(c, P, P, e)
    BY <2>1, <2>2, <2>3, <2>4, OrdersApplied
  <2>6. IsCtx(d) /\ IsCtx(e)
    BY <2>5 DEF Applied
  <2>7. CASE d["thrown"] = TRUE /\ e["thrown"] = TRUE
    BY <2>7
  <2>8. CASE (\A f \in Members \ {"anchor"} : d[f] = e[f]) /\ (Keeps(c, P) => d["anchor"] = e["anchor"])
    <3>1. CASE Keeps(c, P)
      <4>1. \A f \in Members : d[f] = e[f]
        BY <2>8, <3>1
      <4> QED
        BY <2>6, <4>1, SameCtx
    <3>2. CASE ~Keeps(c, P)
      <4>1. c["predictor"] = "spline3" /\ \E kv \in P : Predicting(kv)
        BY <3>2 DEF Keeps
      <4>2. \E j \in DOMAIN kvs : kvs[j].k = "predictor"
        BY <2>2, <4>1, PredictingIs
      <4>3. \A f \in Members : Anchored(d)[f] = Anchored(e)[f]
        <5>1. Anchored(d)["anchor"] = Anchored(e)["anchor"]
          BY <2>6, AnchoredIs
        <5>2. \A f \in Members \ {"anchor"} : Anchored(d)[f] = d[f] /\ Anchored(e)[f] = e[f]
          BY <2>6, AnchoredIs
        <5> QED
          BY <2>8, <5>1, <5>2
      <4>4. Anchored(d) = Anchored(e)
        BY <2>6, <4>3, AnchoredIs, SameCtx
      <4> QED
        BY <4>1, <4>2, <4>4
    <3> QED
      BY <3>1, <3>2
  <2>9. Alike(c, P, d, e)
    BY <2>5, AppliedSame
  <2> QED
    BY <2>7, <2>8, <2>9 DEF Alike
<1> QED
  BY <1>1, <1>2

-----------------------------------------------------------------------------
(* The options.                                                             *)

Needed == {"data_len", "radius", "vle_sublen", "fname", "thrown"}

LEMMA NeededMembers == Needed \subseteq Members
BY HasMembers DEF Needed

\* d is c but for members that are not needed.
Aside(c, d) == IsCtx(d) /\ \A f \in Needed : d[f] = c[f]

LEMMA AsideTyped ==
  ASSUME NEW c, NEW d, Typed(c), Aside(c, d)
  PROVE  Typed(d) /\ d["thrown"] = c["thrown"]
<1>1. /\ d["data_len"] = c["data_len"] /\ d["radius"] = c["radius"] /\ d["vle_sublen"] = c["vle_sublen"]
      /\ d["fname"] = c["fname"] /\ d["thrown"] = c["thrown"]
  BY DEF Aside, Needed
<1>2. IsCtx(d)
  BY DEF Aside
<1> QED
  BY <1>1, <1>2 DEF Typed

LEMMA AsideSelf ==
  ASSUME NEW c, IsCtx(c)
  PROVE  Aside(c, c)
BY DEF Aside

LEMMA AsideConstruct ==
  ASSUME NEW c, IsCtx(c), NEW v0
  PROVE  Aside(c, [c EXCEPT !.construct = v0])
<1> DEFINE r == [c EXCEPT !.construct = v0]
<1>1. DOMAIN c = Members /\ IsCtx(r)
  BY DEF IsCtx
<1>2. r["data_len"] = c["data_len"] /\ r["radius"] = c["radius"] /\ r["vle_sublen"] = c["vle_sublen"]
  BY <1>1, NeededMembers DEF Needed
<1>3. r["fname"] = c["fname"] /\ r["thrown"] = c["thrown"]
  BY <1>1, NeededMembers DEF Needed
<1> HIDE DEF r
<1>4. Aside(c, r)
  BY <1>1, <1>2, <1>3 DEF Aside, Needed
<1> QED
  BY <1>4 DEF r

LEMMA AsideReconstruct ==
  ASSUME NEW c, IsCtx(c), NEW v0
  PROVE  Aside(c, [c EXCEPT !.reconstruct = v0])
<1> DEFINE r == [c EXCEPT !.reconstruct = v0]
<1>1. DOMAIN c = Members /\ IsCtx(r)
  BY DEF IsCtx
<1>2. r["data_len"] = c["data_len"] /\ r["radius"] = c["radius"] /\ r["vle_sublen"] = c["vle_sublen"]
  BY <1>1, NeededMembers DEF Needed
<1>3. r["fname"] = c["fname"] /\ r["thrown"] = c["thrown"]
  BY <1>1, NeededMembers DEF Needed
<1> HIDE DEF r
<1>4. Aside(c, r)
  BY <1>1, <1>2, <1>3 DEF Aside, Needed
<1> QED
  BY <1>4 DEF r

LEMMA AsideDryrun ==
  ASSUME NEW c, IsCtx(c), NEW v0
  PROVE  Aside(c, [c EXCEPT !.dryrun = v0])
<1> DEFINE r == [c EXCEPT !.dryrun = v0]
<1>1. DOMAIN c = Members /\ IsCtx(r)
  BY DEF IsCtx
<1>2. r["data_len"] = c["data_len"] /\ r["radius"] = c["radius"] /\ r["vle_sublen"] = c["vle_sublen"]
  BY <1>1, NeededMembers DEF Needed
<1>3. r["fname"] = c["fname"] /\ r["thrown"] = c["thrown"]
  BY <1>1, NeededMembers DEF Needed
<1> HIDE DEF r
<1>4. Aside(c, r)
  BY <1>1, <1>2, <1>3 DEF Aside, Needed
<1> QED
  BY <1>4 DEF r

LEMMA AsideAnchor ==
  ASSUME NEW c, IsCtx(c), NEW v0
  PROVE  Aside(c, [c EXCEPT !.anchor = v0])
<1> DEFINE r == [c EXCEPT !.anchor = v0]
<1>1. DOMAIN c = Members /\ IsCtx(r)
  BY DEF IsCtx
<1>2. r["data_len"] = c["data_len"] /\ r["radius"] = c["radius"] /\ r["vle_sublen"] = c["vle_sublen"]
  BY <1>1, NeededMembers DEF Needed
<1>3. r["fname"] = c["fname"] /\ r["thrown"] = c["thrown"]
  BY <1>1, NeededMembers DEF Needed
<1> HIDE DEF r
<1>4. Aside(c, r)
  BY <1>1, <1>2, <1>3 DEF Aside, Needed
<1> QED
  BY <1>4 DEF r

LEMMA AsideVerbose ==
  ASSUME NEW c, IsCtx(c), NEW v0
  PROVE  Aside(c, [c EXCEPT !.verbose = v0])
<1> DEFINE r == [c EXCEPT !.verbose = v0]
<1>1. DOMAIN c = Members /\ IsCtx(r)
  BY DEF IsCtx
<1>2. r["data_len"] = c["data_len"] /\ r["radius"] = c["radius"] /\ r["vle_sublen"] = c["vle_sublen"]
  BY <1>1, NeededMembers DEF Needed
<1>3. r["fname"] = c["fname"] /\ r["thrown"] = c["thrown"]
  BY <1>1, NeededMembers DEF Needed
<1> HIDE DEF r
<1>4. Aside(c, r)
  BY <1>1, <1>2, <1>3 DEF Aside, Needed
<1> QED
  BY <1>4 DEF r

LEMMA AsideStatus ==
  ASSUME NEW c, IsCtx(c), NEW v0
  PROVE  Aside(c, [c EXCEPT !.status = v0])
<1> DEFINE r == [c EXCEPT !.status = v0]
<1>1. DOMAIN c = Members /\ IsCtx(r)
  BY DEF IsCtx
<1>2. r["data_len"] = c["data_len"] /\ r["radius"] = c["radius"] /\ r["vle_sublen"] = c["vle_sublen"]
  BY <1>1, NeededMembers DEF Needed
<1>3. r["fname"] = c["fname"] /\ r["thrown"] = c["thrown"]
  BY <1>1, NeededMembers DEF Needed
<1> HIDE DEF r
<1>4. Aside(c, r)
  BY <1>1, <1>2, <1>3 DEF Aside, Needed
<1> QED
  BY <1>4 DEF r

LEMMA AsideReport ==
  ASSUME NEW c, IsCtx(c), NEW v0, NEW v1, NEW v2
  PROVE  Aside(c, [c EXCEPT !.report_cr = v0, !.report_time = v1, !.report_compressibility = v2])
<1> DEFINE r == [c EXCEPT !.report_cr = v0, !.report_time = v1, !.report_compressibility = v2]
<1>1. DOMAIN c = Members /\ IsCtx(r)
  BY DEF IsCtx
<1>2. r["data_len"] = c["data_len"] /\ r["radius"] = c["radius"] /\ r["vle_sublen"] = c["vle_sublen"]
  BY <1>1, NeededMembers DEF Needed
<1>3. r["fname"] = c["fname"] /\ r["thrown"] = c["thrown"]
  BY <1>1, NeededMembers DEF Needed
<1> HIDE DEF r
<1>4. Aside(c, r)
  BY <1>1, <1>2, <1>3 DEF Aside, Needed
<1> QED
  BY <1>4 DEF r

LEMMA AsideMode ==
  ASSUME NEW c, IsCtx(c), NEW v0, NEW v1
  PROVE  Aside(c, [c EXCEPT !.mode = v0, !.prescan = v1])
<1> DEFINE r == [c EXCEPT !.mode = v0, !.prescan = v1]
<1>1. DOMAIN c = Members /\ IsCtx(r)
  BY DEF IsCtx
<1>2. r["data_len"] = c["data_len"] /\ r["radius"] = c["radius"] /\ r["vle_sublen"] = c["vle_sublen"]
  BY <1>1, NeededMembers DEF Needed
<1>3. r["fname"] = c["fname"] /\ r["thrown"] = c["thrown"]
  BY <1>1, NeededMembers DEF Needed
<1> HIDE DEF r
<1>4. Aside(c, r)
  BY <1>1, <1>2, <1>3 DEF Aside, Needed
<1> QED
  BY <1>4 DEF r

LEMMA AsideEb ==
  ASSUME NEW c, IsCtx(c), NEW v0
  PROVE  Aside(c, [c EXCEPT !.eb = v0])
<1> DEFINE r == [c EXCEPT !.eb = v0]
<1>1. DOMAIN c = Members /\ IsCtx(r)
  BY DEF IsCtx
<1>2. r["data_len"] = c["data_len"] /\ r["radius"] = c["radius"] /\ r["vle_sublen"] = c["vle_sublen"]
  BY <1>1, NeededMembers DEF Needed
<1>3. r["fname"] = c["fname"] /\ r["thrown"] = c["thrown"]
  BY <1>1, NeededMembers DEF Needed
<1> HIDE DEF r
<1>4. Aside(c, r)
  BY <1>1, <1>2, <1>3 DEF Aside, Needed
<1> QED
  BY <1>4 DEF r

LEMMA AsidePredictor ==
  ASSUME NEW c, IsCtx(c), NEW v0
  PROVE  Aside(c, [c EXCEPT !.predictor = v0])
<1> DEFINE r == [c EXCEPT !.predictor = v0]
<1>1. DOMAIN c = Members /\ IsCtx(r)
  BY DEF IsCtx
<1>2. r["data_len"] = c["data_len"] /\ r["radius"] = c["radius"] /\ r["vle_sublen"] = c["vle_sublen"]
  BY <1>1, NeededMembers DEF Needed
<1>3. r["fname"] = c["fname"] /\ r["thrown"] = c["thrown"]
  BY <1>1, NeededMembers DEF Needed
<1> HIDE DEF r
<1>4. Aside(c, r)
  BY <1>1, <1>2, <1>3 DEF Aside, Needed
<1> QED
  BY <1>4 DEF r

LEMMA AsideDtype ==
  ASSUME NEW c, IsCtx(c), NEW v0
  PROVE  Aside(c, [c EXCEPT !.dtype = v0])
<1> DEFINE r == [c EXCEPT !.dtype = v0]
<1>1. DOMAIN c = Members /\ IsCtx(r)
  BY DEF IsCtx
<1>2. r["data_len"] = c["data_len"] /\ r["radius"] = c["radius"] /\ r["vle_sublen"] = c["vle_sublen"]
  BY <1>1, NeededMembers DEF Needed
<1>3. r["fname"] = c["fname"] /\ r["thrown"] = c["thrown"]
  BY <1>1, NeededMembers DEF Needed
<1> HIDE DEF r
<1>4. Aside(c, r)
  BY <1>1, <1>2, <1>3 DEF Aside, Needed
<1> QED
  BY <1>4 DEF r

LEMMA AsideBinning ==
  ASSUME NEW c, IsCtx(c), NEW v0
  PROVE  Aside(c, [c EXCEPT !.binning = v0])
<1> DEFINE r == [c EXCEPT !.binning = v0]
<1>1. DOMAIN c = Members /\ IsCtx(r)
  BY DEF IsCtx
<1>2. r["data_len"] = c["data_len"] /\ r["radius"] = c["radius"] /\ r["vle_sublen"] = c["vle_sublen"]
  BY <1>1, NeededMembers DEF Needed
<1>3. r["fname"] = c["fname"] /\ r["thrown"] = c["thrown"]
  BY <1>1, NeededMembers DEF Needed
<1> HIDE DEF r
<1>4. Aside(c, r)
  BY <1>1, <1>2, <1>3 DEF Aside, Needed
<1> QED
  BY <1>4 DEF r

LEMMA AsidePost ==
  ASSUME NEW c, IsCtx(c), NEW v0, NEW v1
  PROVE  Aside(c, [c EXCEPT !.gzip = v0, !.nvcomp = v1])
<1> DEFINE r == [c EXCEPT !.gzip = v0, !.nvcomp = v1]
<1>1. DOMAIN c = Members /\ IsCtx(r)
  BY DEF IsCtx
<1>2. r["data_len"] = c["data_len"] /\ r["radius"] = c["radius"] /\ r["vle_sublen"] = c["vle_sublen"]
  BY <1>1, NeededMembers DEF Needed
<1>3. r["fname"] = c["fname"] /\ r["thrown"] = c["thrown"]
  BY <1>1, NeededMembers DEF Needed
<1> HIDE DEF r
<1>4. Aside(c, r)
  BY <1>1, <1>2, <1>3 DEF Aside, Needed
<1> QED
  BY <1>4 DEF r

LEMMA AsidePipeline ==
  ASSUME NEW c, IsCtx(c), NEW v0
  PROVE  Aside(c, [c EXCEPT !.pipeline = v0])
<1> DEFINE r == [c EXCEPT !.pipeline = v0]
<1>1. DOMAIN c = Members /\ IsCtx(r)
  BY DEF IsCtx
<1>2. r["data_len"] = c["data_len"] /\ r["radius"] = c["radius"] /\ r["vle_sublen"] = c["vle_sublen"]
  BY <1>1, NeededMembers DEF Needed
<1>3. r["fname"] = c["fname"] /\ r["thrown"] = c["thrown"]
  BY <1>1, NeededMembers DEF Needed
<1> HIDE DEF r
<1>4. Aside(c, r)
  BY <1>1, <1>2, <1>3 DEF Aside, Needed
<1> QED
  BY <1>4 DEF r

LEMMA AsideSkip ==
  ASSUME NEW c, IsCtx(c), NEW v0, NEW v1
  PROVE  Aside(c, [c EXCEPT !.skip_huffman = v0, !.skip_write2disk = v1])
<1> DEFINE r == [c EXCEPT !.skip_huffman = v0, !.skip_write2disk = v1]
<1>1. DOMAIN c = Members /\ IsCtx(r)
  BY DEF IsCtx
<1>2. r["data_len"] = c["data_len"] /\ r["radius"] = c["radius"] /\ r["vle_sublen"] = c["vle_sublen"]
  BY <1>1, NeededMembers DEF Needed
<1>3. r["fname"] = c["fname"] /\ r["thrown"] = c["thrown"]
  BY <1>1, NeededMembers DEF Needed
<1> HIDE DEF r
<1>4. Aside(c, r)
  BY <1>1, <1>2, <1>3 DEF Aside, Needed
<1> QED
  BY <1>4 DEF r

LEMMA AsideOpath ==
  ASSUME NEW c, IsCtx(c), NEW v0
  PROVE  Aside(c, [c EXCEPT !.opath = v0])
<1> DEFINE r == [c EXCEPT !.opath = v0]
<1>1. DOMAIN c = Members /\ IsCtx(r)
  BY DEF IsCtx
<1>2. r["data_len"] = c["data_len"] /\ r["radius"] = c["radius"] /\ r["vle_sublen"] = c["vle_sublen"]
  BY <1>1, NeededMembers DEF Needed
<1>3. r["fname"] = c["fname"] /\ r["thrown"] = c["thrown"]
  BY <1>1, NeededMembers DEF Needed
<1> HIDE DEF r
<1>4. Aside(c, r)
  BY <1>1, <1>2, <1>3 DEF Aside, Needed
<1> QED
  BY <1>4 DEF r

LEMMA AsideOrigin ==
  ASSUME NEW c, IsCtx(c), NEW v0
  PROVE  Aside(c, [c EXCEPT !.origin_cmp = v0])
<1> DEFINE r == [c EXCEPT !.origin_cmp = v0]
<1>1. DOMAIN c = Members /\ IsCtx(r)
  BY DEF IsCtx
<1>2. r["data_len"] = c["data_len"] /\ r["radius"] = c["radius"] /\ r["vle_sublen"] = c["vle_sublen"]
  BY <1>1, NeededMembers DEF Needed
<1>3. r["fname"] = c["fname"] /\ r["thrown"] = c["thrown"]
  BY <1>1, NeededMembers DEF Needed
<1> HIDE DEF r
<1>4. Aside(c, r)
  BY <1>1, <1>2, <1>3 DEF Aside, Needed
<1> QED
  BY <1>4 DEF r

LEMMA AsideTasks ==
  ASSUME NEW c, IsCtx(c), NEW v0, NEW v1
  PROVE  Aside(c, [c EXCEPT !.construct = v0, !.reconstruct = v1])
<1> DEFINE r == [c EXCEPT !.construct = v0, !.reconstruct = v1]
<1>1. DOMAIN c = Members /\ IsCtx(r)
  BY DEF IsCtx
<1>2. r["data_len"] = c["data_len"] /\ r["radius"] = c["radius"] /\ r["vle_sublen"] = c["vle_sublen"]
  BY <1>1, NeededMembers DEF Needed
<1>3. r["fname"] = c["fname"] /\ r["thrown"] = c["thrown"]
  BY <1>1, NeededMembers DEF Needed
<1> HIDE DEF r
<1>4. Aside(c, r)
  BY <1>1, <1>2, <1>3 DEF Aside, Needed
<1> QED
  BY <1>4 DEF r

LEMMA FlaggedAside ==
  ASSUME NEW c, IsCtx(c), NEW opt
  PROVE  Aside(c, Flagged(c, opt))
<1>1. \/ \E v : Flagged(c, opt) = [c EXCEPT !.construct = v]
      \/ \E v : Flagged(c, opt) = [c EXCEPT !.reconstruct = v]
      \/ \E v : Flagged(c, opt) = [c EXCEPT !.dryrun = v]
      \/ \E v : Flagged(c, opt) = [c EXCEPT !.anchor = v]
      \/ \E v : Flagged(c, opt) = [c EXCEPT !.verbose = v]
      \/ Flagged(c, opt) = c
  BY DEF Flagged
<1> QED
  BY <1>1, AsideConstruct, AsideReconstruct, AsideDryrun, AsideAnchor, AsideVerbose, AsideSelf

LEMMA TrappedAside ==
  ASSUME NEW c, IsCtx(c)
  PROVE  Aside(c, Trapped(c))
BY AsideStatus DEF Trapped

LEMMA LengthTyped ==
  ASSUME NEW c, Typed(c), NEW u, NEW d, d = Over(c, u),
         DOMAIN u \subseteq Members, "radius" \notin DOMAIN u, "vle_sublen" \notin DOMAIN u, "fname" \notin DOMAIN u,
         "data_len" \in DOMAIN u => u["data_len"] \in 0 .. UINT - 1, "thrown" \in DOMAIN u => u["thrown"] = TRUE
  PROVE  Typed(d)
<1>1. IsCtx(d) /\ \A f \in Members : d[f] = IF f \in DOMAIN u THEN u[f] ELSE c[f]
  BY OverCtx
<1>2. \A f \in Needed : d[f] = IF f \in DOMAIN u THEN u[f] ELSE c[f]
  BY <1>1, NeededMembers
<1>3. d["radius"] = c["radius"] /\ d["vle_sublen"] = c["vle_sublen"] /\ d["fname"] = c["fname"]
  BY <1>2 DEF Needed
<1>4. d["data_len"] \in 0 .. UINT - 1
  BY <1>2 DEF Needed, Typed
<1>5. d["thrown"] \in BOOLEAN
  BY <1>2 DEF Needed, Typed
<1> QED
  BY <1>1, <1>3, <1>4, <1>5 DEF Typed

LEMMA FnameTyped ==
  ASSUME NEW c, Typed(c), NEW v \in Seq(STRING)
  PROVE  Typed([c EXCEPT !.fname = v])
<1> DEFINE r == [c EXCEPT !.fname = v]
<1>1. DOMAIN c = Members /\ IsCtx(r)
  BY DEF IsCtx, Typed
<1>2. /\ r["data_len"] = c["data_len"] /\ r["radius"] = c["radius"] /\ r["vle_sublen"] = c["vle_sublen"]
      /\ r["thrown"] = c["thrown"] /\ r["fname"] = v
  BY <1>1, NeededMembers DEF Needed
<1> HIDE DEF r
<1>3. Typed(r)
  BY <1>1, <1>2 DEF Typed
<1> QED
  BY <1>3 DEF r

LEMMA TakesReport ==
  ASSUME NEW c, IsCtx(c), NEW v, NEW opt, opt \in {"-R", "--report"}
  PROVE  \A d \in Takes(c, opt, v) : Aside(c, d)
<1>1. Takes(c, opt, v) = {set_report(c, v.words)}
  BY DEF Takes
<1>2. PICK w0, w1, w2 : set_report(c, v.words) = [c EXCEPT !.report_cr = w0, !.report_time = w1, !.report_compressibility = w2]
  BY DEF set_report
<1>3. Aside(c, [c EXCEPT !.report_cr = w0, !.report_time = w1, !.report_compressibility = w2])
  BY AsideReport
<1>4. Aside(c, set_report(c, v.words))
  BY <1>2, <1>3, Zenon
<1> QED
  BY <1>1, <1>4

LEMMA TakesMode ==
  ASSUME NEW c, IsCtx(c), NEW v, NEW opt, opt \in {"-m", "--mode"}
  PROVE  \A d \in Takes(c, opt, v) : Aside(c, d)
<1>1. PICK w0, w1 : Takes(c, opt, v) = {[c EXCEPT !.mode = w0, !.prescan = w1]}
  BY DEF Takes
<1>2. Aside(c, [c EXCEPT !.mode = w0, !.prescan = w1])
  BY AsideMode
<1> QED
  BY <1>1, <1>2

LEMMA TakesErrorBound ==
  ASSUME NEW c, IsCtx(c), NEW v, NEW opt, opt \in {"-e", "--eb", "--error-bound"}
  PROVE  \A d \in Takes(c, opt, v) : Aside(c, d)
<1>1. PICK w0 : Takes(c, opt, v) = {[c EXCEPT !.eb = w0]}
  BY DEF Takes, set_eb
<1>2. Aside(c, [c EXCEPT !.eb = w0])
  BY AsideEb
<1> QED
  BY <1>1, <1>2

LEMMA TakesPredictor ==
  ASSUME NEW c, IsCtx(c), NEW v, NEW opt, opt \in {"-p", "--predictor"}
  PROVE  \A d \in Takes(c, opt, v) : Aside(c, d)
<1>1. PICK w0 : Takes(c, opt, v) = {[c EXCEPT !.predictor = w0]}
  BY DEF Takes
<1>2. Aside(c, [c EXCEPT !.predictor = w0])
  BY AsidePredictor
<1> QED
  BY <1>1, <1>2

LEMMA TakesType ==
  ASSUME NEW c, IsCtx(c), NEW v, NEW opt, opt \in {"-t", "--type", "--dtype"}
  PROVE  \A d \in Takes(c, opt, v) : Aside(c, d)
<1>1. PICK w0 : Takes(c, opt, v) = {[c EXCEPT !.dtype = w0]}
  BY DEF Takes
<1>2. Aside(c, [c EXCEPT !.dtype = w0])
  BY AsideDtype
<1> QED
  BY <1>1, <1>2

LEMMA TakesPre ==
  ASSUME NEW c, IsCtx(c), NEW v, NEW opt, opt \in {"-P", "--pre", "--preprocess"}
  PROVE  \A d \in Takes(c, opt, v) : Aside(c, d)
<1>1. PICK w0 : Takes(c, opt, v) = {[c EXCEPT !.binning = w0]}
  BY DEF Takes
<1>2. Aside(c, [c EXCEPT !.binning = w0])
  BY AsideBinning
<1> QED
  BY <1>1, <1>2

LEMMA TakesPost ==
  ASSUME NEW c, IsCtx(c), NEW v, NEW opt, opt \in {"-T", "--post", "--postprocess"}
  PROVE  \A d \in Takes(c, opt, v) : Aside(c, d)
<1>1. PICK w0, w1 : Takes(c, opt, v) = {[c EXCEPT !.gzip = w0, !.nvcomp = w1]}
  BY DEF Takes
<1>2. Aside(c, [c EXCEPT !.gzip = w0, !.nvcomp = w1])
  BY AsidePost
<1> QED
  BY <1>1, <1>2

LEMMA TakesPipeline ==
  ASSUME NEW c, IsCtx(c), NEW v, NEW opt, opt = "--pipeline"
  PROVE  \A d \in Takes(c, opt, v) : Aside(c, d)
<1>1. PICK w0 : Takes(c, opt, v) = {[c EXCEPT !.pipeline = w0]}
  BY DEF Takes
<1>2. Aside(c, [c EXCEPT !.pipeline = w0])
  BY AsidePipeline
<1> QED
  BY <1>1, <1>2

LEMMA TakesSkip ==
  ASSUME NEW c, IsCtx(c), NEW v, NEW opt, opt \in {"-S", "-X", "--skip", "--exclude"}
  PROVE  \A d \in Takes(c, opt, v) : Aside(c, d)
<1>1. PICK w0, w1 : Takes(c, opt, v) = {[c EXCEPT !.skip_huffman = w0, !.skip_write2disk = w1]}
  BY DEF Takes
<1>2. Aside(c, [c EXCEPT !.skip_huffman = w0, !.skip_write2disk = w1])
  BY AsideSkip
<1> QED
  BY <1>1, <1>2

LEMMA TakesOpath ==
  ASSUME NEW c, IsCtx(c), NEW v, NEW opt, opt = "--opath"
  PROVE  \A d \in Takes(c, opt, v) : Aside(c, d)
<1>1. PICK w0 : Takes(c, opt, v) = {[c EXCEPT !.opath = w0]}
  BY DEF Takes
<1>2. Aside(c, [c EXCEPT !.opath = w0])
  BY AsideOpath
<1> QED
  BY <1>1, <1>2

LEMMA TakesOrigin ==
  ASSUME NEW c, IsCtx(c), NEW v, NEW opt, opt \in {"--origin", "--compare"}
  PROVE  \A d \in Takes(c, opt, v) : Aside(c, d)
<1>1. PICK w0 : Takes(c, opt, v) = {[c EXCEPT !.origin_cmp = w0]}
  BY DEF Takes
<1>2. Aside(c, [c EXCEPT !.origin_cmp = w0])
  BY AsideOrigin
<1> QED
  BY <1>1, <1>2

LEMMA TakesLength ==
  ASSUME NEW c, Typed(c), NEW v, NEW opt, opt \in {"-l", "--len"}, IsExtents(v)
  PROVE  \A d \in Takes(c, opt, v) : Typed(d)
<1> DEFINE u == BoxOf(v)
<1>1. Takes(c, opt, v) = {parse_input_length(c, v)}
  BY DEF Takes
<1>2. parse_input_length(c, v) = Over(c, u)
  BY LengthSets DEF Typed
<1>3. DOMAIN u = {"ndim", "x", "y", "z", "w", "data_len"}
  BY BoxIs DEF BoxOf
<1>4. u["data_len"] \in 0 .. UINT - 1
  BY LengthNumbers
<1> HIDE DEF u
<1>5. DOMAIN u \subseteq Members
  BY <1>3, HasMembers
<1>6. Typed(Over(c, u))
  BY <1>3, <1>4, <1>5, LengthTyped
<1> QED
  BY <1>1, <1>2, <1>6

LEMMA TakesDemo ==
  ASSUME NEW c, Typed(c), NEW v, NEW opt, opt = "--demo"
  PROVE  \A d \in Takes(c, opt, v) : Typed(d)
<1> DEFINE kv == [k |-> "demo", str |-> v.str]
           u == DemoOf(v.str)
<1>1. Takes(c, opt, v) = {load_demo_sizes(c, v.str)}
  BY DEF Takes
<1>2. load_demo_sizes(c, v.str) = SetKey(c, kv)
  BY DEF SetKey
<1>3. SetKey(c, kv) = Over(c, Overlay(kv))
  BY OverlayIs DEF Typed, IsOverlay, Sets
<1>4. IsPair(kv)
  BY DEF IsPair, Numeric
<1> HIDE DEF kv
<1>5. IsOverlay(kv, Overlay(kv))
  BY OverlayIs
<1>6. load_demo_sizes(c, v.str) = Over(c, u)
  BY DemoSets DEF Typed
<1>7. DOMAIN u \subseteq {"ndim", "x", "y", "z", "w", "data_len", "predefined_demo", "thrown"}
  <2>1. CASE v.str \notin DOMAIN DemoSizes
    BY <2>1 DEF DemoOf
  <2>2. CASE v.str \in DOMAIN DemoSizes
    BY <2>2 DEF DemoOf
  <2> QED
    BY <2>1, <2>2
<1> HIDE DEF u
<1> DEFINE d == load_demo_sizes(c, v.str)
           o == Overlay(kv)
<1>8. d = Over(c, u)
  BY <1>6
<1>16. d = Over(c, o)
  BY <1>2, <1>3
<1>9. NumbersIn(o) /\ Marks(o) /\ OwnSetting(kv, o)
  BY <1>4, <1>5 DEF IsOverlay
<1> HIDE DEF d, o
<1>10. IsCtx(d) /\ \A f \in Members : d[f] = IF f \in DOMAIN u THEN u[f] ELSE c[f]
  BY <1>8, OverCtx
<1>11. \A f \in Members : d[f] = IF f \in DOMAIN o THEN o[f] ELSE c[f]
  BY <1>16, OverCtx
<1>12. d["radius"] = c["radius"] /\ d["vle_sublen"] = c["vle_sublen"] /\ d["fname"] = c["fname"]
  BY <1>7, <1>10, NeededMembers DEF Needed
<1>13. d["data_len"] \in 0 .. UINT - 1
  BY <1>9, <1>11, NeededMembers DEF Needed, NumbersIn, Typed
<1>14. d["thrown"] \in BOOLEAN
  BY <1>9, <1>11, NeededMembers DEF Needed, OwnSetting, Typed
<1>15. Typed(d)
  BY <1>10, <1>12, <1>13, <1>14 DEF Typed
<1> QED
  BY <1>1, <1>15 DEF d

(* An option with a readable value leaves a context as it is needed.        *)
LEMMA TakesTyped ==
  ASSUME NEW c, Typed(c), NEW opt \in Valued, NEW v, IsReadable(opt, v)
  PROVE  \A d \in Takes(c, opt, v) : Typed(d)
<1>0. IsCtx(c)
  BY DEF Typed
<1>1. CASE opt \in {"-c", "--config"}
  <2>1. Takes(c, opt, v) = set_config(c, v.kvs)
    BY <1>1 DEF Takes
  <2>2. v.kvs \in Seq({v.kvs[k] : k \in DOMAIN v.kvs}) /\ \A k \in DOMAIN v.kvs : is_kv_pair(v.kvs[k]) => IsPair(v.kvs[k])
    BY <1>1 DEF IsReadable
  <2>3. IsSeq(v.kvs)
    BY <2>2 DEF IsSeq
  <2> QED
    BY <2>1, <2>2, <2>3, ConfigTyped
<1>2. CASE opt \in {"-i", "--input"}
  <2>1. Takes(c, opt, v) = {[c EXCEPT !.fname = v.name]}
    BY <1>2 DEF Takes
  <2>2. v.name \in Seq(STRING)
    BY <1>2 DEF IsReadable
  <2> QED
    BY <2>1, <2>2, FnameTyped
<1>3. CASE opt \in {"-l", "--len"}
  BY <1>3, TakesLength DEF IsReadable
<1>4. CASE opt = "--demo"
  BY <1>4, TakesDemo
<1>5. CASE opt \notin {"-c", "--config", "-i", "--input", "-l", "--len", "--demo"}
  <2>1. \A d \in Takes(c, opt, v) : Aside(c, d)
    BY <1>0, <1>5, TakesReport, TakesMode, TakesErrorBound, TakesPredictor, TakesType, TakesPre, TakesPost, TakesPipeline, TakesSkip, TakesOpath, TakesOrigin DEF Valued
  <2> QED
    BY <2>1, AsideTyped
<1> QED
  BY <1>1, <1>2, <1>3, <1>4, <1>5

-----------------------------------------------------------------------------
(* The contexts of a command line.                                          *)

ContextsAt(argv, C, k) ==
  IF k = 1 THEN {Fresh}
  ELSE (UNION {Alone(argv, k - 1, c) : c \in C[k - 1]})
         \cup (IF k = 2 THEN {} ELSE UNION {WithNext(argv, k - 2, c) : c \in C[k - 2]})
ContextsUpTo(argv, n, C) == C = [k \in 1 .. n |-> ContextsAt(argv, C, k)]

LEMMA SameContexts ==
  ASSUME NEW argv, NEW Q, NEW R, NEW k \in Nat, k > 0, \A j \in 1 .. k - 1 : Q[j] = R[j]
  PROVE  ContextsAt(argv, Q, k) = ContextsAt(argv, R, k)
<1>1. CASE k = 1
  BY <1>1 DEF ContextsAt
<1>2. CASE k = 2
  <2>1. Q[k - 1] = R[k - 1]
    BY <1>2
  <2> QED
    BY <1>2, <2>1 DEF ContextsAt
<1>3. CASE k > 2
  <2>1. Q[k - 1] = R[k - 1] /\ Q[k - 2] = R[k - 2]
    BY <1>3
  <2> QED
    BY <1>3, <2>1 DEF ContextsAt
<1> QED
  BY <1>1, <1>2, <1>3

LEMMA ContextsLayered ==
  ASSUME NEW argv, NEW n \in Nat
  PROVE  \E C : ContextsUpTo(argv, n, C)
<1> DEFINE Bad == {m \in Nat : ~\E C : ContextsUpTo(argv, m, C)}
<1>1. SUFFICES ASSUME Bad # {} PROVE FALSE
  OBVIOUS
<1>2. PICK m \in Bad : \A k \in Bad : m <= k
  <2>1. Bad \in SUBSET Nat
    OBVIOUS
  <2> QED
    BY <1>1, <2>1, Least
<1>3. m \in Nat /\ ~\E C : ContextsUpTo(argv, m, C)
  BY <1>2
<1>4. CASE m = 0
  <2> DEFINE C == [k \in 1 .. 0 |-> {}]
  <2>1. C = [k \in 1 .. 0 |-> ContextsAt(argv, C, k)]
    OBVIOUS
  <2> HIDE DEF C
  <2>2. ContextsUpTo(argv, 0, C)
    BY <2>1 DEF ContextsUpTo
  <2> QED
    BY <1>3, <1>4, <2>2
<1>5. CASE m > 0
  <2>1. m - 1 \in Nat /\ m - 1 \notin Bad
    BY <1>2, <1>3, <1>5
  <2>2. PICK Q : ContextsUpTo(argv, m - 1, Q)
    BY <2>1
  <2> DEFINE R == [k \in 1 .. m |-> ContextsAt(argv, Q, k)]
  <2>3. \A k \in 1 .. m - 1 : k \in 1 .. m /\ Q[k] = R[k]
    <3>1. SUFFICES ASSUME NEW k \in 1 .. m - 1 PROVE k \in 1 .. m /\ Q[k] = R[k]
      OBVIOUS
    <3>2. Q[k] = ContextsAt(argv, Q, k)
      BY <2>2 DEF ContextsUpTo
    <3> QED
      BY <1>3, <3>2
  <2>4. \A k \in 1 .. m : ContextsAt(argv, Q, k) = ContextsAt(argv, R, k)
    <3>1. SUFFICES ASSUME NEW k \in 1 .. m PROVE ContextsAt(argv, Q, k) = ContextsAt(argv, R, k)
      OBVIOUS
    <3> HIDE DEF R
    <3>2. \A j \in 1 .. k - 1 : Q[j] = R[j]
      BY <1>3, <2>3
    <3>3. k \in Nat /\ k > 0
      BY <1>3
    <3> QED
      BY <3>2, <3>3, SameContexts
  <2>5. R = [k \in 1 .. m |-> ContextsAt(argv, R, k)]
    BY <2>4
  <2> HIDE DEF R
  <2>6. ContextsUpTo(argv, m, R)
    BY <2>5 DEF ContextsUpTo
  <2> QED
    BY <1>3, <2>6
<1> QED
  BY <1>3, <1>4, <1>5

LEMMA ContextsDefined ==
  ASSUME NEW argv, IsSeq(argv)
  PROVE  \A k \in 1 .. Len(argv) + 1 : Contexts(argv)[k] = ContextsAt(argv, Contexts(argv), k)
<1> DEFINE n == Len(argv) + 1
           E == CHOOSE C : C = [k \in 1 .. n |->
                  IF k = 1 THEN {Fresh}
                  ELSE (UNION {Alone(argv, k - 1, c) : c \in C[k - 1]})
                         \cup (IF k = 2 THEN {} ELSE UNION {WithNext(argv, k - 2, c) : c \in C[k - 2]})]
<1>1. n \in Nat
  BY DEF IsSeq
<1>2. Contexts(argv) = E
  BY DEF Contexts
<1> HIDE DEF n
<1>3. PICK C : ContextsUpTo(argv, n, C)
  BY <1>1, ContextsLayered
<1>4. C = [k \in 1 .. n |->
             IF k = 1 THEN {Fresh}
             ELSE (UNION {Alone(argv, k - 1, c) : c \in C[k - 1]})
                    \cup (IF k = 2 THEN {} ELSE UNION {WithNext(argv, k - 2, c) : c \in C[k - 2]})]
  BY <1>3 DEF ContextsUpTo, ContextsAt
<1>5. E = [k \in 1 .. n |->
             IF k = 1 THEN {Fresh}
             ELSE (UNION {Alone(argv, k - 1, c) : c \in E[k - 1]})
                    \cup (IF k = 2 THEN {} ELSE UNION {WithNext(argv, k - 2, c) : c \in E[k - 2]})]
  BY <1>4, Zenon
<1> HIDE DEF E
<1>6. \A k \in 1 .. n : E[k] = ContextsAt(argv, E, k)
  BY <1>5 DEF ContextsAt
<1> QED
  BY <1>2, <1>6 DEF n

LEMMA FirstContext ==
  ASSUME NEW argv, IsSeq(argv)
  PROVE  Fresh \in Contexts(argv)[1]
<1>1. 1 \in 1 .. Len(argv) + 1
  BY DEF IsSeq
<1> QED
  BY <1>1, ContextsDefined DEF ContextsAt

(* A token of its own, and one with the token behind it, lead to contexts   *)
(* before the next.                                                         *)
LEMMA AloneContext ==
  ASSUME NEW argv, IsSeq(argv), NEW k \in 1 .. Len(argv), NEW c \in Contexts(argv)[k], NEW d \in Alone(argv, k, c)
  PROVE  d \in Contexts(argv)[k + 1]
<1>1. Len(argv) \in Nat
  BY DEF IsSeq
<1>2. k + 1 \in 1 .. Len(argv) + 1 /\ k + 1 # 1 /\ (k + 1) - 1 = k
  BY <1>1
<1>3. Contexts(argv)[k + 1] = ContextsAt(argv, Contexts(argv), k + 1)
  BY <1>2, ContextsDefined
<1>4. d \in UNION {Alone(argv, (k + 1) - 1, b) : b \in Contexts(argv)[(k + 1) - 1]}
  BY <1>2
<1> QED
  BY <1>2, <1>3, <1>4 DEF ContextsAt

LEMMA LaterContext ==
  ASSUME NEW argv, NEW C, NEW j, j # 1, j # 2, NEW b \in C[j - 2], NEW d \in WithNext(argv, j - 2, b)
  PROVE  d \in ContextsAt(argv, C, j)
<1> DEFINE W(c) == WithNext(argv, j - 2, c)
           S == C[j - 2]
           A == UNION {Alone(argv, j - 1, c) : c \in C[j - 1]}
<1>1. b \in S /\ d \in W(b)
  OBVIOUS
<1>2. ContextsAt(argv, C, j) = A \cup (UNION {W(c) : c \in S})
  BY DEF ContextsAt
<1> HIDE DEF W, S, A
<1>3. d \in UNION {W(c) : c \in S}
  BY <1>1
<1> QED
  BY <1>2, <1>3

LEMMA PairContext ==
  ASSUME NEW argv, IsSeq(argv), NEW k \in 1 .. Len(argv) - 1, NEW c \in Contexts(argv)[k], NEW d \in WithNext(argv, k, c)
  PROVE  d \in Contexts(argv)[k + 2]
<1>1. Len(argv) \in Nat
  BY DEF IsSeq
<1>2. k + 2 \in 1 .. Len(argv) + 1 /\ k + 2 # 1 /\ k + 2 # 2 /\ (k + 2) - 2 = k
  BY <1>1
<1>3. Contexts(argv)[k + 2] = ContextsAt(argv, Contexts(argv), k + 2)
  BY <1>2, ContextsDefined
<1>4. c \in Contexts(argv)[(k + 2) - 2] /\ d \in WithNext(argv, (k + 2) - 2, c)
  BY <1>2
<1>5. d \in ContextsAt(argv, Contexts(argv), k + 2)
  BY <1>2, <1>4, LaterContext
<1> QED
  BY <1>3, <1>5

-----------------------------------------------------------------------------
(* Capsules.                                                                *)

\* A capsule that has not thrown, with these two arrays.
CapIs(c, host, device) ==
  /\ "len" \in DOMAIN c /\ "ptr" \in DOMAIN c /\ "allocation_status" \in DOMAIN c /\ "threw" \in DOMAIN c
  /\ c["threw"] = FALSE
  /\ DOMAIN c["ptr"] = {"host", "device"} /\ c["ptr"]["host"] = host /\ c["ptr"]["device"] = device

LEMMA CapFields ==
  ASSUME NEW c, NEW host, NEW device, CapIs(c, host, device)
  PROVE  Cap!hptr(c) = host /\ Cap!dptr(c) = device /\ ~c.threw
<1>1. c["ptr"]["host"] = host /\ c["ptr"]["device"] = device /\ c["threw"] = FALSE
  BY DEF CapIs
<1> QED
  BY <1>1 DEF Cap!hptr, Cap!dptr

LEMMA HeldIs ==
  ASSUME NEW c, NEW host, NEW device, CapIs(c, host, device), NEW x, NEW locs
  PROVE  /\ CapIs(Cap!Held(c, locs, x), IF "host" \in locs THEN x ELSE host, IF "device" \in locs THEN x ELSE device)
         /\ Cap!Held(c, locs, x)["len"] = c["len"]
         /\ Cap!Held(c, locs, x)["allocation_status"] = c["allocation_status"]
<1> DEFINE p == [loc \in {"host", "device"} |-> IF loc \in locs THEN x ELSE c["ptr"][loc]]
           r == [c EXCEPT !.ptr = p]
<1>1. Cap!Held(c, locs, x) = r
  BY DEF Cap!Held, Cap!HOST_DEVICE, Cap!HOST, Cap!DEVICE
<1>2. DOMAIN p = {"host", "device"} /\ p["host"] = (IF "host" \in locs THEN x ELSE host) /\ p["device"] = (IF "device" \in locs THEN x ELSE device)
  BY DEF CapIs
<1> HIDE DEF p
<1>3. DOMAIN r = DOMAIN c /\ r["ptr"] = p /\ r["threw"] = c["threw"] /\ r["len"] = c["len"] /\ r["allocation_status"] = c["allocation_status"]
  BY DEF CapIs
<1> HIDE DEF r
<1>4. CapIs(r, IF "host" \in locs THEN x ELSE host, IF "device" \in locs THEN x ELSE device)
  BY <1>2, <1>3 DEF CapIs
<1> QED
  BY <1>1, <1>3, <1>4

LEMMA ThenIs ==
  ASSUME NEW c, NEW host, NEW device, CapIs(c, host, device), NEW d
  PROVE  Cap!Then(c, TRUE, d) = d
<1>1. c["threw"] = FALSE
  BY DEF CapIs
<1> QED
  BY <1>1 DEF Cap!Then

\* Nothing is allocated by it.
Unallocated(c) == c["allocation_status"] = [loc \in {"host", "device"} |-> FALSE]

LEMMA CapsuleIs ==
  CapIs(Cap!Capsule, Cap!NotSet, Cap!NotSet) /\ Unallocated(Cap!Capsule)
BY DEF CapIs, Unallocated, Cap!Capsule, Cap!HOST_DEVICE, Cap!HOST, Cap!DEVICE

LEMMA SetLenIs ==
  ASSUME NEW c, NEW host, NEW device, CapIs(c, host, device), Unallocated(c), NEW len
  PROVE  CapIs(Cap!set_len(c, len), host, device) /\ Unallocated(Cap!set_len(c, len))
<1> DEFINE r == [c EXCEPT !.len = len]
<1>1. Cap!set_len(c, len) = r
  BY ThenIs DEF Cap!set_len
<1>2. DOMAIN r = DOMAIN c /\ r["ptr"] = c["ptr"] /\ r["threw"] = c["threw"] /\ r["allocation_status"] = c["allocation_status"]
  BY DEF CapIs
<1> HIDE DEF r
<1>3. CapIs(r, host, device) /\ Unallocated(r)
  BY <1>2 DEF CapIs, Unallocated
<1> QED
  BY <1>1, <1>3

LEMMA AllocIs ==
  ASSUME NEW c, NEW host, NEW device, CapIs(c, host, device), Unallocated(c), NEW locs \in SUBSET {"host", "device"}
  PROVE  CapIs(Cap!alloc(c, locs), IF "host" \in locs THEN Cap!Zeros ELSE host, IF "device" \in locs THEN Cap!Zeros ELSE device)
<1> DEFINE New == {loc \in locs : ~c.allocation_status[loc]}
           h == Cap!Held(c, locs, Cap!Zeros)
           s == [loc \in {"host", "device"} |-> IF loc \in locs THEN TRUE ELSE h["allocation_status"][loc]]
           r == [h EXCEPT !.allocation_status = s]
           p == IF "host" \in locs THEN Cap!Zeros ELSE host
           q == IF "device" \in locs THEN Cap!Zeros ELSE device
<1>1. New = locs
  BY DEF Unallocated
<1>2. CapIs(h, p, q)
  BY HeldIs
<1>3. Cap!alloc(c, locs) = Cap!Allocated(h, locs, TRUE)
  BY <1>1, ThenIs DEF Cap!alloc
<1> HIDE DEF h, p, q
<1>4. Cap!Allocated(h, locs, TRUE) = r
  BY DEF Cap!Allocated, Cap!HOST_DEVICE, Cap!HOST, Cap!DEVICE
<1> HIDE DEF s
<1>5. DOMAIN r = DOMAIN h /\ r["ptr"] = h["ptr"] /\ r["threw"] = h["threw"]
  BY <1>2 DEF CapIs
<1> HIDE DEF r
<1>6. CapIs(r, p, q)
  BY <1>2, <1>5 DEF CapIs
<1> QED
  BY <1>3, <1>4, <1>6 DEF p, q

LEMMA RoomIs ==
  ASSUME NEW len
  PROVE  CapIs(Room(len), Cap!Zeros, Cap!Zeros)
<1> DEFINE c == Cap!set_len(Cap!Capsule, len)
<1>1. CapIs(c, Cap!NotSet, Cap!NotSet) /\ Unallocated(c)
  BY CapsuleIs, SetLenIs
<1> HIDE DEF c
<1>2. {"host", "device"} \in SUBSET {"host", "device"}
  OBVIOUS
<1>3. CapIs(Cap!alloc(c, {"host", "device"}), Cap!Zeros, Cap!Zeros)
  BY <1>1, <1>2, AllocIs
<1> QED
  BY <1>3 DEF Room, c, Cap!HOST_DEVICE, Cap!HOST, Cap!DEVICE

LEMMA Copies ==
  ASSUME NEW c, NEW host, NEW device, CapIs(c, host, device), host # Cap!NotSet, device # Cap!NotSet
  PROVE  CapIs(Cap!host2device(c), host, host) /\ CapIs(Cap!device2host(c), device, device)
<1>1. c["ptr"]["host"] = host /\ c["ptr"]["device"] = device
  BY DEF CapIs
<1>2. Cap!Copied(c, "host", "device") = Cap!Held(c, {"device"}, host) /\ Cap!Copied(c, "device", "host") = Cap!Held(c, {"host"}, device)
  BY <1>1 DEF Cap!Copied
<1>3. Cap!host2device(c) = Cap!Held(c, {"device"}, host)
  BY <1>2, ThenIs DEF Cap!host2device
<1>4. Cap!device2host(c) = Cap!Held(c, {"host"}, device)
  BY <1>2, ThenIs DEF Cap!device2host
<1>5. CapIs(Cap!Held(c, {"device"}, host), host, host)
  <2>1. CapIs(Cap!Held(c, {"device"}, host), IF "host" \in {"device"} THEN host ELSE host, IF "device" \in {"device"} THEN host ELSE device)
    BY HeldIs, Zenon
  <2> QED
    BY <2>1
<1>6. CapIs(Cap!Held(c, {"host"}, device), device, device)
  <2>1. CapIs(Cap!Held(c, {"host"}, device), IF "host" \in {"host"} THEN device ELSE host, IF "device" \in {"host"} THEN device ELSE device)
    BY HeldIs, Zenon
  <2> QED
    BY <2>1
<1> QED
  BY <1>3, <1>4, <1>5, <1>6

LEMMA ThrowsOn ==
  ASSUME NEW c, c.threw = TRUE
  PROVE  Cap!host2device(c).threw = TRUE /\ \A locs : Cap!free(c, locs).threw = TRUE
BY DEF Cap!host2device, Cap!free, Cap!Then

LEMMA Distinguished == Cap!Zeros # Cap!NotSet /\ Cap!NoFile # Cap!NotSet
<1>1. Cap!Zeros.kind = "zeros" /\ Cap!NotSet.kind = "not set" /\ Cap!NoFile.kind = "nothing"
  BY DEF Cap!Zeros, Cap!NotSet, Cap!NoFile
<1> QED
  BY <1>1

(* What is loaded is the file, on both sides.                               *)
LEMMA LoadedIs ==
  ASSUME NEW len, NEW name, ~Loaded(Room(len), name).threw, \A n \in DOMAIN disk : disk[n] # Cap!NotSet
  PROVE  /\ name \in DOMAIN disk
         /\ CapIs(Loaded(Room(len), name), disk[name], disk[name])
<1> DEFINE c == Room(len)
           d == Cap!from_file(c, File(name))
           ok == Cap!hptr(c) # Cap!NotSet /\ c.len > 0 /\ File(name) # Cap!NoFile
<1>1. CapIs(c, Cap!Zeros, Cap!Zeros)
  BY RoomIs
<1> HIDE DEF c
<1>2. ~c.threw /\ "threw" \in DOMAIN c
  BY <1>1 DEF CapIs
<1>3. d.threw # TRUE
  <2>1. ASSUME d.threw = TRUE PROVE FALSE
    BY <2>1, ThrowsOn DEF Loaded, c
  <2> QED
    BY <2>1
<1>4. ok
  <2>1. ASSUME ~ok PROVE FALSE
    <3>1. d = [c EXCEPT !.threw = TRUE]
      BY <1>2, <2>1 DEF Cap!from_file, Cap!Then
    <3>2. d.threw = TRUE
      BY <1>2, <3>1
    <3> QED
      BY <1>3, <3>2
  <2> QED
    BY <2>1
<1>5. name \in DOMAIN disk /\ File(name) = disk[name]
  BY <1>4 DEF File, Nothing
<1>6. d = Cap!Held(c, {"host"}, disk[name])
  BY <1>2, <1>4, <1>5 DEF Cap!from_file, Cap!Then, Cap!HOST
<1>7. CapIs(d, disk[name], Cap!Zeros)
  <2>1. CapIs(Cap!Held(c, {"host"}, disk[name]), IF "host" \in {"host"} THEN disk[name] ELSE Cap!Zeros, IF "device" \in {"host"} THEN disk[name] ELSE Cap!Zeros)
    BY <1>1, HeldIs, Zenon
  <2> QED
    BY <1>6, <2>1
<1> HIDE DEF d
<1>8. CapIs(Cap!host2device(d), disk[name], disk[name])
  BY <1>5, <1>7, Copies, Distinguished
<1> QED
  BY <1>5, <1>8 DEF Loaded, c, d

(* A file that could be loaded, as far as freeing the arrays tells.         *)
LEMMA FreedIs ==
  ASSUME NEW len, NEW name, Cap!free(Loaded(Room(len), name), Cap!HOST_DEVICE).threw # TRUE
  PROVE  Loaded(Room(len), name).threw # TRUE
BY ThrowsOn

LEMMA ArchivedIs ==
  ASSUME held # Cap!NotSet
  PROVE  CapIs(Archived, held, held)
<1> DEFINE a == Cap!set_len(Cap!Capsule, 1)
           b == Cap!set(a, {"device"}, held)
           c == Cap!alloc(b, {"host"})
           d == Cap!device2host(c)
<1>1. CapIs(a, Cap!NotSet, Cap!NotSet) /\ Unallocated(a)
  BY CapsuleIs, SetLenIs
<1> HIDE DEF a
<1>2. b = Cap!Held(a, {"device"}, held)
  BY <1>1, ThenIs DEF Cap!set
<1>3. CapIs(b, Cap!NotSet, held)
  <2>1. CapIs(Cap!Held(a, {"device"}, held), IF "host" \in {"device"} THEN held ELSE Cap!NotSet, IF "device" \in {"device"} THEN held ELSE Cap!NotSet)
    BY <1>1, HeldIs, Zenon
  <2> QED
    BY <1>2, <2>1
<1>4. Unallocated(b)
  BY <1>1, <1>2, HeldIs DEF Unallocated
<1> HIDE DEF b
<1>5. CapIs(c, Cap!Zeros, held)
  <2>1. {"host"} \in SUBSET {"host", "device"}
    OBVIOUS
  <2>2. CapIs(c, IF "host" \in {"host"} THEN Cap!Zeros ELSE Cap!NotSet, IF "device" \in {"host"} THEN Cap!Zeros ELSE held)
    BY <1>3, <1>4, <2>1, AllocIs, Zenon
  <2> HIDE DEF c
  <2> QED
    BY <2>2
<1> HIDE DEF c
<1>6. CapIs(d, held, held)
  BY <1>5, Copies, Distinguished
<1> HIDE DEF d
<1>7. Cap!to_file(d) = d
  <2>1. Cap!hptr(d) # Cap!NotSet
    BY <1>6, CapFields
  <2> QED
    BY <1>6, <2>1, ThenIs DEF Cap!to_file
<1> QED
  BY <1>6, <1>7 DEF Archived, a, b, c, d, Cap!HOST, Cap!DEVICE

LEMMA RestoredIs ==
  ASSUME held # Cap!NotSet
  PROVE  CapIs(Restored, held, held)
<1> DEFINE a == Room(1)
           c == Cap!Held(a, {"device"}, held)
           d == Cap!device2host(c)
<1>1. CapIs(a, Cap!Zeros, Cap!Zeros)
  BY RoomIs
<1> HIDE DEF a
<1>2. CapIs(c, Cap!Zeros, held)
  <2>1. CapIs(Cap!Held(a, {"device"}, held), IF "host" \in {"device"} THEN held ELSE Cap!Zeros, IF "device" \in {"device"} THEN held ELSE Cap!Zeros)
    BY <1>1, HeldIs, Zenon
  <2> QED
    BY <2>1
<1> HIDE DEF c
<1>6. CapIs(d, held, held)
  BY <1>2, Copies, Distinguished
<1> HIDE DEF d
<1>7. Cap!to_file(d) = d
  <2>1. Cap!hptr(d) # Cap!NotSet
    BY <1>6, CapFields
  <2> QED
    BY <1>6, <2>1, ThenIs DEF Cap!to_file
<1> QED
  BY <1>6, <1>7 DEF Restored, a, c, d, Cap!DEVICE

-----------------------------------------------------------------------------
(* The API's context.                                                       *)

LEMMA FreshIs == Typed(Fresh) /\ Fresh["thrown"] = FALSE
<1>1. Fresh["data_len"] = 1 /\ Fresh["radius"] = 512 /\ Fresh["vle_sublen"] = 512 /\ Fresh["fname"] = <<>> /\ Fresh["thrown"] = FALSE
  BY DEF Fresh
<1>2. 1 \in 0 .. UINT - 1
  BY ContextAssumption
<1>3. <<>> \in Seq(STRING)
  OBVIOUS
<1>4. IsCtx(Fresh)
  BY FreshCtx
<1>5. 512 \in Int /\ FALSE \in BOOLEAN
  OBVIOUS
<1> QED
  BY <1>1, <1>2, <1>3, <1>4, <1>5 DEF Typed

\* What the calls of the C API ask for.
Uses(c, len, eb) ==
  /\ Typed(c) /\ c["thrown"] = FALSE /\ c["data_len"] > 0
  /\ c["x"] = len.x /\ c["y"] = len.y /\ c["z"] = len.z /\ c["eb"] = eb

\* The first of the two calls behind it.
Sized(c, len) ==
  /\ Typed(c) /\ c["thrown"] = FALSE /\ c["data_len"] > 0
  /\ c["x"] = len.x /\ c["y"] = len.y /\ c["z"] = len.z

LEMMA SetLenSizes ==
  ASSUME NEW len, {len.x, len.y, len.z, len.w} \subseteq Int
  PROVE  LET c == set_len(Fresh, len.x, len.y, len.z, len.w) IN c["thrown"] = TRUE \/ Sized(c, len)
<1> DEFINE n == CASE len.y = 1 -> 1 [] len.y # 1 /\ len.z = 1 -> 2 [] len.y # 1 /\ len.z # 1 /\ len.w = 1 -> 3 [] OTHER -> 4
           e == Extents(Fresh, n, len.x, len.y, len.z, len.w)
           c == set_len(Fresh, len.x, len.y, len.z, len.w)
<1>1. c = IF e.data_len \in {0, 1} THEN Thrown(e) ELSE e
  BY DEF set_len
<1> HIDE DEF n
<1> DEFINE u == Box(n, len.x, len.y, len.z, len.w)
<1>2. e = Over(Fresh, u)
  BY ExtentsSet, FreshCtx
<1>3. /\ DOMAIN u = {"ndim", "x", "y", "z", "w", "data_len"}
      /\ u["x"] = len.x /\ u["y"] = len.y /\ u["z"] = len.z /\ u["data_len"] = (len.x * len.y * len.z * len.w) % UINT
  BY BoxIs
<1>4. u["data_len"] \in 0 .. UINT - 1
  BY <1>3, Wraps
<1> HIDE DEF u, e
<1>5. IsCtx(e) /\ \A f \in Members : e[f] = IF f \in DOMAIN u THEN u[f] ELSE Fresh[f]
  BY <1>2, OverCtx
<1>6. e["x"] = len.x /\ e["y"] = len.y /\ e["z"] = len.z /\ e["data_len"] \in 0 .. UINT - 1
  BY <1>3, <1>4, <1>5, HasMembers
<1>7. e["thrown"] = FALSE
  BY <1>3, <1>5, FreshIs, HasMembers
<1>8. /\ DOMAIN u \subseteq Members
      /\ "radius" \notin DOMAIN u /\ "vle_sublen" \notin DOMAIN u /\ "fname" \notin DOMAIN u /\ "thrown" \notin DOMAIN u
  BY <1>3, HasMembers
<1>9. Typed(e)
  BY <1>2, <1>4, <1>8, FreshIs, LengthTyped
<1>10. CASE e["data_len"] \in {0, 1}
  BY <1>1, <1>5, <1>10, ThrownIs
<1>11. CASE e["data_len"] \notin {0, 1}
  <2>1. e["data_len"] > 0
    BY <1>6, <1>11, ContextAssumption
  <2>2. c = e
    BY <1>1, <1>11
  <2> HIDE DEF c
  <2>3. Sized(c, len)
    BY <1>6, <1>7, <1>9, <2>1, <2>2 DEF Sized
  <2> QED
    BY <2>3 DEF c
<1> QED
  BY <1>10, <1>11

LEMMA SetEbUses ==
  ASSUME NEW len, NEW eb, NEW c, Sized(c, len)
  PROVE  Uses(set_eb(c, eb), len, eb)
<1> DEFINE r == [c EXCEPT !.eb = eb]
<1>1. DOMAIN c = Members /\ IsCtx(r)
  BY DEF IsCtx, Typed, Sized
<1>2. /\ r["data_len"] = c["data_len"] /\ r["radius"] = c["radius"] /\ r["vle_sublen"] = c["vle_sublen"]
      /\ r["fname"] = c["fname"] /\ r["thrown"] = c["thrown"]
  BY <1>1, HasMembers
<1>3. r["eb"] = eb /\ r["x"] = c["x"] /\ r["y"] = c["y"] /\ r["z"] = c["z"]
  BY <1>1, HasMembers
<1> HIDE DEF r
<1>4. Typed(r)
  BY <1>1, <1>2 DEF Typed, Sized
<1>5. Uses(r, len, eb)
  BY <1>2, <1>3, <1>4 DEF Uses, Sized
<1> QED
  BY <1>5 DEF set_eb, r

LEMMA ModeUses ==
  ASSUME NEW len, NEW eb, NEW c, Uses(c, len, eb), NEW mode,
         NEW d \in set_config(c, << [k |-> "mode", str |-> mode] >>), d["thrown"] = FALSE
  PROVE  Uses(d, len, eb)
<1> DEFINE kv == [k |-> "mode", str |-> mode]
           kvs == <<kv>>
           P == parse_strlist_as_kv(kvs)
<1>1. kv.k = "mode" /\ DOMAIN kv = {"k", "str"}
  OBVIOUS
<1>2. "str" \notin {"k"}
  OBVIOUS
<1> HIDE DEF kv
<1>3. DOMAIN kvs = {1} /\ kvs[1] = kv /\ kvs \in Seq({kv})
  OBVIOUS
<1> HIDE DEF kvs
<1>4. IsSeq(kvs)
  BY <1>3 DEF IsSeq
<1>5. is_kv_pair(kv)
  BY <1>1, <1>2 DEF is_kv_pair
<1>6. Paired(kvs)
  BY <1>3, <1>5 DEF Paired
<1>7. set_config(c, kvs) = Orders(c, P)[P]
  BY <1>6, ConfigIs
<1>8. Distinct(P)
  BY <1>3, <1>4, PairsDistinct
<1>9. IsFiniteSet(P) /\ \A l \in P : l = kv
  BY <1>3, <1>4, PairsFinite
<1>10. IsPair(kv)
  BY <1>1 DEF IsPair, Numeric
<1>11. IsCtx(c) /\ c["thrown"] = FALSE /\ Typed(c)
  BY DEF Uses, Typed
<1>12. d \in Orders(c, P)[P]
  BY <1>7 DEF kvs, kv
<1> HIDE DEF P
<1>13. P \in SUBSET P
  OBVIOUS
<1>14. Applied(c, P, P, d)
  BY <1>8, <1>9, <1>11, <1>12, <1>13, OrdersApplied
<1>15. Typed(d)
  BY <1>9, <1>10, <1>11, <1>12, OrdersTyped
<1>16. Plain(c, P, d)
  BY <1>14 DEF Applied
<1>17. Setting("mode") = "mode"
  BY DEF Setting
<1>18. \A f \in {"x", "y", "z", "eb", "data_len"} : f \in Members \ {"anchor", "thrown"} /\ Owner(f) # "mode"
  BY HasMembers DEF Owner
<1>19. \A f \in DOMAIN Overlay(kv) : f # "thrown" => Owner(f) = "mode"
  <2>1. OwnSetting(kv, Overlay(kv))
    BY OverlayIs DEF IsOverlay
  <2> QED
    BY <1>1, <1>17, <2>1 DEF OwnSetting
<1>20. \A f \in {"x", "y", "z", "eb", "data_len"} : d[f] = c[f]
  BY <1>9, <1>16, <1>18, <1>19 DEF Plain
<1> QED
  BY <1>15, <1>20 DEF Uses

(* A context of the API is as its two calls ask.                            *)
LEMMA ApiContextUses ==
  ASSUME NEW len, {len.x, len.y, len.z, len.w} \subseteq Int, NEW eb, NEW d \in ApiContext(len, eb), d.thrown # TRUE
  PROVE  Uses(d, len, eb)
<1> DEFINE c == set_len(Fresh, len.x, len.y, len.z, len.w)
           mode == IF eb = Rel THEN "r2r" ELSE "abs"
<1>1. ApiContext(len, eb) = IF c.thrown THEN {c} ELSE set_config(set_eb(c, eb), << [k |-> "mode", str |-> mode] >>)
  BY DEF ApiContext
<1>2. c["thrown"] = TRUE \/ Sized(c, len)
  BY SetLenSizes
<1> HIDE DEF c, mode
<1>3. c["thrown"] # TRUE
  BY <1>1
<1>4. Sized(c, len)
  BY <1>2, <1>3
<1>5. c["thrown"] = FALSE
  BY <1>4 DEF Sized
<1>6. d \in set_config(set_eb(c, eb), << [k |-> "mode", str |-> mode] >>)
  BY <1>1, <1>5
<1>7. Uses(set_eb(c, eb), len, eb)
  BY <1>4, SetEbUses
<1>8. Typed(d)
  <2> DEFINE kv == [k |-> "mode", str |-> mode]
             kvs == <<kv>>
  <2>1. kv.k = "mode"
    OBVIOUS
  <2>2. IsPair(kv)
    BY <2>1 DEF IsPair, Numeric
  <2> HIDE DEF kv
  <2>3. kvs \in Seq({kv}) /\ DOMAIN kvs = {1} /\ kvs[1] = kv
    OBVIOUS
  <2> HIDE DEF kvs
  <2>4. IsSeq(kvs) /\ \A k \in DOMAIN kvs : is_kv_pair(kvs[k]) => IsPair(kvs[k])
    BY <2>2, <2>3 DEF IsSeq
  <2>5. Typed(set_eb(c, eb))
    BY <1>7 DEF Uses
  <2>6. d \in set_config(set_eb(c, eb), kvs)
    BY <1>6 DEF kvs, kv
  <2> QED
    BY <2>4, <2>5, <2>6, ConfigTyped
<1>9. d["thrown"] = FALSE
  BY <1>8 DEF Typed
<1> QED
  BY <1>6, <1>7, <1>9, ModeUses

-----------------------------------------------------------------------------
(* The invariant behind the types: what has been read is in range, and an  *)
(* archive that is not damaged holds what the writers put into it.          *)

Made(a) == a.kind = "archive" => a.damaged \/ (Counted(a.shape) /\ a.buf = subfile_collect(a.shape))

DataOK(files) == \A n \in DOMAIN files : files[n].kind \in Kinds /\ Made(files[n])
CtxOK(c)      == Typed(c) /\ c["thrown"] = FALSE
Given(argv)   == argv = <<>> \/ \E c \in Commands : argv = c.argv
CmdOK(command, token) == Given(command.argv) /\ token \in 1 .. Len(command.argv) + 1
HeldOK(data)  == data.kind \in Kinds \cup {"nothing"} /\ Made(data)
AtOK(step, token, data) ==
  /\ step = "idle" => token = 1
  /\ step \in {"save", "save_data"} => data.kind = "archive"
  /\ step \in {"view", "store", "store_data"} => data.kind \in {"result", "garbage"}
ApiOK(step, command, c) ==
  command.api = TRUE => step \in {"compress", "decompress", "view"} /\ (step = "compress" => c["data_len"] > 0)
TypeInv ==
  DataOK(disk) /\ CtxOK(ctx) /\ CmdOK(cmd, i) /\ HeldOK(held) /\ AtOK(pc, i, held) /\ ApiOK(pc, cmd, ctx)

LEMMA GivenSeq ==
  ASSUME NEW argv, Given(argv)
  PROVE  IsSeq(argv) /\ Len(argv) \in Nat
<1>1. CASE argv = <<>>
  <2>1. <<>> \in Seq({}) /\ Len(<<>>) = 0
    OBVIOUS
  <2> QED
    BY <1>1, <2>1 DEF IsSeq
<1>2. CASE \E c \in Commands : argv = c.argv
  <2>1. argv \in Seq({argv[k] : k \in DOMAIN argv})
    BY <1>2, CommandsAssumption
  <2> QED
    BY <2>1 DEF IsSeq
<1> QED
  BY <1>1, <1>2 DEF Given

LEMMA GivenReadable ==
  ASSUME NEW argv, Given(argv), NEW k \in 1 .. Len(argv) - 1, IsOption(argv[k])
  PROVE  IsReadable(argv[k].opt, argv[k + 1])
<1>1. CASE argv = <<>>
  <2>1. Len(argv) = 0
    BY <1>1
  <2> QED
    BY <2>1
<1>2. CASE \E c \in Commands : argv = c.argv
  BY <1>2, CommandsAssumption
<1> QED
  BY <1>1, <1>2 DEF Given

LEMMA UpTo ==
  ASSUME NEW n \in Nat, NEW k \in 1 .. n + 1, k <= n
  PROVE  k \in 1 .. n
OBVIOUS

LEMMA OptIs ==
  ASSUME NEW argv, Given(argv), NEW k \in 1 .. Len(argv) + 1, OptAt(argv, k) # ""
  PROVE  k \in 1 .. Len(argv) /\ IsOption(argv[k]) /\ OptAt(argv, k) = argv[k].opt
<1>1. Len(argv) \in Nat
  BY GivenSeq
<1>2. k <= Len(argv) /\ IsOption(argv[k])
  BY DEF OptAt
<1>3. OptAt(argv, k) = argv[k].opt
  BY <1>2, Zenon DEF OptAt
<1>4. k \in 1 .. Len(argv)
  <2>1. k <= Len(argv)
    BY <1>2
  <2> QED
    BY <1>1, <2>1, UpTo
<1> QED
  BY <1>2, <1>3, <1>4

LEMMA NotBlank == "" \notin Flag \cup Valued \cup Placeholder \cup Leaves
BY DEF Flag, Valued, Placeholder, Leaves

LEMMA AtParse ==
  ASSUME NEW step, NEW token, NEW data,
         step \notin {"idle", "compress", "save", "save_data", "view", "store", "store_data"}
  PROVE  AtOK(step, token, data)
BY DEF AtOK

LEMMA NotApi ==
  ASSUME NEW command, command.api = FALSE
  PROVE  \A step, c : ApiOK(step, command, c)
BY DEF ApiOK

LEMMA NotApiHere ==
  ASSUME TypeInv, pc \notin {"compress", "decompress", "view"}
  PROVE  \A step, c : ApiOK(step, cmd, c)
BY DEF TypeInv, ApiOK

LEMMA KindsIs == Kinds = {"field", "archive", "result", "cut", "garbage"}
BY DEF Kinds

LEMMA NothingOK == HeldOK(Nothing) /\ HeldOK(Garbage)
<1>1. Nothing.kind = "nothing" /\ Garbage.kind = "garbage"
  BY DEF Nothing, Cap!NoFile, Garbage
<1> QED
  BY <1>1 DEF HeldOK, Made, Kinds

LEMMA HeldAside ==
  ASSUME NEW h, h.kind \in Kinds
  PROVE  h # Cap!NotSet
<1>1. Cap!NotSet.kind = "not set"
  BY DEF Cap!NotSet
<1> QED
  BY <1>1 DEF Kinds

LEMMA PutOK ==
  ASSUME DataOK(disk), NEW name, NEW h, h.kind \in Kinds, Made(h)
  PROVE  DataOK(Put(name, h))
<1> DEFINE f == Put(name, h)
<1>1. DOMAIN f = DOMAIN disk \cup {name} /\ \A n \in DOMAIN f : f[n] = IF n = name THEN h ELSE disk[n]
  BY DEF Put
<1> HIDE DEF f
<1>2. ASSUME NEW n \in DOMAIN f PROVE f[n].kind \in Kinds /\ Made(f[n])
  BY <1>1 DEF DataOK
<1>3. DataOK(f)
  BY <1>2 DEF DataOK
<1> QED
  BY <1>3 DEF f

(* Whatever the process was about to do, it may end.                        *)
LEMMA GoneTyped ==
  ASSUME Gone, DataOK(disk')
  PROVE  TypeInv'
<1>1. pc' = "idle" /\ cmd' = NoCmd /\ i' = 1 /\ ctx' = Fresh /\ held' = Nothing
  BY DEF Gone
<1>2. CtxOK(Fresh)
  BY FreshIs DEF CtxOK
<1>3. CmdOK(NoCmd, 1)
  <2>1. NoCmd.argv = <<>> /\ 1 \in 1 .. Len(<<>>) + 1
    BY DEF NoCmd
  <2> QED
    BY <2>1 DEF CmdOK, Given
<1>4. AtOK("idle", 1, Nothing)
  BY DEF AtOK
<1>5. ApiOK("idle", NoCmd, Fresh)
  BY NotApi DEF NoCmd
<1> QED
  BY <1>1, <1>2, <1>3, <1>4, <1>5, NothingOK DEF TypeInv

LEMMA DieTyped ==
  ASSUME TypeInv, Die
  PROVE  TypeInv'
BY GoneTyped DEF Die, TypeInv

LEMMA InitTyped ==
  ASSUME Init
  PROVE  TypeInv
<1>1. pc = "idle" /\ cmd = NoCmd /\ i = 1 /\ ctx = Fresh /\ held = Nothing /\ disk = Fields
  BY DEF Init
<1>2. CtxOK(Fresh)
  BY FreshIs DEF CtxOK
<1>3. CmdOK(NoCmd, 1)
  <2>1. NoCmd.argv = <<>> /\ 1 \in 1 .. Len(<<>>) + 1
    BY DEF NoCmd
  <2> QED
    BY <2>1 DEF CmdOK, Given
<1>4. AtOK("idle", 1, Nothing)
  BY DEF AtOK
<1>5. DataOK(Fields)
  BY CliAssumption DEF DataOK, Made, Kinds
<1>6. ApiOK("idle", NoCmd, Fresh)
  BY NotApi DEF NoCmd
<1> QED
  BY <1>1, <1>2, <1>3, <1>4, <1>5, <1>6, NothingOK DEF TypeInv

LEMMA InvokeTyped ==
  ASSUME TypeInv, NEW c \in Commands, Invoke(c)
  PROVE  TypeInv'
<1>1. /\ pc' = "parse" /\ cmd' = [argv |-> c.argv, api |-> FALSE, writes |-> c.writes]
      /\ disk' = disk /\ i' = i /\ ctx' = ctx /\ held' = held /\ pc = "idle"
  BY DEF Invoke
<1>2. i = 1
  BY <1>1 DEF TypeInv, AtOK
<1>3. CmdOK(cmd', 1)
  <2>1. cmd'.argv = c.argv /\ Given(c.argv)
    BY <1>1 DEF Given
  <2>2. 1 \in 1 .. Len(c.argv) + 1
    BY <2>1, GivenSeq
  <2> QED
    BY <2>1, <2>2 DEF CmdOK
<1>4. AtOK("parse", i', held')
  BY AtParse
<1>5. ApiOK("parse", cmd', ctx')
  BY <1>1, NotApi
<1> QED
  BY <1>1, <1>2, <1>3, <1>4, <1>5 DEF TypeInv

LEMMA TokenMoves ==
  ASSUME TypeInv, NEW n \in {1, 2}, i + n <= Len(cmd.argv) + 1
  PROVE  CmdOK(cmd, i + n)
<1>1. Len(cmd.argv) \in Nat /\ i \in 1 .. Len(cmd.argv) + 1 /\ Given(cmd.argv)
  BY GivenSeq DEF TypeInv, CmdOK
<1> QED
  BY <1>1 DEF CmdOK

LEMMA HereIs ==
  ASSUME TypeInv, Opt # ""
  PROVE  /\ i \in 1 .. Len(cmd.argv) /\ IsOption(cmd.argv[i]) /\ Opt = cmd.argv[i].opt
         /\ Len(cmd.argv) \in Nat /\ Given(cmd.argv)
<1>1. Given(cmd.argv) /\ i \in 1 .. Len(cmd.argv) + 1
  BY DEF TypeInv, CmdOK
<1> QED
  BY <1>1, OptIs, GivenSeq DEF Opt

LEMMA ParseFlagTyped ==
  ASSUME TypeInv, ParseFlag
  PROVE  TypeInv'
<1>1. /\ pc' = pc /\ pc = "parse" /\ cmd' = cmd /\ disk' = disk /\ held' = held
      /\ i' = i + 1 /\ ctx' = Flagged(ctx, Opt) /\ Opt \in Flag
  BY DEF ParseFlag, Parsing
<1>2. Opt # ""
  BY <1>1, NotBlank
<1>3. CmdOK(cmd, i + 1)
  <2>1. i + 1 <= Len(cmd.argv) + 1
    <3>1. i \in 1 .. Len(cmd.argv) /\ Len(cmd.argv) \in Nat
      BY <1>2, HereIs
    <3> QED
      BY <3>1
  <2> QED
    BY <2>1, TokenMoves
<1>4. CtxOK(ctx')
  BY <1>1, FlaggedAside, AsideTyped DEF TypeInv, CtxOK, Typed
<1>5. AtOK(pc', i', held')
  BY <1>1, AtParse
<1> QED
  BY NotApiHere, <1>1, <1>3, <1>4, <1>5 DEF TypeInv

LEMMA ParseValuedTyped ==
  ASSUME TypeInv, ParseValued
  PROVE  TypeInv'
<1>1. pc = "parse" /\ Opt \in Valued
  BY DEF ParseValued, Parsing
<1>2. Opt # ""
  BY <1>1, NotBlank
<1>3. CASE Die
  BY <1>3, DieTyped
<1>4. CASE ~Die
  <2>1. i # Len(cmd.argv)
    BY <1>4 DEF ParseValued
  <2>2. PICK c \in Takes(ctx, Opt, cmd.argv[i + 1]) : /\ ~c.thrown /\ ctx' = c /\ i' = i + 2
                                                      /\ UNCHANGED <<disk, pc, cmd, held, asked, count>>
    BY <1>4, <2>1 DEF ParseValued
  <2>3. i \in 1 .. Len(cmd.argv) - 1 /\ Len(cmd.argv) \in Nat /\ i + 2 <= Len(cmd.argv) + 1
    <3>1. i \in 1 .. Len(cmd.argv) /\ Len(cmd.argv) \in Nat
      BY <1>2, HereIs
    <3> QED
      BY <2>1, <3>1
  <2>4. IsReadable(Opt, cmd.argv[i + 1])
    BY <1>2, <2>3, HereIs, GivenReadable
  <2>5. Typed(c)
    BY <1>1, <2>4, TakesTyped DEF TypeInv, CtxOK
  <2>6. CtxOK(c)
    BY <2>2, <2>5 DEF CtxOK, Typed
  <2>7. CmdOK(cmd, i + 2)
    BY <2>3, TokenMoves
  <2>8. AtOK(pc', i', held')
    BY <1>1, <2>2, AtParse
  <2> QED
    BY NotApiHere, <1>1, <2>2, <2>6, <2>7, <2>8 DEF TypeInv
<1> QED
  BY <1>3, <1>4

LEMMA ParsePlaceholderTyped ==
  ASSUME TypeInv, ParsePlaceholder
  PROVE  TypeInv'
<1>1. pc = "parse" /\ Opt \in Placeholder
  BY DEF ParsePlaceholder, Parsing
<1>2. Opt # ""
  BY <1>1, NotBlank
<1>3. CASE Die
  BY <1>3, DieTyped
<1>4. CASE ~Die
  <2>1. i' = i + 1 /\ UNCHANGED <<disk, pc, cmd, ctx, held, asked, count>>
    BY <1>4 DEF ParsePlaceholder
  <2>2. CmdOK(cmd, i + 1)
    <3>1. i + 1 <= Len(cmd.argv) + 1
      <4>1. i \in 1 .. Len(cmd.argv) /\ Len(cmd.argv) \in Nat
        BY <1>2, HereIs
      <4> QED
        BY <4>1
    <3> QED
      BY <3>1, TokenMoves
  <2>3. AtOK(pc', i', held')
    BY <1>1, <2>1, AtParse
  <2> QED
    BY NotApiHere, <1>1, <2>1, <2>2, <2>3 DEF TypeInv
<1> QED
  BY <1>3, <1>4

LEMMA ParseInvalidTyped ==
  ASSUME TypeInv, ParseInvalid
  PROVE  TypeInv'
<1>1. /\ pc' = pc /\ pc = "parse" /\ cmd' = cmd /\ disk' = disk /\ held' = held
      /\ i' = i + 1 /\ ctx' = Trapped(ctx) /\ i <= Len(cmd.argv)
  BY DEF ParseInvalid
<1>2. CmdOK(cmd, i + 1)
  <2>1. i \in Nat /\ Len(cmd.argv) \in Nat
    BY GivenSeq DEF TypeInv, CmdOK
  <2> QED
    BY <1>1, <2>1, TokenMoves
<1>3. CtxOK(ctx')
  BY <1>1, TrappedAside, AsideTyped DEF TypeInv, CtxOK, Typed
<1>4. AtOK(pc', i', held')
  BY <1>1, AtParse
<1> QED
  BY NotApiHere, <1>1, <1>2, <1>3, <1>4 DEF TypeInv

LEMMA PrintHelpTyped ==
  ASSUME TypeInv, PrintHelp
  PROVE  TypeInv'
BY DieTyped DEF PrintHelp

-----------------------------------------------------------------------------
(* After the options.                                                       *)

LEMMA AsideCtxOK ==
  ASSUME NEW c, NEW d, CtxOK(c), Aside(c, d)
  PROVE  CtxOK(d)
BY AsideTyped DEF CtxOK

LEMMA LastDot ==
  ASSUME NEW path \in Seq(STRING), NEW tok, LastOf(tok, path) > 0
  PROVE  LastOf(tok, path) \in 1 .. Len(path)
<1> DEFINE I == {j \in DOMAIN path : path[j] = tok}
           B == {m \in Nat : Len(path) - m \in I}
<1>1. Len(path) \in Nat /\ DOMAIN path = 1 .. Len(path)
  OBVIOUS
<1>2. I # {}
  BY DEF LastOf
<1>3. LastOf(tok, path) = CHOOSE j \in I : \A k \in I : k <= j
  BY <1>2 DEF LastOf
<1>4. I \subseteq 1 .. Len(path)
  BY <1>1
<1> HIDE DEF I
<1>5. B \in SUBSET Nat
  OBVIOUS
<1>6. B # {}
  <2>1. PICK j \in I : TRUE
    BY <1>2
  <2>2. j \in 1 .. Len(path)
    BY <1>4
  <2>3. Len(path) - j \in Nat /\ Len(path) - (Len(path) - j) = j
    BY <1>1, <2>2
  <2> QED
    BY <2>3
<1>7. PICK m \in B : \A n \in B : m <= n
  BY <1>5, <1>6, Least
<1>8. \A k \in I : k <= Len(path) - m
  <2>1. SUFFICES ASSUME NEW k \in I PROVE k <= Len(path) - m
    OBVIOUS
  <2>2. k \in 1 .. Len(path)
    BY <1>4
  <2>3. Len(path) - k \in Nat /\ Len(path) - (Len(path) - k) = k
    BY <1>1, <2>2
  <2>4. m <= Len(path) - k
    BY <1>7, <2>3
  <2> QED
    BY <1>1, <2>2, <2>4
<1>9. Len(path) - m \in I
  BY <1>7
<1>10. \E j \in I : \A k \in I : k <= j
  BY <1>8, <1>9
<1>11. LastOf(tok, path) \in I
  BY <1>3, <1>10
<1> QED
  BY <1>4, <1>11

\* What a lone decompression makes of the name of the archive it is given.
Trimmed(c) == IF ~c.construct /\ c.reconstruct /\ LastOf(".", c.fname) > 0
           THEN SubSeq(c.fname, 1, LastOf(".", c.fname) - 1) ELSE c.fname

LEMMA CutSeq ==
  ASSUME NEW c, c.fname \in Seq(STRING)
  PROVE  Trimmed(c) \in Seq(STRING)
<1> DEFINE s == c.fname
           k == LastOf(".", s)
<1>1. CASE k > 0
  <2>1. k \in 1 .. Len(s)
    BY <1>1, LastDot
  <2> HIDE DEF k, s
  <2>2. s \in Seq(STRING)
    BY DEF s
  <2>3. SubSeq(s, 1, k - 1) \in Seq(STRING)
    BY <2>1, <2>2
  <2> QED
    BY <2>2, <2>3 DEF Trimmed, k, s
<1>2. CASE ~(k > 0)
  BY <1>2 DEF Trimmed
<1> QED
  BY <1>1, <1>2

\* d is c but for the names it derives.
Named(c, d) ==
  /\ IsCtx(d) /\ d["fname"] = Trimmed(c)
  /\ \A f \in Members \ {"fname", "basename", "opath", "path_basename"} : d[f] = c[f]

LEMMA DeriveNames ==
  ASSUME NEW c, IsCtx(c)
  PROVE  Named(c, derive_fnames(c))
<1>1. PICK v1, v2, v3 : derive_fnames(c) = [c EXCEPT !.fname = Trimmed(c), !.basename = v1, !.opath = v2, !.path_basename = v3]
  BY Zenon DEF derive_fnames, Trimmed
<1> DEFINE n == Trimmed(c)
           r == [c EXCEPT !.fname = n, !.basename = v1, !.opath = v2, !.path_basename = v3]
<1> HIDE DEF n
<1>2. DOMAIN c = Members /\ IsCtx(r)
  BY DEF IsCtx
<1>3. r["fname"] = n
  BY <1>2, HasMembers
<1>4. \A f \in Members \ {"fname", "basename", "opath", "path_basename"} : r[f] = c[f]
  BY <1>2
<1> HIDE DEF r
<1>5. Named(c, r)
  BY <1>2, <1>3, <1>4 DEF Named, n
<1> QED
  BY <1>1, <1>5 DEF r, n

LEMMA NamedOK ==
  ASSUME NEW c, NEW d, CtxOK(c), Named(c, d)
  PROVE  CtxOK(d)
<1>1. /\ d["data_len"] = c["data_len"] /\ d["radius"] = c["radius"] /\ d["vle_sublen"] = c["vle_sublen"]
      /\ d["thrown"] = c["thrown"]
  BY NeededMembers DEF Named, Needed
<1>2. d["fname"] \in Seq(STRING)
  BY CutSeq DEF Named, CtxOK, Typed
<1>3. IsCtx(d)
  BY DEF Named
<1> QED
  BY <1>1, <1>2, <1>3 DEF CtxOK, Typed

LEMMA SettledOK ==
  ASSUME NEW c, CtxOK(c)
  PROVE  CtxOK(Settled(c))
<1> DEFINE a == IF c.predictor = "spline3" THEN [c EXCEPT !.anchor = TRUE] ELSE c
           b == DryrunOnly(a)
<1>1. CtxOK(a)
  <2>1. IsCtx(c)
    BY DEF CtxOK, Typed
  <2>2. Aside(c, c) /\ \A v : Aside(c, [c EXCEPT !.anchor = v])
    BY <2>1, AsideSelf, AsideAnchor
  <2>3. a = c \/ \E v : a = [c EXCEPT !.anchor = v]
    BY Zenon
  <2> HIDE DEF a
  <2> QED
    BY <2>2, <2>3, AsideCtxOK
<1> HIDE DEF a
<1>2. CtxOK(b)
  <2>1. IsCtx(a)
    BY <1>1 DEF CtxOK, Typed
  <2>2. Aside(a, a) /\ \A v, u : Aside(a, [a EXCEPT !.construct = v, !.reconstruct = u])
    BY <2>1, AsideSelf, AsideTasks
  <2>3. b = a \/ \E v, u : b = [a EXCEPT !.construct = v, !.reconstruct = u]
    BY Zenon DEF DryrunOnly
  <2> HIDE DEF b
  <2> QED
    BY <1>1, <2>2, <2>3, AsideCtxOK
<1> HIDE DEF b
<1>3. Named(b, derive_fnames(b))
  BY <1>2, DeriveNames DEF CtxOK, Typed
<1>4. CtxOK(derive_fnames(b))
  BY <1>2, <1>3, NamedOK
<1> QED
  BY <1>4 DEF Settled, a, b

LEMMA AdjustedOK ==
  ASSUME CtxOK(ctx)
  PROVE  CtxOK(adjust_eb(ctx))
<1>1. IsCtx(ctx)
  BY DEF CtxOK, Typed
<1>2. Aside(ctx, ctx) /\ \A v : Aside(ctx, [ctx EXCEPT !.eb = v])
  BY <1>1, AsideSelf, AsideEb
<1>3. adjust_eb(ctx) = ctx \/ \E v : adjust_eb(ctx) = [ctx EXCEPT !.eb = v]
  BY Zenon DEF adjust_eb
<1> QED
  BY <1>2, <1>3, AsideCtxOK

LEMMA CheckTyped ==
  ASSUME TypeInv, Check
  PROVE  TypeInv'
<1>1. CASE Die
  BY <1>1, DieTyped
<1>2. CASE ctx' = Settled(ctx) /\ pc' = "dispatch" /\ UNCHANGED <<disk, cmd, i, held, asked, count>>
  <2>0. pc = "parse"
    BY DEF Check
  <2>1. CtxOK(ctx')
    BY <1>2, SettledOK DEF TypeInv
  <2>2. AtOK(pc', i', held')
    BY <1>2, AtParse
  <2> QED
    BY NotApiHere, <2>0, <1>2, <2>1, <2>2 DEF TypeInv
<1> QED
  BY <1>1, <1>2 DEF Check

-----------------------------------------------------------------------------
(* The tasks.                                                               *)

\* The process goes on to a step that needs nothing.
LEMMA OnTyped ==
  ASSUME TypeInv, pc \notin {"compress", "decompress", "view"}, UNCHANGED <<disk, cmd, i, ctx, held>>,
         pc' \notin {"idle", "compress", "save", "save_data", "view", "store", "store_data"}
  PROVE  TypeInv'
<1>1. AtOK(pc', i', held')
  BY AtParse
<1> QED
  BY <1>1, NotApiHere DEF TypeInv

LEMMA DispatchTyped ==
  ASSUME TypeInv, Dispatch
  PROVE  TypeInv'
<1>1. CASE Die
  BY <1>1, DieTyped
<1>2. CASE ~Die
  <2>1. pc = "dispatch" /\ pc' \in {"dryrun", "load", "load_compressed"} /\ UNCHANGED <<disk, cmd, i, ctx, held, asked, count>>
    BY <1>2 DEF Dispatch, FirstTask
  <2> QED
    BY <2>1, OnTyped
<1> QED
  BY <1>1, <1>2

LEMMA DryrunTyped ==
  ASSUME TypeInv, Dryrun
  PROVE  TypeInv'
<1>1. CASE Die
  BY <1>1, DieTyped
<1>2. CASE ~Die
  <2>1. pc = "dryrun" /\ pc' = FirstTask(ctx) /\ UNCHANGED <<disk, cmd, i, ctx, held, asked, count>>
    BY <1>2, Zenon DEF Dryrun
  <2>2. pc' \in {"load", "load_compressed"}
    BY <2>1 DEF FirstTask
  <2> QED
    BY <2>1, <2>2, OnTyped
<1> QED
  BY <1>1, <1>2

LEMMA NothingUnset ==
  ASSUME DataOK(disk)
  PROVE  \A n \in DOMAIN disk : disk[n] # Cap!NotSet
BY HeldAside DEF DataOK

(* What a capsule has loaded is a file, as it is on disk.                   *)
LEMMA LoadedFile ==
  ASSUME DataOK(disk), NEW len, NEW name, Loaded(Room(len), name).threw # TRUE
  PROVE  /\ name \in DOMAIN disk
         /\ Cap!dptr(Loaded(Room(len), name)) = disk[name] /\ Cap!hptr(Loaded(Room(len), name)) = disk[name]
<1>1. ~Loaded(Room(len), name).threw
  OBVIOUS
<1>2. name \in DOMAIN disk /\ CapIs(Loaded(Room(len), name), disk[name], disk[name])
  BY <1>1, NothingUnset, LoadedIs
<1> QED
  BY <1>2, CapFields

LEMMA load_uncompressedTyped ==
  ASSUME TypeInv, load_uncompressed
  PROVE  TypeInv'
<1> DEFINE input == Loaded(Room(ctx.data_len), ctx.fname)
<1>1. CASE Die
  BY <1>1, DieTyped
<1>2. CASE ~Die
  <2>1. pc = "load" /\ ~input.threw /\ held' = Cap!dptr(input) /\ pc' = "adjust" /\ UNCHANGED <<disk, cmd, i, ctx, asked, count>>
    BY <1>2 DEF load_uncompressed
  <2>2. input.threw # TRUE
    BY <2>1
  <2>3. ctx.fname \in DOMAIN disk /\ held' = disk[ctx.fname]
    BY <2>1, <2>2, LoadedFile DEF TypeInv
  <2>4. HeldOK(held')
    BY <2>3 DEF TypeInv, DataOK, HeldOK
  <2>5. AtOK(pc', i', held')
    BY <2>1, AtParse
  <2> QED
    BY NotApiHere, <2>1, <2>4, <2>5 DEF TypeInv
<1> QED
  BY <1>1, <1>2

LEMMA AdjustTyped ==
  ASSUME TypeInv, Adjust
  PROVE  TypeInv'
<1>1. pc = "adjust" /\ ctx' = adjust_eb(ctx) /\ pc' = "compress" /\ UNCHANGED <<disk, cmd, i, held, asked, count>>
  BY DEF Adjust
<1>2. CtxOK(ctx')
  BY <1>1, AdjustedOK DEF TypeInv
<1>3. AtOK(pc', i', held')
  BY <1>1 DEF AtOK
<1> QED
  BY NotApiHere, <1>1, <1>2, <1>3 DEF TypeInv

LEMMA GetNpart ==
  ASSUME NEW size \in Nat, NEW sub \in Nat \ {0}
  PROVE  get_npart(size, sub) \in Nat /\ (size > 0 => get_npart(size, sub) > 0)
<1>1. size + sub - 1 \in Nat
  OBVIOUS
<1> DEFINE q == (size + sub - 1) \div sub
           r == (size + sub - 1) % sub
<1>2. q \in Nat /\ r \in 0 .. sub - 1 /\ size + sub - 1 = q * sub + r
  BY <1>1, Division
<1> HIDE DEF q, r
<1>3. q = 0 => size = 0
  BY <1>2
<1> QED
  BY <1>2, <1>3 DEF get_npart, q

(* The number of chunks is one, as soon as there is something to part and   *)
(* what the chunks are cut to is not zero.                                  *)
LEMMA Chunks ==
  ASSUME NEW c, c.data_len \in Nat, c.data_len > 0, c.vle_sublen \in Int, c.autotune \/ c.vle_sublen > 0
  PROVE  autotune_coarse_parvle(c, NThread).pardeg \in Nat
<1> DEFINE m == get_npart(c.data_len, NThread)
           n == get_npart(m, 256)
           tuned == n * 256
           sublen == IF c.autotune THEN tuned ELSE c.vle_sublen
<1>1. m \in Nat /\ m > 0
  BY CliAssumption, GetNpart
<1> HIDE DEF m
<1>2. n \in Nat /\ n > 0
  BY <1>1, GetNpart
<1> HIDE DEF n
<1>3. sublen \in Nat \ {0}
  <2>1. CASE c.autotune
    BY <1>2, <2>1
  <2>2. CASE ~c.autotune
    BY <2>2
  <2> QED
    BY <2>1, <2>2
<1> HIDE DEF sublen
<1>4. get_npart(c.data_len, sublen) \in Nat
  BY <1>3, GetNpart
<1>5. autotune_coarse_parvle(c, NThread).pardeg = get_npart(c.data_len, sublen)
  BY DEF autotune_coarse_parvle, sublen, n, m
<1> QED
  BY <1>4, <1>5

(* An archive as it is made is what its writers put into it, or damaged.    *)
LEMMA CompressedMade ==
  ASSUME CtxOK(ctx), ctx["data_len"] > 0, ctx.autotune \/ ctx.vle_sublen > 0, NEW w \in {4, 8}, NEW yield \in Yields
  PROVE  Made(Compressed(Shape(w, yield))) /\ Compressed(Shape(w, yield)).kind = "archive"
<1> DEFINE a == Shape(w, yield)
           h == Compressed(a)
           p == autotune_coarse_parvle(ctx, NThread).pardeg
<1>1. ctx.data_len \in Nat /\ ctx.data_len > 0 /\ ctx.vle_sublen \in Int /\ ctx.radius \in Int
  BY ContextAssumption DEF CtxOK, Typed
<1>2. p \in Nat
  BY <1>1, Chunks
<1> HIDE DEF p
<1>3. yield.ncell \in Nat /\ yield.nnz \in Nat
  BY CliAssumption
<1>4. /\ a.w = w /\ a.len = ctx.data_len /\ a.booklen = 2 * ctx.radius /\ a.pardeg = p
      /\ a.ncell = yield.ncell /\ a.nnz = yield.nnz
  BY DEF Shape, p
<1> HIDE DEF a
<1>5. h.kind = "archive" /\ h.shape = a /\ h.buf = subfile_collect(a) /\ h.damaged = Undefined(a)
  BY DEF Compressed
<1> HIDE DEF h
<1>6. CASE ctx.radius < 0
  <2>1. Undefined(a)
    BY <1>6 DEF Undefined
  <2> QED
    BY <1>5, <2>1 DEF Made, a, h
<1>7. CASE ~(ctx.radius < 0)
  <2>1. 2 * ctx.radius \in Nat
    BY <1>1, <1>7
  <2>2. Counted(a)
    BY <1>1, <1>2, <1>3, <1>4, <2>1 DEF Counted
  <2> QED
    BY <1>5, <2>2 DEF Made, a, h
<1> QED
  BY <1>6, <1>7

LEMMA RoomyPositive ==
  ASSUME NEW len \in Nat, Roomy(len)
  PROVE  len > 0
<1>1. CASE len = 0
  BY <1>1 DEF Roomy
<1> QED
  BY <1>1

LEMMA CompressTyped ==
  ASSUME TypeInv, Compress
  PROVE  TypeInv'
<1>1. CASE Die
  BY <1>1, DieTyped
<1>2. CASE ~Die
  <2>1. /\ pc = "compress" /\ (cmd.api \/ Roomy(ctx.data_len))
        /\ ctx.autotune \/ ctx.vle_sublen > 0
        /\ pc' = IF cmd.api THEN "decompress" ELSE "save"
        /\ UNCHANGED <<disk, cmd, i, ctx, asked, count>>
    BY <1>2 DEF Compress
  <2>2. PICK yield \in Yields, w \in {4, 8} : held' = Compressed(Shape(w, yield))
    <3>1. PICK yield \in Yields : \E w \in IF ctx.huff_bytewidth = 8 THEN {8} ELSE {4, 8} : held' = Compressed(Shape(w, yield))
      BY <1>2 DEF Compress
    <3>2. PICK w \in IF ctx.huff_bytewidth = 8 THEN {8} ELSE {4, 8} : held' = Compressed(Shape(w, yield))
      BY <3>1
    <3>3. w \in {4, 8}
      OBVIOUS
    <3> QED
      BY <3>2, <3>3
  <2>3. ctx["data_len"] > 0
    <3>1. ctx["data_len"] \in Nat
      BY ContextAssumption DEF TypeInv, CtxOK, Typed
    <3>2. CASE cmd.api = TRUE
      BY <2>1, <3>2 DEF TypeInv, ApiOK
    <3>3. CASE cmd.api # TRUE
      BY <2>1, <3>1, <3>3, RoomyPositive
    <3> QED
      BY <3>2, <3>3
  <2>4. Made(held') /\ held'.kind = "archive"
    BY <2>1, <2>2, <2>3, CompressedMade DEF TypeInv
  <2>5. HeldOK(held')
    BY <2>4 DEF HeldOK, Kinds
  <2>6. AtOK(pc', i', held')
    BY <2>1, <2>4 DEF AtOK
  <2>7. ApiOK(pc', cmd', ctx')
    BY <2>1 DEF ApiOK
  <2> QED
    BY <2>1, <2>5, <2>6, <2>7 DEF TypeInv
<1> QED
  BY <1>1, <1>2

LEMMA OpenOK ==
  ASSUME DataOK(disk), NEW name, Open(name)
  PROVE  DataOK(disk')
<1>1. Cut.kind \in Kinds /\ Made(Cut)
  <2>1. Cut.kind = "cut"
    BY DEF Cut
  <2> QED
    BY <2>1 DEF Kinds, Made
<1>2. DataOK(Put(name, Cut))
  BY <1>1, PutOK
<1> QED
  BY <1>2 DEF Open

LEMMA OpenCompressedTyped ==
  ASSUME TypeInv, OpenCompressed
  PROVE  TypeInv'
<1>1. pc = "save" /\ Open(ToCusza(ctx.fname)) /\ pc' = "save_data" /\ UNCHANGED <<cmd, i, ctx, held, asked, count>>
  BY DEF OpenCompressed
<1>2. DataOK(disk')
  BY <1>1, OpenOK DEF TypeInv
<1>3. AtOK(pc', i', held')
  BY <1>1 DEF AtOK, TypeInv
<1> QED
  BY <1>1, <1>2, <1>3, NotApiHere DEF TypeInv

(* What is written is what was held.                                        *)
LEMMA DataPuts ==
  ASSUME held.kind \in Kinds, NEW name
  PROVE  /\ Data(name, Archived) => disk' = disk \/ disk' = Put(name, held)
         /\ Data(name, Restored) => disk' = disk \/ disk' = Put(name, held)
<1>1. held # Cap!NotSet
  BY HeldAside
<1>2. Cap!hptr(Archived) = held /\ Cap!hptr(Restored) = held
  BY <1>1, ArchivedIs, RestoredIs, CapFields
<1> QED
  BY <1>2 DEF Data

LEMMA write_compressed_to_diskTyped ==
  ASSUME TypeInv, write_compressed_to_disk
  PROVE  TypeInv'
<1>1. pc = "save_data" /\ Data(ToCusza(ctx.fname), Archived)
  BY DEF write_compressed_to_disk
<1>2. held.kind = "archive"
  BY <1>1 DEF TypeInv, AtOK
<1>3. held.kind \in Kinds /\ Made(held)
  BY <1>2 DEF TypeInv, HeldOK, Kinds
<1>4. DataOK(disk')
  BY <1>1, <1>3, DataPuts, PutOK DEF TypeInv
<1>5. CASE Gone
  BY <1>4, <1>5, GoneTyped
<1>6. CASE ~Gone
  <2>1. pc' = "load_compressed" /\ held' = Nothing /\ UNCHANGED <<cmd, i, ctx>>
    BY <1>6 DEF write_compressed_to_disk
  <2>2. AtOK(pc', i', held')
    BY <2>1, AtParse
  <2> QED
    BY <1>1, <1>4, <2>1, <2>2, NotApiHere, NothingOK DEF TypeInv
<1> QED
  BY <1>5, <1>6

LEMMA load_compressedTyped ==
  ASSUME TypeInv, load_compressed
  PROVE  TypeInv'
<1>1. pc = "load_compressed"
  BY DEF load_compressed
<1>2. CASE Die
  BY <1>2, DieTyped
<1>3. CASE ~Die
  <2>1. PICK len : LET compressed == Loaded(Room(len), ToCusza(ctx.fname)) IN
                     /\ ~compressed.threw
                     /\ held' = IF Cap!hptr(compressed).kind = "archive" THEN Cap!dptr(compressed) ELSE Garbage
                     /\ pc' = "decompress" /\ UNCHANGED <<disk, cmd, i, ctx, asked, count>>
    BY <1>3 DEF load_compressed
  <2> DEFINE compressed == Loaded(Room(len), ToCusza(ctx.fname))
  <2>2. compressed.threw # TRUE
    BY <2>1
  <2>3. ToCusza(ctx.fname) \in DOMAIN disk /\ Cap!dptr(compressed) = disk[ToCusza(ctx.fname)]
    BY <2>2, LoadedFile DEF TypeInv
  <2>4. held' = disk[ToCusza(ctx.fname)] \/ held' = Garbage
    BY <2>1, <2>3
  <2>5. HeldOK(held')
    BY <2>3, <2>4, NothingOK DEF TypeInv, DataOK, HeldOK
  <2>6. AtOK(pc', i', held')
    BY <2>1, AtParse
  <2> QED
    BY <1>1, <2>1, <2>5, <2>6, NotApiHere DEF TypeInv
<1> QED
  BY <1>2, <1>3

LEMMA DecompressedKind ==
  ASSUME NEW a
  PROVE  Decompressed(a).kind \in {"result", "garbage"}
<1>1. Garbage.kind = "garbage"
  BY DEF Garbage
<1> QED
  BY <1>1 DEF Decompressed

LEMMA DecompressTyped ==
  ASSUME TypeInv, Decompress
  PROVE  TypeInv'
<1>1. CASE Die
  BY <1>1, DieTyped
<1>2. CASE ~Die
  <2>1. pc = "decompress" /\ held' = Decompressed(held) /\ pc' = "view" /\ UNCHANGED <<disk, cmd, i, ctx, asked, count>>
    BY <1>2 DEF Decompress
  <2>2. held'.kind \in {"result", "garbage"}
    BY <2>1, DecompressedKind
  <2>3. HeldOK(held')
    BY <2>2 DEF HeldOK, Made, Kinds
  <2>4. AtOK(pc', i', held')
    BY <2>1, <2>2 DEF AtOK
  <2>5. ApiOK(pc', cmd', ctx')
    BY <2>1 DEF ApiOK
  <2> QED
    BY <2>1, <2>3, <2>4, <2>5 DEF TypeInv
<1> QED
  BY <1>1, <1>2

LEMMA ViewTyped ==
  ASSUME TypeInv, View
  PROVE  TypeInv'
<1>1. CASE Die
  BY <1>1, DieTyped
<1>2. CASE ~Die
  <2>1. pc = "view" /\ ~cmd.api /\ pc' = "store" /\ UNCHANGED <<disk, cmd, i, ctx, held, asked, count>>
    BY <1>2 DEF View
  <2>2. AtOK(pc', i', held')
    BY <2>1 DEF AtOK, TypeInv
  <2>3. ApiOK(pc', cmd', ctx')
    BY <2>1 DEF ApiOK
  <2> QED
    BY <2>1, <2>2, <2>3 DEF TypeInv
<1> QED
  BY <1>1, <1>2

LEMMA OpenDecompressedTyped ==
  ASSUME TypeInv, OpenDecompressed
  PROVE  TypeInv'
<1>1. CASE Die
  BY <1>1, DieTyped
<1>2. CASE ~Die
  <2>1. pc = "store" /\ Open(ToCuszx(ctx.fname)) /\ pc' = "store_data" /\ UNCHANGED <<cmd, i, ctx, held, asked, count>>
    BY <1>2 DEF OpenDecompressed
  <2>2. DataOK(disk')
    BY <2>1, OpenOK DEF TypeInv
  <2>3. AtOK(pc', i', held')
    BY <2>1 DEF AtOK, TypeInv
  <2> QED
    BY <2>1, <2>2, <2>3, NotApiHere DEF TypeInv
<1> QED
  BY <1>1, <1>2

LEMMA try_write_decompressed_to_diskTyped ==
  ASSUME TypeInv, try_write_decompressed_to_disk
  PROVE  TypeInv'
<1>1. pc = "store_data" /\ Data(ToCuszx(ctx.fname), Restored) /\ Gone
  BY DEF try_write_decompressed_to_disk
<1>2. held.kind \in {"result", "garbage"}
  BY <1>1 DEF TypeInv, AtOK
<1>3. held.kind \in Kinds /\ Made(held)
  BY <1>2 DEF Kinds, Made
<1>4. DataOK(disk')
  BY <1>1, <1>3, DataPuts, PutOK DEF TypeInv
<1> QED
  BY <1>1, <1>4, GoneTyped

LEMMA CallApiTyped ==
  ASSUME TypeInv, NEW c \in ApiCalls, CallApi(c)
  PROVE  TypeInv'
<1>1. pc = "idle" /\ c.from \in DOMAIN disk
  BY DEF CallApi
<1>2. PICK d \in ApiContext(c.len, c.eb) :
        IF d.thrown THEN UNCHANGED <<disk, pc, cmd, i, ctx, held, asked>>
        ELSE /\ ctx' = d /\ pc' = "compress" /\ held' = disk[c.from]
             /\ cmd' = [NoCmd EXCEPT !.api = TRUE]
             /\ asked' = asked \cup Asked(c.from, <<c.len.x, c.len.y, c.len.z>>, c.eb)
             /\ UNCHANGED <<disk, i>>
  BY DEF CallApi
<1>3. CASE d.thrown
  BY <1>2, <1>3 DEF TypeInv
<1>4. CASE ~d.thrown
  <2>1. /\ ctx' = d /\ pc' = "compress" /\ held' = disk[c.from]
        /\ cmd' = [NoCmd EXCEPT !.api = TRUE] /\ disk' = disk /\ i' = i
    BY <1>2, <1>4
  <2>2. {c.len.x, c.len.y, c.len.z, c.len.w} \subseteq Int /\ d.thrown # TRUE
    BY <1>4, CliAssumption
  <2>3. Uses(d, c.len, c.eb)
    BY <2>2, ApiContextUses
  <2>4. CtxOK(d) /\ d["data_len"] > 0
    BY <2>3 DEF Uses, CtxOK
  <2>5. i = 1
    BY <1>1 DEF TypeInv, AtOK
  <2>6. CmdOK(cmd', 1)
    <3>1. cmd'.argv = <<>> /\ 1 \in 1 .. Len(<<>>) + 1
      BY <2>1 DEF NoCmd
    <3> QED
      BY <3>1 DEF CmdOK, Given
  <2>7. HeldOK(held')
    BY <1>1, <2>1 DEF TypeInv, DataOK, HeldOK
  <2>8. AtOK(pc', i', held')
    BY <2>1 DEF AtOK
  <2>9. ApiOK(pc', cmd', ctx')
    BY <2>1, <2>4 DEF ApiOK
  <2> QED
    BY <2>1, <2>4, <2>5, <2>6, <2>7, <2>8, <2>9 DEF TypeInv
<1> QED
  BY <1>3, <1>4

LEMMA KillTyped ==
  ASSUME TypeInv, Kill
  PROVE  TypeInv'
BY DieTyped DEF Kill

(* Every step keeps what has been read in range and archives whole.         *)
LEMMA TypeInvKept ==
  ASSUME TypeInv, [Next]_vars
  PROVE  TypeInv'
<1>1. CASE \E c \in Commands : Invoke(c)
  BY <1>1, InvokeTyped
<1>2. CASE \E c \in ApiCalls : CallApi(c)
  BY <1>2, CallApiTyped
<1>3. CASE Step
  BY <1>3, ParseFlagTyped, ParseValuedTyped, ParsePlaceholderTyped, ParseInvalidTyped, PrintHelpTyped, CheckTyped,
     DispatchTyped, DryrunTyped, load_uncompressedTyped, AdjustTyped, CompressTyped, OpenCompressedTyped,
     write_compressed_to_diskTyped, load_compressedTyped, DecompressTyped, ViewTyped, OpenDecompressedTyped,
     try_write_decompressed_to_diskTyped, KillTyped DEF Step
<1>4. CASE UNCHANGED vars
  BY <1>4 DEF vars, TypeInv
<1> QED
  BY <1>1, <1>2, <1>3, <1>4 DEF Next

(* The invariant holds of every command line, field and yield there may be. *)
THEOREM TypeInvariant == Spec => []TypeInv
<1>1. Init => TypeInv
  BY InitTyped
<1>2. TypeInv /\ [Next]_vars => TypeInv'
  BY TypeInvKept
<1> QED
  BY <1>1, <1>2, PTL DEF Spec

LEMMA TypeInvTypes ==
  ASSUME TypeInv
  PROVE  TypeOK
<1>1. \A n \in DOMAIN disk : disk[n].kind \in Kinds
  BY DEF TypeInv, DataOK
<1>2. held.kind \in Kinds \cup {"nothing"}
  BY DEF TypeInv, HeldOK
<1>3. i \in 1 .. Len(cmd.argv) + 1
  BY DEF TypeInv, CmdOK
<1>4. ctx.data_len \in 0 .. UINT - 1 /\ ~ctx.thrown
  BY DEF TypeInv, CtxOK, Typed
<1>5. /\ pc \in {"save", "save_data"} => held.kind = "archive"
      /\ pc \in {"view", "store", "store_data"} => held.kind \in {"result", "garbage"}
  BY DEF TypeInv, AtOK
<1> QED
  BY <1>1, <1>2, <1>3, <1>4, <1>5 DEF TypeOK

(* Lengths stay within an unsigned int whatever extents are given, no       *)
(* exception is outlived, and each task finds the data it works on.         *)
THEOREM CliTypes == Spec => []TypeOK
<1>1. TypeInv => TypeOK
  BY TypeInvTypes
<1> QED
  BY <1>1, TypeInvariant, PTL

LEMMA TypeInvIntact ==
  ASSUME TypeInv
  PROVE  Intact
<1>1. SUFFICES ASSUME NEW n \in DOMAIN disk, disk[n].kind = "archive", ~disk[n].damaged
               PROVE  HfDecoderReads(disk[n].shape, disk[n].buf) /\ SpDecoderReads(disk[n].shape, disk[n].buf)
  BY DEF Intact
<1>2. Made(disk[n])
  BY DEF TypeInv, DataOK
<1>3. Counted(disk[n].shape) /\ disk[n].buf = subfile_collect(disk[n].shape)
  BY <1>1, <1>2 DEF Made
<1>4. HfDecoderReads(disk[n].shape, subfile_collect(disk[n].shape)) /\ SpDecoderReads(disk[n].shape, subfile_collect(disk[n].shape))
  BY <1>3, ArchiveReadable
<1> QED
  BY <1>3, <1>4

(* Every archive on disk that is not damaged gives the decoders exactly the *)
(* parts the encoders wrote, for every length, codeword width, dictionary,  *)
(* number of chunks and yield.                                              *)
THEOREM ArchivesIntact == Spec => []Intact
<1>1. TypeInv => Intact
  BY TypeInvIntact
<1> QED
  BY <1>1, TypeInvariant, PTL

LEMMA ConfigSeq ==
  ASSUME NEW argv, Given(argv), NEW j \in 1 .. Len(argv) - 1, argv[j] \in {[opt |-> "-c"], [opt |-> "--config"]}
  PROVE  IsSeq(argv[j + 1].kvs)
<1>1. IsOption(argv[j]) /\ argv[j].opt \in {"-c", "--config"}
  <2>1. CASE argv[j] = [opt |-> "-c"]
    BY <2>1 DEF IsOption
  <2>2. CASE argv[j] = [opt |-> "--config"]
    BY <2>2 DEF IsOption
  <2> QED
    BY <2>1, <2>2
<1>2. IsReadable(argv[j].opt, argv[j + 1])
  BY <1>1, GivenReadable
<1>3. argv[j + 1].kvs \in Seq({argv[j + 1].kvs[k] : k \in DOMAIN argv[j + 1].kvs})
  BY <1>1, <1>2 DEF IsReadable
<1> QED
  BY <1>3 DEF IsSeq

LEMMA TypeInvOrder ==
  ASSUME TypeInv
  PROVE  OrderIrrelevant
<1>1. SUFFICES ASSUME NEW kvs \in Configs,
                      \A j, k \in DOMAIN kvs : Setting(kvs[j].k) = Setting(kvs[k].k) => kvs[j].k = kvs[k].k,
                      NEW c \in set_config(ctx, kvs), NEW d \in set_config(ctx, kvs)
               PROVE  c = d \/ (c.thrown /\ d.thrown) \/ (Replaces(kvs) /\ Anchored(c) = Anchored(d))
  BY DEF OrderIrrelevant
<1>2. IsSeq(kvs)
  <2>1. PICK j \in 1 .. Len(cmd.argv) - 1 : /\ cmd.argv[j] \in {[opt |-> "-c"], [opt |-> "--config"]}
                                            /\ kvs = cmd.argv[j + 1].kvs
    BY DEF Configs
  <2>2. Given(cmd.argv)
    BY DEF TypeInv, CmdOK
  <2> QED
    BY <2>1, <2>2, ConfigSeq
<1>3. IsCtx(ctx) /\ ctx["thrown"] = FALSE
  BY DEF TypeInv, CtxOK, Typed
<1>4. \/ c = d \/ (c["thrown"] = TRUE /\ d["thrown"] = TRUE)
      \/ ctx["predictor"] = "spline3" /\ (\E j \in DOMAIN kvs : kvs[j].k = "predictor") /\ Anchored(c) = Anchored(d)
  BY <1>1, <1>2, <1>3, ConfigSame
<1> QED
  BY <1>4 DEF Replaces

(* In whatever order the hash table hands out the pairs of a configuration  *)
(* string whose keys set different things, the context comes out the same,  *)
(* but for the anchor where one of them replaces a predictor of spline3.    *)
THEOREM ConfigOrderIrrelevant == Spec => []OrderIrrelevant
<1>1. TypeInv => OrderIrrelevant
  BY TypeInvOrder
<1> QED
  BY <1>1, TypeInvariant, PTL

-----------------------------------------------------------------------------
(* The context is what the options of the command line mean: while they are *)
(* read, one that the tokens so far may lead to, and then one that all of   *)
(* them mean, but for a bound that has been adjusted.                       *)

Task  == {"dispatch", "dryrun", "load", "adjust", "compress", "save", "save_data",
          "load_compressed", "decompress", "view", "store", "store_data"}
Exact == {"dispatch", "dryrun", "load", "adjust"}
Runs(command, k) == command = [argv |-> k.argv, api |-> FALSE, writes |-> k.writes]
Like(m, c)  == \A f \in Members \ {"eb"} : c[f] = m[f]
Meaning(k, step, c) ==
  \E m \in Meant(k.argv) : Like(m, c) /\ (step \in Exact => c["eb"] = m["eb"])
Follows(k, step, token, c) ==
  /\ step \in {"parse"} \cup Task
  /\ step = "parse" => c \in Contexts(k.argv)[token]
  /\ step \in Task => Meaning(k, step, c)
  /\ step \in Task \ {"dispatch"} => c["predictor"] # "spline3"
MeansOK(step, command, token, c) ==
  /\ step = "idle" => c = Fresh
  /\ step # "idle" /\ command.api # TRUE => \E k \in Commands : Runs(command, k) /\ Follows(k, step, token, c)
MeansInv == MeansOK(pc, cmd, i, ctx)

LEMMA RunsIs ==
  ASSUME NEW k, Runs(cmd, k)
  PROVE  cmd.argv = k.argv /\ cmd.api = FALSE /\ cmd.writes = k.writes
BY DEF Runs

LEMMA GoneMeans ==
  ASSUME Gone
  PROVE  MeansInv'
BY DEF Gone, MeansInv, MeansOK

LEMMA DieMeans ==
  ASSUME Die
  PROVE  MeansInv'
BY GoneMeans DEF Die

(* A process that is under way, and not of a program using the API, runs a  *)
(* command.                                                                 *)
LEMMA RunsCommand ==
  ASSUME TypeInv, MeansInv, pc \notin {"idle", "compress", "decompress", "view"} \/ (pc # "idle" /\ cmd.api # TRUE)
  PROVE  \E k \in Commands : Runs(cmd, k) /\ Follows(k, pc, i, ctx)
<1>1. cmd.api # TRUE /\ pc # "idle"
  BY DEF TypeInv, ApiOK
<1> QED
  BY <1>1 DEF MeansInv, MeansOK

LEMMA MeansRun ==
  ASSUME NEW k \in Commands, Runs(cmd', k), Follows(k, pc', i', ctx'), pc' # "idle"
  PROVE  MeansInv'
BY DEF MeansInv, MeansOK

LEMMA InvokeMeans ==
  ASSUME TypeInv, MeansInv, NEW k \in Commands, Invoke(k)
  PROVE  MeansInv'
<1>1. pc = "idle" /\ pc' = "parse" /\ Runs(cmd', k) /\ i' = i /\ ctx' = ctx
  BY DEF Invoke, Runs
<1>2. i = 1 /\ ctx = Fresh
  BY <1>1 DEF TypeInv, AtOK, MeansInv, MeansOK
<1>3. Fresh \in Contexts(k.argv)[1]
  <2>1. IsSeq(k.argv)
    BY GivenSeq DEF Given
  <2> QED
    BY <2>1, FirstContext
<1>4. Follows(k, "parse", 1, Fresh)
  BY <1>3 DEF Follows, Task
<1> QED
  BY <1>1, <1>2, <1>4, MeansRun

LEMMA ParsedMeans ==
  ASSUME NEW k \in Commands, Runs(cmd', k), pc' = "parse", ctx' \in Contexts(k.argv)[i']
  PROVE  MeansInv'
<1>1. Follows(k, pc', i', ctx')
  BY DEF Follows, Task
<1> QED
  BY <1>1, MeansRun

LEMMA Parsing1 ==
  ASSUME TypeInv, MeansInv, pc = "parse"
  PROVE  \E k \in Commands : Runs(cmd, k) /\ cmd.argv = k.argv /\ ctx \in Contexts(k.argv)[i] /\ IsSeq(k.argv) /\ Len(k.argv) \in Nat
<1>1. PICK k \in Commands : Runs(cmd, k) /\ Follows(k, pc, i, ctx)
  BY RunsCommand
<1>2. cmd.argv = k.argv /\ ctx \in Contexts(k.argv)[i]
  BY <1>1, RunsIs DEF Follows
<1>3. IsSeq(k.argv) /\ Len(k.argv) \in Nat
  BY GivenSeq DEF Given
<1> QED
  BY <1>1, <1>2, <1>3

LEMMA OptionsApart ==
  /\ Flag \cap Placeholder = {} /\ Flag \cap Valued = {} /\ Valued \cap Placeholder = {}
BY DEF Flag, Placeholder, Valued

LEMMA ParseFlagMeans ==
  ASSUME TypeInv, MeansInv, ParseFlag
  PROVE  MeansInv'
<1>1. /\ pc' = pc /\ pc = "parse" /\ cmd' = cmd /\ i' = i + 1 /\ ctx' = Flagged(ctx, Opt) /\ Opt \in Flag
  BY DEF ParseFlag, Parsing
<1>2. PICK k \in Commands : Runs(cmd, k) /\ cmd.argv = k.argv /\ ctx \in Contexts(k.argv)[i] /\ IsSeq(k.argv) /\ Len(k.argv) \in Nat
  BY <1>1, Parsing1
<1>3. i \in 1 .. Len(k.argv)
  <2>1. Opt # ""
    BY <1>1, NotBlank
  <2> QED
    BY <1>2, <2>1, HereIs
<1>4. ctx' \in Alone(k.argv, i, ctx)
  BY <1>1, <1>2 DEF Alone, Opt
<1>5. ctx' \in Contexts(k.argv)[i + 1]
  BY <1>2, <1>3, <1>4, AloneContext
<1> QED
  BY <1>1, <1>2, <1>5, ParsedMeans

LEMMA ParsePlaceholderMeans ==
  ASSUME TypeInv, MeansInv, ParsePlaceholder
  PROVE  MeansInv'
<1>1. pc = "parse" /\ Opt \in Placeholder
  BY DEF ParsePlaceholder, Parsing
<1>2. CASE Die
  BY <1>2, DieMeans
<1>3. CASE ~Die
  <2>1. i # Len(cmd.argv) /\ i' = i + 1 /\ UNCHANGED <<disk, pc, cmd, ctx, held, asked, count>>
    BY <1>3 DEF ParsePlaceholder
  <2>2. PICK k \in Commands : Runs(cmd, k) /\ cmd.argv = k.argv /\ ctx \in Contexts(k.argv)[i] /\ IsSeq(k.argv) /\ Len(k.argv) \in Nat
    BY <1>1, Parsing1
  <2>3. i \in 1 .. Len(k.argv)
    <3>1. Opt # ""
      BY <1>1, NotBlank
    <3> QED
      BY <2>2, <3>1, HereIs
  <2>4. i < Len(k.argv)
    BY <2>1, <2>2, <2>3
  <2>5. Opt \notin Flag
    BY <1>1, OptionsApart
  <2>6. ctx' \in Alone(k.argv, i, ctx)
    BY <1>1, <2>1, <2>2, <2>4, <2>5 DEF Alone, Opt
  <2>7. ctx' \in Contexts(k.argv)[i + 1]
    BY <2>2, <2>3, <2>6, AloneContext
  <2> QED
    BY <1>1, <2>1, <2>2, <2>7, ParsedMeans
<1> QED
  BY <1>2, <1>3

LEMMA ParseInvalidMeans ==
  ASSUME TypeInv, MeansInv, ParseInvalid
  PROVE  MeansInv'
<1>1. /\ pc' = pc /\ pc = "parse" /\ cmd' = cmd /\ i' = i + 1 /\ ctx' = Trapped(ctx) /\ i <= Len(cmd.argv)
      /\ Opt \notin Flag /\ Opt \notin Placeholder /\ Opt \notin Placeholder \cup Valued \cup Leaves
  BY DEF ParseInvalid
<1>2. PICK k \in Commands : Runs(cmd, k) /\ cmd.argv = k.argv /\ ctx \in Contexts(k.argv)[i] /\ IsSeq(k.argv) /\ Len(k.argv) \in Nat
  BY <1>1, Parsing1
<1>3. i \in 1 .. Len(k.argv)
  <2>1. i \in 1 .. Len(k.argv) + 1
    BY <1>2 DEF TypeInv, CmdOK
  <2> QED
    BY <1>1, <1>2, <2>1, UpTo
<1>4. ctx' \in Alone(k.argv, i, ctx)
  BY <1>1, <1>2 DEF Alone, Opt
<1>5. ctx' \in Contexts(k.argv)[i + 1]
  BY <1>2, <1>3, <1>4, AloneContext
<1> QED
  BY <1>1, <1>2, <1>5, ParsedMeans

LEMMA ParseValuedMeans ==
  ASSUME TypeInv, MeansInv, ParseValued
  PROVE  MeansInv'
<1>1. pc = "parse" /\ Opt \in Valued
  BY DEF ParseValued, Parsing
<1>2. CASE Die
  BY <1>2, DieMeans
<1>3. CASE ~Die
  <2>1. i # Len(cmd.argv)
    BY <1>3 DEF ParseValued
  <2>2. PICK c \in Takes(ctx, Opt, cmd.argv[i + 1]) : /\ ~c.thrown /\ ctx' = c /\ i' = i + 2
                                                      /\ UNCHANGED <<disk, pc, cmd, held, asked, count>>
    BY <1>3, <2>1 DEF ParseValued
  <2>3. PICK k \in Commands : Runs(cmd, k) /\ cmd.argv = k.argv /\ ctx \in Contexts(k.argv)[i] /\ IsSeq(k.argv) /\ Len(k.argv) \in Nat
    BY <1>1, Parsing1
  <2>4. i \in 1 .. Len(k.argv)
    <3>1. Opt # ""
      BY <1>1, NotBlank
    <3> QED
      BY <2>3, <3>1, HereIs
  <2>5. i \in 1 .. Len(k.argv) - 1
    BY <2>1, <2>3, <2>4
  <2>6. c \in WithNext(k.argv, i, ctx)
    BY <1>1, <2>2, <2>3 DEF WithNext, Opt
  <2>7. c \in Contexts(k.argv)[i + 2]
    BY <2>3, <2>5, <2>6, PairContext
  <2> QED
    BY <1>1, <2>2, <2>3, <2>7, ParsedMeans
<1> QED
  BY <1>2, <1>3

LEMMA CheckMeans ==
  ASSUME TypeInv, MeansInv, Check
  PROVE  MeansInv'
<1>1. CASE Die
  BY <1>1, DieMeans
<1>2. CASE ~Die
  <2>1. /\ pc = "parse" /\ i > Len(cmd.argv) /\ ~Rejected(cmd.argv, ctx)
        /\ ctx' = Settled(ctx) /\ pc' = "dispatch" /\ UNCHANGED <<disk, cmd, i, held, asked, count>>
    BY <1>2 DEF Check
  <2>2. PICK k \in Commands : Runs(cmd, k) /\ cmd.argv = k.argv /\ ctx \in Contexts(k.argv)[i] /\ IsSeq(k.argv) /\ Len(k.argv) \in Nat
    BY <2>1, Parsing1
  <2>3. i = Len(k.argv) + 1
    <3>1. i \in 1 .. Len(k.argv) + 1
      BY <2>2 DEF TypeInv, CmdOK
    <3> QED
      BY <2>1, <2>2, <3>1
  <2>4. ctx' \in Meant(k.argv)
    BY <2>1, <2>2, <2>3 DEF Meant
  <2>5. Meaning(k, "dispatch", ctx')
    BY <2>4 DEF Meaning, Like
  <2>6. Follows(k, "dispatch", i', ctx')
    BY <2>5 DEF Follows, Task
  <2> QED
    BY <2>1, <2>2, <2>6, MeansRun
<1> QED
  BY <1>1, <1>2

(* A task keeps the context; the last step at which the bound is the one    *)
(* given is the one that adjusts it.                                        *)
LEMMA TaskMeans ==
  ASSUME TypeInv, MeansInv, pc \in Task, pc' \in Task \ {"dispatch"}, ctx' = ctx, cmd' = cmd,
         pc = "dispatch" => ctx["predictor"] # "spline3", pc' \in Exact => pc \in Exact
  PROVE  MeansInv'
<1>1. pc # "idle" /\ pc' # "idle"
  BY DEF Task
<1>2. CASE cmd.api = TRUE
  BY <1>1, <1>2 DEF MeansInv, MeansOK
<1>3. CASE cmd.api # TRUE
  <2>1. PICK k \in Commands : Runs(cmd, k) /\ Follows(k, pc, i, ctx)
    BY <1>1, <1>3, RunsCommand
  <2>2. Meaning(k, pc', ctx')
    BY <2>1 DEF Follows, Meaning
  <2>3. ctx'["predictor"] # "spline3" /\ pc' # "parse"
    BY <2>1 DEF Follows, Task
  <2>4. Follows(k, pc', i', ctx')
    BY <2>2, <2>3 DEF Follows
  <2> QED
    BY <1>1, <2>1, <2>4, MeansRun
<1> QED
  BY <1>2, <1>3

LEMMA DispatchMeans ==
  ASSUME TypeInv, MeansInv, Dispatch
  PROVE  MeansInv'
<1>1. CASE Die
  BY <1>1, DieMeans
<1>2. CASE ~Die
  <2>1. /\ pc = "dispatch" /\ ctx.predictor # "spline3" /\ pc' \in {"dryrun", "load", "load_compressed"}
        /\ UNCHANGED <<disk, cmd, i, ctx, held, asked, count>>
    BY <1>2 DEF Dispatch, FirstTask
  <2>2. pc \in Task /\ pc \in Exact /\ pc' \in Task \ {"dispatch"}
    BY <2>1 DEF Task, Exact
  <2> QED
    BY <2>1, <2>2, TaskMeans
<1> QED
  BY <1>1, <1>2

LEMMA AdjustMeans ==
  ASSUME TypeInv, MeansInv, Adjust
  PROVE  MeansInv'
<1>1. pc = "adjust" /\ ctx' = adjust_eb(ctx) /\ pc' = "compress" /\ UNCHANGED <<disk, cmd, i, held, asked, count>>
  BY DEF Adjust
<1>2. PICK k \in Commands : Runs(cmd, k) /\ Follows(k, pc, i, ctx)
  BY <1>1, RunsCommand
<1>3. IsCtx(ctx)
  BY DEF TypeInv, CtxOK, Typed
<1>4. \A f \in Members \ {"eb"} : ctx'[f] = ctx[f]
  BY <1>1, <1>3 DEF adjust_eb, IsCtx
<1>5. PICK m \in Meant(k.argv) : Like(m, ctx)
  BY <1>1, <1>2 DEF Follows, Meaning, Task
<1>6. Like(m, ctx')
  BY <1>4, <1>5 DEF Like
<1>7. Meaning(k, "compress", ctx')
  BY <1>6 DEF Meaning, Exact
<1>8. ctx'["predictor"] # "spline3"
  BY <1>1, <1>2, <1>4, HasMembers DEF Follows, Task
<1>9. Follows(k, pc', i', ctx')
  BY <1>1, <1>7, <1>8 DEF Follows, Task
<1> QED
  BY <1>1, <1>2, <1>9, MeansRun

LEMMA CallApiMeans ==
  ASSUME MeansInv, NEW c \in ApiCalls, CallApi(c)
  PROVE  MeansInv'
<1>1. PICK d \in ApiContext(c.len, c.eb) :
        IF d.thrown THEN UNCHANGED <<disk, pc, cmd, i, ctx, held, asked>>
        ELSE /\ ctx' = d /\ pc' = "compress" /\ held' = disk[c.from]
             /\ cmd' = [NoCmd EXCEPT !.api = TRUE]
             /\ asked' = asked \cup Asked(c.from, <<c.len.x, c.len.y, c.len.z>>, c.eb)
             /\ UNCHANGED <<disk, i>>
  BY DEF CallApi
<1>2. CASE d.thrown
  BY <1>1, <1>2 DEF MeansInv
<1>3. CASE ~d.thrown
  <2>1. pc' = "compress" /\ cmd'.api = TRUE
    BY <1>1, <1>3 DEF NoCmd
  <2> QED
    BY <2>1 DEF MeansInv, MeansOK
<1> QED
  BY <1>2, <1>3

(* The steps that leave the context to the next.                            *)
LEMMA OnMeans ==
  ASSUME TypeInv, MeansInv, pc \in Task \ {"dispatch"}, pc' \in Task \ {"dispatch"}, UNCHANGED <<cmd, ctx>>,
         pc' \in Exact => pc \in Exact
  PROVE  MeansInv'
BY TaskMeans

LEMMA RestMeans ==
  ASSUME TypeInv, MeansInv,
         \/ PrintHelp \/ Dryrun \/ load_uncompressed \/ Compress \/ OpenCompressed \/ write_compressed_to_disk
         \/ load_compressed \/ Decompress \/ View \/ OpenDecompressed \/ try_write_decompressed_to_disk \/ Kill
  PROVE  MeansInv'
<1>0. CASE Gone
  BY <1>0, GoneMeans
<1>1. CASE ~Gone
  <2>0. ~Die
    BY <1>1 DEF Die
  <2>1. CASE PrintHelp \/ Kill \/ try_write_decompressed_to_disk
    BY <1>1, <2>0, <2>1 DEF PrintHelp, Kill, try_write_decompressed_to_disk
  <2>2. CASE Dryrun
    <3>1. pc = "dryrun" /\ pc' \in {"load", "load_compressed"} /\ UNCHANGED <<cmd, ctx>>
      BY <2>0, <2>2, Zenon DEF Dryrun, FirstTask
    <3>2. pc \in Task \ {"dispatch"} /\ pc' \in Task \ {"dispatch"} /\ pc \in Exact
      BY <3>1 DEF Task, Exact
    <3> QED
      BY <3>1, <3>2, OnMeans
  <2>3. CASE load_uncompressed
    <3>1. pc = "load" /\ pc' = "adjust" /\ UNCHANGED <<cmd, ctx>>
      BY <2>0, <2>3 DEF load_uncompressed
    <3>2. pc \in Task \ {"dispatch"} /\ pc' \in Task \ {"dispatch"} /\ pc \in Exact
      BY <3>1 DEF Task, Exact
    <3> QED
      BY <3>1, <3>2, OnMeans
  <2>4. CASE Compress
    <3>1. pc = "compress" /\ pc' \in {"decompress", "save"} /\ UNCHANGED <<cmd, ctx>>
      BY <2>0, <2>4 DEF Compress
    <3>2. pc \in Task \ {"dispatch"} /\ pc' \in Task \ {"dispatch"} /\ pc' \notin Exact
      BY <3>1 DEF Task, Exact
    <3> QED
      BY <3>1, <3>2, OnMeans
  <2>5. CASE OpenCompressed \/ write_compressed_to_disk
    <3>1. pc \in {"save", "save_data"} /\ pc' \in {"save_data", "load_compressed"} /\ UNCHANGED <<cmd, ctx>>
      BY <1>1, <2>5 DEF OpenCompressed, write_compressed_to_disk
    <3>2. pc \in Task \ {"dispatch"} /\ pc' \in Task \ {"dispatch"} /\ pc' \notin Exact
      BY <3>1 DEF Task, Exact
    <3> QED
      BY <3>1, <3>2, OnMeans
  <2>6. CASE load_compressed
    <3>1. pc = "load_compressed" /\ pc' = "decompress" /\ UNCHANGED <<cmd, ctx>>
      BY <2>0, <2>6 DEF load_compressed
    <3>2. pc \in Task \ {"dispatch"} /\ pc' \in Task \ {"dispatch"} /\ pc' \notin Exact
      BY <3>1 DEF Task, Exact
    <3> QED
      BY <3>1, <3>2, OnMeans
  <2>7. CASE Decompress \/ View \/ OpenDecompressed
    <3>1. pc \in {"decompress", "view", "store"} /\ pc' \in {"view", "store", "store_data"} /\ UNCHANGED <<cmd, ctx>>
      BY <2>0, <2>7 DEF Decompress, View, OpenDecompressed
    <3>2. pc \in Task \ {"dispatch"} /\ pc' \in Task \ {"dispatch"} /\ pc' \notin Exact
      BY <3>1 DEF Task, Exact
    <3> QED
      BY <3>1, <3>2, OnMeans
  <2> QED
    BY <2>1, <2>2, <2>3, <2>4, <2>5, <2>6, <2>7
<1> QED
  BY <1>0, <1>1

LEMMA MeansKept ==
  ASSUME TypeInv, MeansInv, [Next]_vars
  PROVE  MeansInv'
<1>1. CASE \E c \in Commands : Invoke(c)
  BY <1>1, InvokeMeans
<1>2. CASE \E c \in ApiCalls : CallApi(c)
  BY <1>2, CallApiMeans
<1>3. CASE Step
  BY <1>3, ParseFlagMeans, ParseValuedMeans, ParsePlaceholderMeans, ParseInvalidMeans, CheckMeans, DispatchMeans,
     AdjustMeans, RestMeans DEF Step
<1>4. CASE UNCHANGED vars
  BY <1>4 DEF vars, MeansInv
<1> QED
  BY <1>1, <1>2, <1>3, <1>4 DEF Next

-----------------------------------------------------------------------------
(* Where a process has come to tells what its options are and which files   *)
(* there may be.                                                            *)

PlaceOK(step, c) ==
  /\ step = "dispatch" => c.construct \/ c.reconstruct \/ c.dryrun
  /\ step \in {"load", "adjust", "compress", "save", "save_data"} => c.construct
  /\ step \in {"adjust", "compress", "save", "save_data"} => c.fname \in Names
  /\ step \in {"save", "save_data"} => Roomy(c.data_len)
  /\ step \in {"load_compressed", "decompress", "view", "store", "store_data"} => c.reconstruct
  /\ step \in {"decompress", "view", "store", "store_data"} => ToCusza(c.fname) \in Names
  /\ step \in {"store", "store_data"} => c.origin_cmp \in Names \cup {<<>>}
  /\ step = "store_data" => ~c.skip_write2disk
PlaceInv == DOMAIN disk \subseteq Names /\ (cmd.api # TRUE => PlaceOK(pc, ctx))

LEMMA PlaceElsewhere ==
  ASSUME NEW c, NEW step \in {"idle", "parse", "dryrun"}
  PROVE  PlaceOK(step, c)
BY DEF PlaceOK

LEMMA GonePlace ==
  ASSUME Gone, DOMAIN disk' \subseteq Names
  PROVE  PlaceInv'
BY PlaceElsewhere DEF Gone, PlaceInv

LEMMA DiePlace ==
  ASSUME PlaceInv, Die
  PROVE  PlaceInv'
BY GonePlace DEF Die, PlaceInv

(* What the options meant, where they have been read.                       *)
LEMMA MeansWell ==
  ASSUME TypeInv, MeansInv, pc \in Task \ {"dispatch"}, cmd.api # TRUE
  PROVE  \E k \in Commands : \E m \in Meant(k.argv) : /\ cmd.writes = k.writes /\ cmd.argv = k.argv
                                                    /\ Like(m, ctx) /\ (pc \in Exact => ctx["eb"] = m["eb"])
                                                    /\ Asks(k, m) /\ Stores(k, m)
<1>1. pc # "idle"
  BY DEF Task
<1>2. PICK k \in Commands : Runs(cmd, k) /\ Follows(k, pc, i, ctx)
  BY <1>1, RunsCommand
<1>3. PICK m \in Meant(k.argv) : Like(m, ctx) /\ (pc \in Exact => ctx["eb"] = m["eb"])
  BY <1>2 DEF Follows, Meaning
<1>4. m["predictor"] # "spline3"
  BY <1>2, <1>3, HasMembers DEF Follows, Like
<1>5. Asks(k, m) /\ Stores(k, m)
  BY <1>4, CommandsAssumption
<1> QED
  BY <1>2, <1>3, <1>5, RunsIs

LEMMA LikeIs ==
  ASSUME NEW m, NEW c, Like(m, c)
  PROVE  /\ m["construct"] = c["construct"] /\ m["reconstruct"] = c["reconstruct"] /\ m["data_len"] = c["data_len"]
         /\ m["fname"] = c["fname"] /\ m["skip_write2disk"] = c["skip_write2disk"] /\ m["origin_cmp"] = c["origin_cmp"]
         /\ m["x"] = c["x"] /\ m["y"] = c["y"] /\ m["z"] = c["z"] /\ m["mode"] = c["mode"]
BY HasMembers DEF Like

(* The archive a process is about to write is one its options call for, and *)
(* so is the result.                                                        *)
LEMMA SavesAsked ==
  ASSUME TypeInv, MeansInv, PlaceInv, pc \in {"save", "save_data"}
  PROVE  ToCusza(ctx.fname) \in cmd.writes \cup ReadOnly
<1>1. cmd.api # TRUE /\ pc \in Task \ {"dispatch"}
  BY DEF TypeInv, ApiOK, Task
<1>2. PICK k \in Commands : \E m \in Meant(k.argv) : cmd.writes = k.writes /\ Like(m, ctx) /\ Asks(k, m)
  BY <1>1, MeansWell
<1>3. PICK m \in Meant(k.argv) : cmd.writes = k.writes /\ Like(m, ctx) /\ Asks(k, m)
  BY <1>2
<1>4. m["construct"] = ctx["construct"] /\ m["data_len"] = ctx["data_len"] /\ m["fname"] = ctx["fname"]
  BY <1>3, LikeIs
<1>5. ctx.construct /\ Roomy(ctx.data_len) /\ ctx.fname \in Names
  BY <1>1 DEF PlaceInv, PlaceOK
<1>6. ToCusza(m.fname) \in k.writes \cup ReadOnly
  BY <1>3, <1>4, <1>5 DEF Asks
<1> QED
  BY <1>3, <1>4, <1>6

LEMMA StoresAsked ==
  ASSUME TypeInv, MeansInv, PlaceInv, pc \in {"store", "store_data"}, ~ctx.skip_write2disk
  PROVE  ToCuszx(ctx.fname) \in cmd.writes \cup ReadOnly
<1>1. cmd.api # TRUE /\ pc \in Task \ {"dispatch"}
  BY DEF TypeInv, ApiOK, Task
<1>2. PICK k \in Commands : \E m \in Meant(k.argv) : cmd.writes = k.writes /\ Like(m, ctx) /\ Stores(k, m)
  BY <1>1, MeansWell
<1>3. PICK m \in Meant(k.argv) : cmd.writes = k.writes /\ Like(m, ctx) /\ Stores(k, m)
  BY <1>2
<1>4. /\ m["reconstruct"] = ctx["reconstruct"] /\ m["fname"] = ctx["fname"]
      /\ m["skip_write2disk"] = ctx["skip_write2disk"] /\ m["origin_cmp"] = ctx["origin_cmp"]
  BY <1>3, LikeIs
<1>5. ctx.reconstruct /\ ToCusza(ctx.fname) \in Names /\ ctx.origin_cmp \in Names \cup {<<>>}
  BY <1>1 DEF PlaceInv, PlaceOK
<1>6. ToCuszx(m.fname) \in k.writes \cup ReadOnly
  BY <1>3, <1>4, <1>5 DEF Stores
<1> QED
  BY <1>3, <1>4, <1>6

LEMMA WritesNamed ==
  ASSUME TypeInv, MeansInv, pc \notin {"idle", "compress", "decompress", "view"}
  PROVE  cmd.writes \subseteq Names
<1>1. PICK k \in Commands : Runs(cmd, k)
  BY RunsCommand
<1>2. cmd.writes = k.writes
  BY <1>1, RunsIs
<1> QED
  BY <1>2 DEF Names

\* Of the files, only those asked for change.
Spares(names) == \A n \in DOMAIN disk' : (n \in DOMAIN disk /\ disk'[n] = disk[n]) \/ n \in names

LEMMA PutSpares ==
  ASSUME NEW name, NEW h, NEW names, name \in names, disk' = Put(name, h)
  PROVE  Spares(names) /\ DOMAIN disk' = DOMAIN disk \cup {name}
BY DEF Put, Spares

LEMMA OpenSpares ==
  ASSUME NEW name, NEW names, name \in names \cup ReadOnly, Open(name)
  PROVE  Spares(names) /\ DOMAIN disk' \subseteq DOMAIN disk \cup names
<1>1. CASE name \in ReadOnly
  BY <1>1 DEF Open, Spares
<1>2. CASE name \notin ReadOnly
  BY <1>2, PutSpares DEF Open
<1> QED
  BY <1>1, <1>2

LEMMA DataSpares ==
  ASSUME NEW name, NEW c, NEW names, name \in names \cup ReadOnly, Data(name, c)
  PROVE  Spares(names) /\ DOMAIN disk' \subseteq DOMAIN disk \cup names
<1>1. CASE name \in ReadOnly
  BY <1>1 DEF Data, Spares
<1>2. CASE name \notin ReadOnly
  BY <1>2, PutSpares DEF Data
<1> QED
  BY <1>1, <1>2

LEMMA StepSpares ==
  ASSUME TypeInv, MeansInv, PlaceInv, [Next]_vars
  PROVE  Spares(cmd.writes) /\ DOMAIN disk' \subseteq Names
<1>0. CASE disk' = disk
  BY <1>0 DEF Spares, PlaceInv
<1>1. CASE OpenCompressed
  <2>1. pc = "save" /\ Open(ToCusza(ctx.fname))
    BY <1>1 DEF OpenCompressed
  <2> QED
    BY <2>1, SavesAsked, OpenSpares, WritesNamed DEF PlaceInv
<1>2. CASE write_compressed_to_disk
  <2>1. pc = "save_data" /\ Data(ToCusza(ctx.fname), Archived)
    BY <1>2 DEF write_compressed_to_disk
  <2> QED
    BY <2>1, SavesAsked, DataSpares, WritesNamed DEF PlaceInv
<1>3. CASE OpenDecompressed
  <2>1. CASE Die
    BY <1>0, <2>1 DEF Die
  <2>2. CASE ~Die
    <3>1. pc = "store" /\ ~ctx.skip_write2disk /\ Open(ToCuszx(ctx.fname))
      BY <1>3, <2>2 DEF OpenDecompressed
    <3> QED
      BY <3>1, StoresAsked, OpenSpares, WritesNamed DEF PlaceInv
  <2> QED
    BY <2>1, <2>2
<1>4. CASE try_write_decompressed_to_disk
  <2>1. pc = "store_data" /\ Data(ToCuszx(ctx.fname), Restored)
    BY <1>4 DEF try_write_decompressed_to_disk
  <2>2. ~ctx.skip_write2disk
    BY <2>1 DEF PlaceInv, PlaceOK, TypeInv, ApiOK
  <2> QED
    BY <2>1, <2>2, StoresAsked, DataSpares, WritesNamed DEF PlaceInv
<1>5. CASE \E c \in Commands : Invoke(c)
  BY <1>0, <1>5 DEF Invoke
<1>6. CASE \E c \in ApiCalls : CallApi(c)
  <2>1. disk' = disk
    BY <1>6, Zenon DEF CallApi
  <2> QED
    BY <1>0, <2>1
<1>7. CASE \/ ParseFlag \/ ParseValued \/ ParsePlaceholder \/ ParseInvalid \/ PrintHelp \/ Check \/ Dispatch
            \/ load_uncompressed \/ Adjust \/ Compress \/ Decompress \/ View \/ Kill
  <2>1. disk' = disk
    BY <1>7 DEF ParseFlag, ParseValued, ParsePlaceholder, ParseInvalid, PrintHelp, Check, Dispatch, load_uncompressed,
       Adjust, Compress, Decompress, View, Kill, Die
  <2> QED
    BY <1>0, <2>1
<1>8. CASE Dryrun \/ load_compressed
  <2>1. disk' = disk
    BY <1>8, Zenon DEF Dryrun, load_compressed, Die
  <2> QED
    BY <1>0, <2>1
<1>9. CASE UNCHANGED vars
  BY <1>0, <1>9 DEF vars
<1> QED
  BY <1>1, <1>2, <1>3, <1>4, <1>5, <1>6, <1>7, <1>8, <1>9 DEF Next, Step

\* A step that does not touch the context, and goes to where less is known.
LEMMA StayPlace ==
  ASSUME PlaceInv, DOMAIN disk' \subseteq Names, UNCHANGED <<cmd, ctx>>, cmd.api # TRUE => PlaceOK(pc', ctx)
  PROVE  PlaceInv'
BY DEF PlaceInv

LEMMA ParsePlace ==
  ASSUME TypeInv, PlaceInv, pc = "parse", pc' = "parse", UNCHANGED <<cmd, disk>>
  PROVE  PlaceInv'
BY PlaceElsewhere DEF PlaceInv

LEMMA InvokePlace ==
  ASSUME PlaceInv, NEW k \in Commands, Invoke(k)
  PROVE  PlaceInv'
<1>1. pc' = "parse" /\ disk' = disk
  BY DEF Invoke
<1> QED
  BY <1>1, PlaceElsewhere DEF PlaceInv

LEMMA CallApiPlace ==
  ASSUME PlaceInv, NEW c \in ApiCalls, CallApi(c)
  PROVE  PlaceInv'
<1>1. PICK d \in ApiContext(c.len, c.eb) :
        IF d.thrown THEN UNCHANGED <<disk, pc, cmd, i, ctx, held, asked>>
        ELSE /\ ctx' = d /\ pc' = "compress" /\ held' = disk[c.from]
             /\ cmd' = [NoCmd EXCEPT !.api = TRUE]
             /\ asked' = asked \cup Asked(c.from, <<c.len.x, c.len.y, c.len.z>>, c.eb)
             /\ UNCHANGED <<disk, i>>
  BY DEF CallApi
<1>2. CASE d.thrown
  BY <1>1, <1>2 DEF PlaceInv
<1>3. CASE ~d.thrown
  <2>1. disk' = disk /\ cmd'.api = TRUE
    BY <1>1, <1>3 DEF NoCmd
  <2> QED
    BY <2>1 DEF PlaceInv
<1> QED
  BY <1>2, <1>3

(* What is left to do after the options: to compress, to decompress or to   *)
(* try.                                                                     *)
LEMMA SettledTasks ==
  ASSUME NEW c, IsCtx(c), c.construct \/ c.reconstruct \/ c.dryrun
  PROVE  LET d == Settled(c) IN d.construct \/ d.reconstruct \/ d.dryrun
<1> DEFINE a == IF c.predictor = "spline3" THEN [c EXCEPT !.anchor = TRUE] ELSE c
           b == DryrunOnly(a)
           d == derive_fnames(b)
<1>1. IsCtx(a) /\ a["construct"] = c["construct"] /\ a["reconstruct"] = c["reconstruct"] /\ a["dryrun"] = c["dryrun"]
  <2> DEFINE v == TRUE
             r == [c EXCEPT !.anchor = v]
  <2>1. a = IF c.predictor = "spline3" THEN r ELSE c
    OBVIOUS
  <2> HIDE DEF v, a
  <2>2. DOMAIN c = Members /\ IsCtx(r)
    BY DEF IsCtx
  <2>3. r["construct"] = c["construct"] /\ r["reconstruct"] = c["reconstruct"] /\ r["dryrun"] = c["dryrun"]
    BY <2>2, HasMembers
  <2> HIDE DEF r
  <2> QED
    BY <2>1, <2>2, <2>3
<1> HIDE DEF a
<1>2. a.construct \/ a.reconstruct \/ a.dryrun
  BY <1>1
<1>3. IsCtx(b) /\ (b.construct \/ b.reconstruct \/ b.dryrun)
  <2>1. CASE a.dryrun
    <3> DEFINE v == FALSE
               r == [a EXCEPT !.construct = v, !.reconstruct = v]
    <3>1. b = r
      BY <2>1 DEF DryrunOnly
    <3> HIDE DEF v, b
    <3>2. DOMAIN a = Members /\ IsCtx(r)
      BY <1>1 DEF IsCtx
    <3>3. r["dryrun"] = a["dryrun"]
      BY <3>2, HasMembers
    <3> HIDE DEF r
    <3> QED
      BY <2>1, <3>1, <3>2, <3>3
  <2>2. CASE ~a.dryrun
    <3>1. b = a
      BY <2>2 DEF DryrunOnly
    <3> QED
      BY <1>1, <1>2, <3>1
  <2> QED
    BY <2>1, <2>2
<1> HIDE DEF b
<1>4. Named(b, d)
  BY <1>3, DeriveNames
<1> HIDE DEF d
<1>5. d["construct"] = b["construct"] /\ d["reconstruct"] = b["reconstruct"] /\ d["dryrun"] = b["dryrun"]
  BY <1>4, HasMembers DEF Named
<1>6. d.construct \/ d.reconstruct \/ d.dryrun
  BY <1>3, <1>5
<1> QED
  BY <1>6 DEF Settled, a, b, d

LEMMA CheckPlace ==
  ASSUME TypeInv, PlaceInv, Check
  PROVE  PlaceInv'
<1>1. CASE Die
  BY <1>1, DiePlace
<1>2. CASE ~Die
  <2>1. /\ ~Rejected(cmd.argv, ctx) /\ ctx' = Settled(ctx) /\ pc' = "dispatch"
        /\ UNCHANGED <<disk, cmd, i, held, asked, count>>
    BY <1>2 DEF Check
  <2>2. ctx.construct \/ ctx.reconstruct \/ ctx.dryrun
    BY <2>1 DEF Rejected, Illegal
  <2>3. IsCtx(ctx)
    BY DEF TypeInv, CtxOK, Typed
  <2>4. ctx'.construct \/ ctx'.reconstruct \/ ctx'.dryrun
    BY <2>1, <2>2, <2>3, SettledTasks
  <2>5. PlaceOK("dispatch", ctx')
    BY <2>4 DEF PlaceOK
  <2> QED
    BY <2>1, <2>5 DEF PlaceInv
<1> QED
  BY <1>1, <1>2

LEMMA FirstTaskPlace ==
  ASSUME NEW c, c.construct \/ c.reconstruct
  PROVE  PlaceOK(FirstTask(c), c)
BY DEF FirstTask, PlaceOK

LEMMA DispatchPlace ==
  ASSUME TypeInv, PlaceInv, Dispatch
  PROVE  PlaceInv'
<1>1. CASE Die
  BY <1>1, DiePlace
<1>2. CASE ~Die
  <2>1. /\ pc = "dispatch" /\ pc' = IF ctx.dryrun THEN "dryrun" ELSE FirstTask(ctx)
        /\ UNCHANGED <<disk, cmd, i, ctx, held, asked, count>>
    BY <1>2 DEF Dispatch
  <2>2. cmd.api # TRUE => PlaceOK(pc', ctx)
    <3>1. CASE ctx.dryrun
      BY <2>1, <3>1, PlaceElsewhere
    <3>2. CASE ~ctx.dryrun
      BY <2>1, <3>2, FirstTaskPlace DEF PlaceInv, PlaceOK
    <3> QED
      BY <3>1, <3>2
  <2> QED
    BY <2>1, <2>2, StayPlace DEF PlaceInv
<1> QED
  BY <1>1, <1>2

LEMMA DryrunPlace ==
  ASSUME TypeInv, PlaceInv, Dryrun
  PROVE  PlaceInv'
<1>1. CASE Die
  BY <1>1, DiePlace
<1>2. CASE ~Die
  <2>1. (ctx.construct \/ ctx.reconstruct) /\ pc' = FirstTask(ctx) /\ UNCHANGED <<disk, cmd, i, ctx, held, asked, count>>
    BY <1>2, Zenon DEF Dryrun
  <2> QED
    BY <2>1, FirstTaskPlace, StayPlace DEF PlaceInv
<1> QED
  BY <1>1, <1>2

LEMMA load_uncompressedPlace ==
  ASSUME TypeInv, PlaceInv, load_uncompressed
  PROVE  PlaceInv'
<1> DEFINE input == Loaded(Room(ctx.data_len), ctx.fname)
<1>1. CASE Die
  BY <1>1, DiePlace
<1>2. CASE ~Die
  <2>1. pc = "load" /\ ~input.threw /\ pc' = "adjust" /\ UNCHANGED <<disk, cmd, i, ctx, asked, count>>
    BY <1>2 DEF load_uncompressed
  <2>2. input.threw # TRUE
    BY <2>1
  <2>3. ctx.fname \in Names
    BY <2>2, LoadedFile DEF TypeInv, PlaceInv
  <2>4. cmd.api # TRUE => PlaceOK(pc', ctx)
    BY <2>1, <2>3 DEF PlaceInv, PlaceOK
  <2> QED
    BY <2>1, <2>4, StayPlace DEF PlaceInv
<1> QED
  BY <1>1, <1>2

LEMMA AdjustPlace ==
  ASSUME TypeInv, PlaceInv, Adjust
  PROVE  PlaceInv'
<1>1. pc = "adjust" /\ ctx' = adjust_eb(ctx) /\ pc' = "compress" /\ UNCHANGED <<disk, cmd, i, held, asked, count>>
  BY DEF Adjust
<1>2. IsCtx(ctx)
  BY DEF TypeInv, CtxOK, Typed
<1>3. \A f \in Members \ {"eb"} : ctx'[f] = ctx[f]
  BY <1>1, <1>2 DEF adjust_eb, IsCtx
<1>4. ctx'["construct"] = ctx["construct"] /\ ctx'["fname"] = ctx["fname"]
  BY <1>3, HasMembers
<1> QED
  BY <1>1, <1>4 DEF PlaceInv, PlaceOK

LEMMA CompressPlace ==
  ASSUME TypeInv, PlaceInv, Compress
  PROVE  PlaceInv'
<1>1. CASE Die
  BY <1>1, DiePlace
<1>2. CASE ~Die
  <2>1. /\ pc = "compress" /\ (cmd.api \/ Roomy(ctx.data_len)) /\ pc' = IF cmd.api THEN "decompress" ELSE "save"
        /\ UNCHANGED <<disk, cmd, i, ctx, asked, count>>
    BY <1>2 DEF Compress
  <2>2. cmd.api # TRUE => PlaceOK(pc', ctx)
    BY <2>1 DEF PlaceInv, PlaceOK
  <2> QED
    BY <2>1, <2>2, StayPlace DEF PlaceInv
<1> QED
  BY <1>1, <1>2

LEMMA OpenCompressedPlace ==
  ASSUME TypeInv, MeansInv, PlaceInv, OpenCompressed
  PROVE  PlaceInv'
<1>1. pc = "save" /\ pc' = "save_data" /\ UNCHANGED <<cmd, i, ctx, held, asked, count>>
  BY DEF OpenCompressed
<1>2. DOMAIN disk' \subseteq Names
  BY StepSpares DEF Next, Step
<1>3. cmd.api # TRUE => PlaceOK(pc', ctx)
  BY <1>1 DEF PlaceInv, PlaceOK
<1> QED
  BY <1>1, <1>2, <1>3, StayPlace

LEMMA write_compressed_to_diskPlace ==
  ASSUME TypeInv, MeansInv, PlaceInv, write_compressed_to_disk
  PROVE  PlaceInv'
<1>1. DOMAIN disk' \subseteq Names
  BY StepSpares DEF Next, Step
<1>2. CASE Gone
  BY <1>1, <1>2, GonePlace
<1>3. CASE ~Gone
  <2>1. pc' = "load_compressed" /\ ctx.reconstruct /\ UNCHANGED <<cmd, i, ctx>>
    BY <1>3 DEF write_compressed_to_disk
  <2>2. cmd.api # TRUE => PlaceOK(pc', ctx)
    BY <2>1 DEF PlaceOK
  <2> QED
    BY <1>1, <2>1, <2>2, StayPlace
<1> QED
  BY <1>2, <1>3

LEMMA load_compressedPlace ==
  ASSUME TypeInv, PlaceInv, load_compressed
  PROVE  PlaceInv'
<1>1. pc = "load_compressed"
  BY DEF load_compressed
<1>2. CASE Die
  BY <1>2, DiePlace
<1>3. CASE ~Die
  <2>1. PICK len : LET compressed == Loaded(Room(len), ToCusza(ctx.fname)) IN
                     /\ ~compressed.threw
                     /\ pc' = "decompress" /\ UNCHANGED <<disk, cmd, i, ctx, asked, count>>
    BY <1>3 DEF load_compressed
  <2> DEFINE compressed == Loaded(Room(len), ToCusza(ctx.fname))
  <2>2. compressed.threw # TRUE
    BY <2>1
  <2>3. ToCusza(ctx.fname) \in Names
    BY <2>2, LoadedFile DEF TypeInv, PlaceInv
  <2>4. cmd.api # TRUE => PlaceOK(pc', ctx)
    BY <1>1, <2>1, <2>3 DEF PlaceInv, PlaceOK
  <2> QED
    BY <2>1, <2>4, StayPlace DEF PlaceInv
<1> QED
  BY <1>2, <1>3

LEMMA DecompressPlace ==
  ASSUME TypeInv, PlaceInv, Decompress
  PROVE  PlaceInv'
<1>1. CASE Die
  BY <1>1, DiePlace
<1>2. CASE ~Die
  <2>1. pc = "decompress" /\ pc' = "view" /\ UNCHANGED <<disk, cmd, i, ctx, asked, count>>
    BY <1>2 DEF Decompress
  <2>2. cmd.api # TRUE => PlaceOK(pc', ctx)
    BY <2>1 DEF PlaceInv, PlaceOK
  <2> QED
    BY <2>1, <2>2, StayPlace DEF PlaceInv
<1> QED
  BY <1>1, <1>2

LEMMA ViewPlace ==
  ASSUME TypeInv, PlaceInv, View
  PROVE  PlaceInv'
<1>1. CASE Die
  BY <1>1, DiePlace
<1>2. CASE ~Die
  <2>1. /\ pc = "view" /\ pc' = "store" /\ UNCHANGED <<disk, cmd, i, ctx, held, asked, count>>
        /\ ~(ctx.origin_cmp # <<>> /\ Cap!free(Loaded(Room(1), ctx.origin_cmp), Cap!HOST_DEVICE).threw)
    BY <1>2 DEF View
  <2>2. ctx.origin_cmp \in Names \cup {<<>>}
    <3>1. CASE ctx.origin_cmp = <<>>
      BY <3>1
    <3>2. CASE ctx.origin_cmp # <<>>
      <4>1. Cap!free(Loaded(Room(1), ctx.origin_cmp), Cap!HOST_DEVICE).threw # TRUE
        BY <2>1, <3>2
      <4>2. Loaded(Room(1), ctx.origin_cmp).threw # TRUE
        BY <4>1, FreedIs
      <4> QED
        BY <4>2, LoadedFile DEF TypeInv, PlaceInv
    <3> QED
      BY <3>1, <3>2
  <2>3. cmd.api # TRUE => PlaceOK(pc', ctx)
    BY <2>1, <2>2 DEF PlaceInv, PlaceOK
  <2> QED
    BY <2>1, <2>3, StayPlace DEF PlaceInv
<1> QED
  BY <1>1, <1>2

LEMMA OpenDecompressedPlace ==
  ASSUME TypeInv, MeansInv, PlaceInv, OpenDecompressed
  PROVE  PlaceInv'
<1>1. CASE Die
  BY <1>1, DiePlace
<1>2. CASE ~Die
  <2>1. pc = "store" /\ ~ctx.skip_write2disk /\ pc' = "store_data" /\ UNCHANGED <<cmd, i, ctx, held, asked, count>>
    BY <1>2 DEF OpenDecompressed
  <2>2. DOMAIN disk' \subseteq Names
    BY StepSpares DEF Next, Step
  <2>3. cmd.api # TRUE => PlaceOK(pc', ctx)
    BY <2>1 DEF PlaceInv, PlaceOK
  <2> QED
    BY <2>1, <2>2, <2>3, StayPlace
<1> QED
  BY <1>1, <1>2

LEMMA try_write_decompressed_to_diskPlace ==
  ASSUME TypeInv, MeansInv, PlaceInv, try_write_decompressed_to_disk
  PROVE  PlaceInv'
<1>1. DOMAIN disk' \subseteq Names
  BY StepSpares DEF Next, Step
<1>2. Gone
  BY DEF try_write_decompressed_to_disk
<1> QED
  BY <1>1, <1>2, GonePlace

LEMMA ParsingPlace ==
  ASSUME TypeInv, PlaceInv,
         ParseFlag \/ ParseValued \/ ParsePlaceholder \/ ParseInvalid \/ PrintHelp \/ Kill
  PROVE  PlaceInv'
<1>1. CASE Die
  BY <1>1, DiePlace
<1>2. CASE ~Die
  <2>1. CASE ParseFlag \/ ParseInvalid \/ PrintHelp \/ Kill
    BY <1>2, <2>1, ParsePlace DEF ParseFlag, ParseInvalid, Parsing, PrintHelp, Kill
  <2>2. CASE ParsePlaceholder
    BY <1>2, <2>2, ParsePlace DEF ParsePlaceholder, Parsing
  <2>3. CASE ParseValued
    <3>1. pc = "parse" /\ UNCHANGED <<disk, pc, cmd>>
      BY <1>2, <2>3 DEF ParseValued, Parsing
    <3> QED
      BY <3>1, ParsePlace
  <2> QED
    BY <2>1, <2>2, <2>3
<1> QED
  BY <1>1, <1>2

LEMMA PlaceKept ==
  ASSUME TypeInv, MeansInv, PlaceInv, [Next]_vars
  PROVE  PlaceInv'
<1>1. CASE \E c \in Commands : Invoke(c)
  BY <1>1, InvokePlace
<1>2. CASE \E c \in ApiCalls : CallApi(c)
  BY <1>2, CallApiPlace
<1>3. CASE Step
  BY <1>3, ParsingPlace, CheckPlace, DispatchPlace, DryrunPlace, load_uncompressedPlace, AdjustPlace, CompressPlace,
     OpenCompressedPlace, write_compressed_to_diskPlace, load_compressedPlace, DecompressPlace, ViewPlace,
     OpenDecompressedPlace, try_write_decompressed_to_diskPlace DEF Step
<1>4. CASE UNCHANGED vars
  BY <1>4 DEF vars, PlaceInv
<1> QED
  BY <1>1, <1>2, <1>3, <1>4 DEF Next

\* The three parts of what relates a process to its command.
CommandInv == TypeInv /\ MeansInv /\ PlaceInv

(* Wherever a process has come to, its context is what its options mean and *)
(* its task is one they call for.                                           *)
THEOREM CommandInvariant == Spec => []CommandInv
<1>1. Init => CommandInv
  <2>1. SUFFICES ASSUME Init PROVE CommandInv
    OBVIOUS
  <2>2. TypeInv
    BY <2>1, InitTyped
  <2>3. MeansInv
    BY <2>1 DEF Init, MeansInv, MeansOK
  <2>4. PlaceInv
    BY <2>1, PlaceElsewhere DEF Init, PlaceInv, Names
  <2> QED
    BY <2>2, <2>3, <2>4 DEF CommandInv
<1>2. CommandInv /\ [Next]_vars => CommandInv'
  BY TypeInvKept, MeansKept, PlaceKept DEF CommandInv
<1> QED
  BY <1>1, <1>2, PTL DEF Spec

(* No command changes a file that its options do not call for: whatever the *)
(* order of options, failures and kills, and whatever is on disk before.    *)
THEOREM OnlyAskedWritten == Spec => WritesOnlyAsked
<1>1. CommandInv /\ [Next]_vars => Spares(cmd.writes)
  BY StepSpares DEF CommandInv
<1>2. Spares(cmd.writes) => \A n \in DOMAIN disk' : (n \in DOMAIN disk /\ disk'[n] = disk[n]) \/ n \in cmd.writes
  BY DEF Spares
<1>3. CommandInv /\ [Next]_vars =>
        [\A n \in DOMAIN disk' : (n \in DOMAIN disk /\ disk'[n] = disk[n]) \/ n \in cmd.writes]_vars
  BY <1>1, <1>2
<1> QED
  BY <1>3, CommandInvariant, PTL DEF Spec, WritesOnlyAsked

-----------------------------------------------------------------------------
(* Every archive and every result goes back to a compression asked for.     *)

Fits(of, ext, err, q) == of = q.of /\ ext = q.ext /\ err = q.bound
FileOK(n, h, reqs) ==
  /\ h.kind = "archive" /\ ~h.damaged =>
       \E q \in reqs : q.name \in Seq(STRING) /\ n = ToCusza(q.name) /\ Fits(h.of, h.ext, h.eb, q)
  /\ h.kind = "result" => \E q \in reqs : n = ToCuszx(q.name) /\ Fits(h.of, h.ext, h.err, q)
FilesOK(files, reqs) == \A n \in DOMAIN files : FileOK(n, files[n], reqs)

\* A request of the process itself: a program that uses the API asks by no name.
Of(name, command, q) == command.api = TRUE \/ q.name = name
HeldOf(h, name, command, reqs) ==
  /\ h.kind = "archive" /\ ~h.damaged => \E q \in reqs : Of(name, command, q) /\ Fits(h.of, h.ext, h.eb, q)
  /\ h.kind = "result" => \E q \in reqs : Of(name, command, q) /\ Fits(h.of, h.ext, h.err, q)
HeldAny(h, reqs) == h.kind = "result" => \E q \in reqs : Fits(h.of, h.ext, h.err, q)

Sizable(command, c) == (command.api = TRUE \/ Roomy(c["data_len"])) /\ c["x"] * c["y"] * c["z"] = c["data_len"]
Claim(command, c, h, reqs) ==
  \E q \in reqs : Of(c["fname"], command, q) /\ Fits(h, <<c["x"], c["y"], c["z"]>>, c["eb"], q)
OwnOK(step, command, c, h, reqs) ==
  /\ step \in {"save", "save_data", "decompress", "view", "store", "store_data"} => HeldOf(h, c["fname"], command, reqs)
  /\ step = "compress" /\ Sizable(command, c) => Claim(command, c, h, reqs)

Bound(q) == IF q.rel /\ q.from \in DOMAIN disk THEN q.eb * Spread(disk[q.from]) ELSE q.eb
AskedFor(k) == \A q \in k.asks : Asked(q.from, q.ext, Bound(q)) \subseteq asked
Early == {"parse"} \cup Exact
StartOK ==
  /\ pc \in Early => \E k \in Commands : Runs(cmd, k) /\ AskedFor(k)
  /\ pc = "adjust" => ctx["fname"] \in DOMAIN disk /\ held = disk[ctx["fname"]]

FaithInv == FilesOK(disk, asked) /\ HeldAny(held, asked) /\ OwnOK(pc, cmd, ctx, held, asked) /\ StartOK

LEMMA FilesGrow ==
  ASSUME NEW files, NEW reqs, NEW more, reqs \subseteq more, FilesOK(files, reqs)
  PROVE  FilesOK(files, more)
BY DEF FilesOK, FileOK

LEMMA PutFaith ==
  ASSUME NEW reqs, FilesOK(disk, reqs), NEW name, NEW h, FileOK(name, h, reqs)
  PROVE  FilesOK(Put(name, h), reqs)
<1> DEFINE f == Put(name, h)
<1>1. DOMAIN f = DOMAIN disk \cup {name} /\ \A n \in DOMAIN f : f[n] = IF n = name THEN h ELSE disk[n]
  BY DEF Put
<1> HIDE DEF f
<1>2. ASSUME NEW n \in DOMAIN f PROVE FileOK(n, f[n], reqs)
  <2>1. CASE n = name
    BY <1>1, <2>1
  <2>2. CASE n # name
    BY <1>1, <2>2 DEF FilesOK
  <2> QED
    BY <2>1, <2>2
<1>3. FilesOK(f, reqs)
  BY <1>2 DEF FilesOK
<1> QED
  BY <1>3 DEF f

LEMMA OpenFaith ==
  ASSUME NEW name, FilesOK(disk, asked), Open(name)
  PROVE  FilesOK(disk', asked)
<1>1. FileOK(name, Cut, asked)
  <2>1. Cut.kind = "cut"
    BY DEF Cut
  <2> QED
    BY <2>1 DEF FileOK
<1> QED
  BY <1>1, PutFaith DEF Open

(* Two names of which the archives' names are the same are the same.        *)
LEMMA SameName ==
  ASSUME NEW s \in Seq(STRING), NEW t \in Seq(STRING), ToCusza(s) = ToCusza(t)
  PROVE  s = t
<1> DEFINE u == <<".", "cusza">>
           W == STRING \cup {".", "cusza"}
<1>1. u \in Seq(W) /\ Len(u) = 2
  OBVIOUS
<1>2. s \o u = t \o u
  BY DEF ToCusza
<1>3. s \in Seq(W) /\ t \in Seq(W)
  <2>1. STRING \subseteq W
    OBVIOUS
  <2> QED
    BY <2>1, SeqMonotonic
<1> HIDE DEF u, W
<1>4. Len(s) \in Nat /\ Len(t) \in Nat
  BY <1>3, LenProperties
<1>5. Len(s \o u) = Len(s) + Len(u) /\ Len(t \o u) = Len(t) + Len(u)
  BY <1>1, <1>3, ConcatProperties
<1>6. Len(s) = Len(t)
  BY <1>1, <1>2, <1>4, <1>5
<1>7. ASSUME NEW k \in 1 .. Len(s) PROVE s[k] = t[k]
  <2>1. k \in 1 .. Len(s) + Len(u) /\ k \in 1 .. Len(t) + Len(u) /\ k <= Len(s) /\ k <= Len(t)
    BY <1>1, <1>4, <1>6
  <2>2. (s \o u)[k] = s[k]
    BY <1>1, <1>3, <2>1, ConcatProperties
  <2>3. (t \o u)[k] = t[k]
    BY <1>1, <1>3, <2>1, ConcatProperties
  <2> QED
    BY <1>2, <2>2, <2>3
<1> QED
  BY <1>3, <1>6, <1>7, SeqEqual

LEMMA GoneFaith ==
  ASSUME Gone, asked' = asked, FilesOK(disk', asked)
  PROVE  FaithInv'
<1>1. pc' = "idle" /\ held' = Nothing
  BY DEF Gone
<1>2. Nothing.kind = "nothing"
  BY DEF Nothing, Cap!NoFile
<1>3. HeldAny(held', asked')
  BY <1>1, <1>2 DEF HeldAny
<1>4. OwnOK(pc', cmd', ctx', held', asked')
  BY <1>1 DEF OwnOK
<1>5. StartOK'
  BY <1>1 DEF StartOK, Early, Exact
<1> QED
  BY <1>3, <1>4, <1>5 DEF FaithInv

LEMMA DieFaith ==
  ASSUME FaithInv, Die
  PROVE  FaithInv'
BY GoneFaith DEF Die, FaithInv

\* The requests that a command makes.
Requests(k) == UNION {Asked(q.from, q.ext, Bound(q)) : q \in k.asks}

LEMMA InvokeFaith ==
  ASSUME FaithInv, NEW k \in Commands, Invoke(k)
  PROVE  FaithInv'
<1>1. pc' = "parse" /\ Runs(cmd', k) /\ disk' = disk /\ held' = held
  BY DEF Invoke, Runs
<1>2. asked' = asked \cup Requests(k)
  BY DEF Invoke, Requests, Bound
<1>3. FilesOK(disk', asked')
  BY <1>1, <1>2, FilesGrow DEF FaithInv
<1>4. HeldAny(held', asked')
  BY <1>1, <1>2 DEF FaithInv, HeldAny
<1>5. AskedFor(k)'
  <2>1. \A q \in k.asks : Asked(q.from, q.ext, Bound(q)) \subseteq Requests(k)
    BY DEF Requests
  <2>2. \A q \in k.asks : Asked(q.from, q.ext, Bound(q))' = Asked(q.from, q.ext, Bound(q))
    BY <1>1 DEF Asked, Bound
  <2> QED
    BY <1>2, <2>1, <2>2 DEF AskedFor
<1>6. OwnOK(pc', cmd', ctx', held', asked')
  BY <1>1 DEF OwnOK
<1>7. StartOK'
  BY <1>1, <1>5 DEF StartOK
<1> QED
  BY <1>3, <1>4, <1>6, <1>7 DEF FaithInv

(* While nothing is written, what has been asked for stays what the command *)
(* asks for.                                                                *)
LEMMA StartKept ==
  ASSUME StartOK, pc \in Early, UNCHANGED <<disk, cmd, asked>>
  PROVE  \E k \in Commands : Runs(cmd', k) /\ AskedFor(k)'
<1>1. PICK k \in Commands : Runs(cmd, k) /\ AskedFor(k)
  BY DEF StartOK
<1>2. AskedFor(k)'
  BY <1>1 DEF AskedFor, Asked, Bound
<1> QED
  BY <1>1, <1>2

LEMMA EarlyFaith ==
  ASSUME FaithInv, pc \in Early, pc' \in {"parse", "dispatch", "dryrun", "load", "load_compressed"},
         UNCHANGED <<disk, cmd, held, asked>>
  PROVE  FaithInv'
<1>1. StartOK'
  BY StartKept DEF StartOK, FaithInv
<1>2. OwnOK(pc', cmd', ctx', held', asked')
  BY DEF OwnOK
<1>3. FilesOK(disk', asked') /\ HeldAny(held', asked')
  BY DEF FaithInv
<1> QED
  BY <1>1, <1>2, <1>3 DEF FaithInv

LEMMA EarlyActionFaith ==
  ASSUME FaithInv,
         \/ ParseFlag \/ ParseValued \/ ParsePlaceholder \/ ParseInvalid \/ PrintHelp \/ Check
         \/ Dispatch \/ Dryrun \/ Kill
  PROVE  FaithInv'
<1>1. CASE Die
  BY <1>1, DieFaith
<1>2. CASE ~Die
  <2>1. /\ pc \in {"parse", "dispatch", "dryrun"} /\ pc' \in {"parse", "dispatch", "dryrun", "load", "load_compressed"}
        /\ UNCHANGED <<disk, cmd, held, asked>>
    <3>1. CASE ParseFlag \/ ParseInvalid \/ PrintHelp \/ Check \/ Kill \/ Dispatch
      BY <1>2, <3>1 DEF ParseFlag, ParseInvalid, Parsing, PrintHelp, Check, Kill, Dispatch, FirstTask
    <3>2. CASE ParsePlaceholder
      BY <1>2, <3>2 DEF ParsePlaceholder, Parsing
    <3>3. CASE ParseValued
      BY <1>2, <3>3 DEF ParseValued, Parsing
    <3>4. CASE Dryrun
      BY <1>2, <3>4, Zenon DEF Dryrun, FirstTask
    <3> QED
      BY <3>1, <3>2, <3>3, <3>4
  <2>2. pc \in Early
    BY <2>1 DEF Early, Exact
  <2> QED
    BY <2>1, <2>2, EarlyFaith
<1> QED
  BY <1>1, <1>2

LEMMA FileHeld ==
  ASSUME FilesOK(disk, asked), NEW n \in DOMAIN disk
  PROVE  HeldAny(disk[n], asked)
BY DEF FilesOK, FileOK, HeldAny

LEMMA load_uncompressedFaith ==
  ASSUME TypeInv, FaithInv, load_uncompressed
  PROVE  FaithInv'
<1> DEFINE input == Loaded(Room(ctx.data_len), ctx.fname)
<1>1. CASE Die
  BY <1>1, DieFaith
<1>2. CASE ~Die
  <2>1. pc = "load" /\ ~input.threw /\ held' = Cap!dptr(input) /\ pc' = "adjust" /\ UNCHANGED <<disk, cmd, i, ctx, asked, count>>
    BY <1>2 DEF load_uncompressed
  <2>2. input.threw # TRUE
    BY <2>1
  <2>3. ctx["fname"] \in DOMAIN disk /\ held' = disk[ctx["fname"]]
    BY <2>1, <2>2, LoadedFile DEF TypeInv
  <2>4. HeldAny(held', asked')
    BY <2>1, <2>3, FileHeld DEF FaithInv
  <2>5. OwnOK(pc', cmd', ctx', held', asked')
    BY <2>1 DEF OwnOK
  <2>6. StartOK'
    <3>1. pc \in Early
      BY <2>1 DEF Early, Exact
    <3> QED
      BY <2>1, <2>3, <3>1, StartKept DEF StartOK, FaithInv
  <2>7. FilesOK(disk', asked')
    BY <2>1 DEF FaithInv
  <2> QED
    BY <2>4, <2>5, <2>6, <2>7 DEF FaithInv
<1> QED
  BY <1>1, <1>2

LEMMA MeansAny ==
  ASSUME TypeInv, MeansInv, pc \in Task \ {"dispatch"}, NEW k \in Commands, Runs(cmd, k)
  PROVE  \E m \in Meant(k.argv) : Like(m, ctx) /\ (pc \in Exact => ctx["eb"] = m["eb"]) /\ Asks(k, m)
<1>1. cmd.argv = k.argv /\ cmd.api # TRUE /\ pc # "idle"
  BY RunsIs DEF Task
<1>2. PICK l \in Commands : Runs(cmd, l) /\ Follows(l, pc, i, ctx)
  BY <1>1, RunsCommand
<1>3. l.argv = k.argv
  BY <1>1, <1>2, RunsIs
<1>4. PICK m \in Meant(k.argv) : Like(m, ctx) /\ (pc \in Exact => ctx["eb"] = m["eb"])
  BY <1>2, <1>3 DEF Follows, Meaning
<1>5. m["predictor"] # "spline3"
  BY <1>2, <1>4, HasMembers DEF Follows, Like
<1>6. Asks(k, m)
  BY <1>5, CommandsAssumption
<1> QED
  BY <1>4, <1>6

(* The field that has been loaded is the one a compression was asked for,   *)
(* in the extents of the context and, once it is adjusted, within its bound.*)
LEMMA AdjustClaims ==
  ASSUME TypeInv, MeansInv, PlaceInv, FaithInv, Adjust, Sizable(cmd', ctx')
  PROVE  Claim(cmd', ctx', held', asked')
<1>1. pc = "adjust" /\ ctx' = adjust_eb(ctx) /\ pc' = "compress" /\ UNCHANGED <<disk, cmd, i, held, asked, count>>
  BY DEF Adjust
<1>2. cmd.api # TRUE
  BY <1>1 DEF TypeInv, ApiOK
<1>3. PICK k \in Commands : Runs(cmd, k) /\ AskedFor(k)
  BY <1>1 DEF FaithInv, StartOK, Early, Exact
<1>4. pc \in Task \ {"dispatch"} /\ pc \in Exact
  BY <1>1 DEF Task, Exact
<1>5. PICK m \in Meant(k.argv) : Like(m, ctx) /\ ctx["eb"] = m["eb"] /\ Asks(k, m)
  BY <1>3, <1>4, MeansAny
<1>6. ctx["fname"] \in DOMAIN disk /\ held = disk[ctx["fname"]]
  BY <1>1 DEF FaithInv, StartOK
<1>7. IsCtx(ctx)
  BY DEF TypeInv, CtxOK, Typed
<1>8. \A f \in Members \ {"eb"} : ctx'[f] = ctx[f]
  BY <1>1, <1>7 DEF adjust_eb, IsCtx
<1>9. /\ m["construct"] = ctx["construct"] /\ m["data_len"] = ctx["data_len"] /\ m["fname"] = ctx["fname"]
      /\ m["x"] = ctx["x"] /\ m["y"] = ctx["y"] /\ m["z"] = ctx["z"] /\ m["mode"] = ctx["mode"]
  BY <1>5, LikeIs
<1>10. /\ ctx'["data_len"] = ctx["data_len"] /\ ctx'["fname"] = ctx["fname"]
       /\ ctx'["x"] = ctx["x"] /\ ctx'["y"] = ctx["y"] /\ ctx'["z"] = ctx["z"]
  BY <1>8, HasMembers
<1>11. ctx'["eb"] = IF ctx["mode"] = "r2r" THEN ctx["eb"] * Spread(held) ELSE ctx["eb"]
  BY <1>1, <1>7, HasMembers DEF adjust_eb, IsCtx
<1>12. Roomy(m["data_len"]) /\ m["x"] * m["y"] * m["z"] = m["data_len"]
  BY <1>1, <1>2, <1>9, <1>10 DEF Sizable
<1>13. m.construct /\ m.fname \in Names
  BY <1>1, <1>2, <1>9 DEF PlaceInv, PlaceOK
<1> DEFINE ext == <<m.x, m.y, m.z>>
           rel == m.mode = "r2r"
           r == [from |-> m.fname, ext |-> ext, eb |-> m.eb, rel |-> rel]
<1>14. r \in k.asks
  BY <1>5, <1>12, <1>13 DEF Asks
<1> HIDE DEF ext, rel
<1>15. r.from = m["fname"] /\ r.ext = ext /\ r.eb = m["eb"] /\ r.rel = rel
  OBVIOUS
<1> HIDE DEF r
<1>16. Bound(r) = ctx'["eb"]
  <2>1. r.from \in DOMAIN disk /\ disk[r.from] = held
    BY <1>6, <1>9, <1>15
  <2>2. r.rel <=> ctx["mode"] = "r2r"
    BY <1>9, <1>15 DEF rel
  <2> QED
    BY <1>5, <1>11, <1>15, <2>1, <2>2 DEF Bound
<1> DEFINE q == [name |-> r.from, of |-> disk[r.from], ext |-> r.ext, bound |-> Bound(r)]
<1>17. q \in asked
  <2>1. Asked(r.from, r.ext, Bound(r)) \subseteq asked
    BY <1>3, <1>14 DEF AskedFor
  <2>2. r.from \in DOMAIN disk
    BY <1>6, <1>9, <1>15
  <2> QED
    BY <2>1, <2>2 DEF Asked
<1>18. q.name = r.from /\ q.of = disk[r.from] /\ q.ext = r.ext /\ q.bound = Bound(r)
  OBVIOUS
<1> HIDE DEF q
<1>19. q.name = ctx'["fname"] /\ q.of = held' /\ q.bound = ctx'["eb"]
  BY <1>1, <1>6, <1>9, <1>10, <1>15, <1>16, <1>18
<1>20. q.ext = <<ctx'["x"], ctx'["y"], ctx'["z"]>>
  BY <1>9, <1>10, <1>15, <1>18 DEF ext
<1>21. q \in asked'
  BY <1>1, <1>17
<1> QED
  BY <1>19, <1>20, <1>21 DEF Claim, Of, Fits

LEMMA AdjustFaith ==
  ASSUME TypeInv, MeansInv, PlaceInv, FaithInv, Adjust
  PROVE  FaithInv'
<1>1. pc' = "compress" /\ UNCHANGED <<disk, cmd, i, held, asked, count>>
  BY DEF Adjust
<1>2. OwnOK(pc', cmd', ctx', held', asked')
  BY <1>1, AdjustClaims DEF OwnOK
<1>3. StartOK'
  BY <1>1 DEF StartOK, Early, Exact
<1>4. FilesOK(disk', asked') /\ HeldAny(held', asked')
  BY <1>1 DEF FaithInv
<1> QED
  BY <1>2, <1>3, <1>4 DEF FaithInv

LEMMA OwnHeld ==
  ASSUME FaithInv, pc \in {"save", "save_data", "decompress", "view", "store", "store_data"}
  PROVE  HeldOf(held, ctx["fname"], cmd, asked)
BY DEF FaithInv, OwnOK

LEMMA HeldOfAny ==
  ASSUME NEW h, NEW name, NEW reqs, HeldOf(h, name, cmd, reqs)
  PROVE  HeldAny(h, reqs)
BY DEF HeldOf, HeldAny

\* The process goes on with what is its own.
LEMMA OwnFaith ==
  ASSUME FilesOK(disk', asked), UNCHANGED <<cmd, ctx, asked>>, HeldOf(held', ctx["fname"], cmd, asked),
         pc' \in {"save", "save_data", "decompress", "view", "store", "store_data"}
  PROVE  FaithInv'
<1>1. HeldAny(held', asked')
  BY HeldOfAny
<1>2. OwnOK(pc', cmd', ctx', held', asked')
  BY DEF OwnOK
<1>3. StartOK'
  BY DEF StartOK, Early, Exact
<1> QED
  BY <1>1, <1>2, <1>3 DEF FaithInv

LEMMA CompressFaith ==
  ASSUME TypeInv, FaithInv, Compress
  PROVE  FaithInv'
<1>1. CASE Die
  BY <1>1, DieFaith
<1>2. CASE ~Die
  <2>1. /\ pc = "compress" /\ (cmd.api \/ Roomy(ctx.data_len)) /\ pc' \in {"decompress", "save"}
        /\ UNCHANGED <<disk, cmd, i, ctx, asked, count>>
    BY <1>2 DEF Compress
  <2>2. PICK a : held' = Compressed(a)
    BY <1>2 DEF Compress
  <2>3. /\ held'.kind = "archive" /\ held'.of = held /\ held'.ext = <<ctx.x, ctx.y, ctx.z>> /\ held'.eb = ctx.eb
        /\ held'.damaged = Undefined(a)
    BY <2>2 DEF Compressed
  <2>4. ASSUME ~held'.damaged
        PROVE  \E q \in asked : Of(ctx["fname"], cmd, q) /\ Fits(held'.of, held'.ext, held'.eb, q)
    <3>1. ctx.x * ctx.y * ctx.z = ctx.data_len
      BY <2>3, <2>4 DEF Undefined
    <3>2. Sizable(cmd, ctx)
      BY <2>1, <3>1 DEF Sizable
    <3>3. Claim(cmd, ctx, held, asked)
      BY <2>1, <3>2 DEF FaithInv, OwnOK
    <3> QED
      BY <2>3, <3>3 DEF Claim
  <2>5. HeldOf(held', ctx["fname"], cmd, asked)
    BY <2>3, <2>4 DEF HeldOf
  <2>6. FilesOK(disk', asked)
    BY <2>1 DEF FaithInv
  <2> QED
    BY <2>1, <2>5, <2>6, OwnFaith
<1> QED
  BY <1>1, <1>2

LEMMA OpenCompressedFaith ==
  ASSUME TypeInv, FaithInv, OpenCompressed
  PROVE  FaithInv'
<1>1. pc = "save" /\ Open(ToCusza(ctx.fname)) /\ pc' = "save_data" /\ UNCHANGED <<cmd, i, ctx, held, asked, count>>
  BY DEF OpenCompressed
<1>2. FilesOK(disk', asked)
  BY <1>1, OpenFaith DEF FaithInv
<1>3. HeldOf(held', ctx["fname"], cmd, asked)
  BY <1>1, OwnHeld
<1> QED
  BY <1>1, <1>2, <1>3, OwnFaith

(* What a process holds may go to the file that is named after its own.     *)
LEMMA ArchiveFile ==
  ASSUME TypeInv, FaithInv, pc = "save_data"
  PROVE  FileOK(ToCusza(ctx["fname"]), held, asked)
<1>1. cmd.api # TRUE /\ held.kind = "archive" /\ ctx["fname"] \in Seq(STRING)
  BY DEF TypeInv, ApiOK, AtOK, CtxOK, Typed
<1>2. HeldOf(held, ctx["fname"], cmd, asked)
  BY OwnHeld
<1> QED
  BY <1>1, <1>2 DEF HeldOf, Of, FileOK

LEMMA ResultFile ==
  ASSUME TypeInv, FaithInv, pc = "store_data"
  PROVE  FileOK(ToCuszx(ctx["fname"]), held, asked)
<1>1. cmd.api # TRUE /\ held.kind \in {"result", "garbage"}
  BY DEF TypeInv, ApiOK, AtOK
<1>2. HeldOf(held, ctx["fname"], cmd, asked)
  BY OwnHeld
<1> QED
  BY <1>1, <1>2 DEF HeldOf, Of, FileOK

LEMMA write_compressed_to_diskFaith ==
  ASSUME TypeInv, FaithInv, write_compressed_to_disk
  PROVE  FaithInv'
<1>1. pc = "save_data" /\ Data(ToCusza(ctx.fname), Archived) /\ asked' = asked
  BY DEF write_compressed_to_disk
<1>2. held.kind \in Kinds
  BY <1>1 DEF TypeInv, AtOK, Kinds
<1>3. FilesOK(disk', asked)
  BY <1>1, <1>2, DataPuts, PutFaith, ArchiveFile DEF FaithInv
<1>4. CASE Gone
  BY <1>1, <1>3, <1>4, GoneFaith
<1>5. CASE ~Gone
  <2>1. pc' = "load_compressed" /\ held' = Nothing
    BY <1>5 DEF write_compressed_to_disk
  <2>2. Nothing.kind = "nothing"
    BY DEF Nothing, Cap!NoFile
  <2>3. HeldAny(held', asked')
    BY <2>1, <2>2 DEF HeldAny
  <2>4. OwnOK(pc', cmd', ctx', held', asked')
    BY <2>1 DEF OwnOK
  <2>5. StartOK'
    BY <2>1 DEF StartOK, Early, Exact
  <2> QED
    BY <1>1, <1>3, <2>3, <2>4, <2>5 DEF FaithInv
<1> QED
  BY <1>4, <1>5

LEMMA load_compressedFaith ==
  ASSUME TypeInv, FaithInv, load_compressed
  PROVE  FaithInv'
<1>1. pc = "load_compressed"
  BY DEF load_compressed
<1>2. CASE Die
  BY <1>2, DieFaith
<1>3. CASE ~Die
  <2>1. PICK len : LET compressed == Loaded(Room(len), ToCusza(ctx.fname)) IN
                     /\ ~compressed.threw
                     /\ held' = IF Cap!hptr(compressed).kind = "archive" THEN Cap!dptr(compressed) ELSE Garbage
                     /\ pc' = "decompress" /\ UNCHANGED <<disk, cmd, i, ctx, asked, count>>
    BY <1>3 DEF load_compressed
  <2> DEFINE compressed == Loaded(Room(len), ToCusza(ctx.fname))
             name == ToCusza(ctx.fname)
  <2>2. compressed.threw # TRUE
    BY <2>1
  <2>3. name \in DOMAIN disk /\ Cap!dptr(compressed) = disk[name] /\ Cap!hptr(compressed) = disk[name]
    BY <2>2, LoadedFile DEF TypeInv
  <2>4. held' = IF disk[name].kind = "archive" THEN disk[name] ELSE Garbage
    BY <2>1, <2>3
  <2>5. FileOK(name, disk[name], asked)
    BY <2>3 DEF FaithInv, FilesOK
  <2>6. cmd.api # TRUE /\ ctx.fname \in Seq(STRING)
    BY <1>1 DEF TypeInv, ApiOK, CtxOK, Typed
  <2> HIDE DEF compressed
  <2>7. HeldOf(held', ctx["fname"], cmd, asked)
    <3>1. CASE disk[name].kind = "archive"
      <4>1. held' = disk[name]
        BY <2>4, <3>1
      <4>2. \A q : q.name \in Seq(STRING) /\ name = ToCusza(q.name) => q.name = ctx["fname"]
        BY <2>6, SameName
      <4>3. ASSUME ~held'.damaged
            PROVE  \E q \in asked : Of(ctx["fname"], cmd, q) /\ Fits(held'.of, held'.ext, held'.eb, q)
        <5>1. PICK q \in asked : q.name \in Seq(STRING) /\ name = ToCusza(q.name)
                                 /\ Fits(disk[name].of, disk[name].ext, disk[name].eb, q)
          BY <2>5, <3>1, <4>1, <4>3 DEF FileOK
        <5>2. Of(ctx["fname"], cmd, q)
          BY <4>2, <5>1 DEF Of
        <5> QED
          BY <4>1, <5>1, <5>2
      <4> QED
        BY <3>1, <4>1, <4>3 DEF HeldOf
    <3>2. CASE disk[name].kind # "archive"
      <4>1. held'.kind = "garbage"
        BY <2>4, <3>2 DEF Garbage
      <4> QED
        BY <4>1 DEF HeldOf
    <3> QED
      BY <3>1, <3>2
  <2>8. FilesOK(disk', asked)
    BY <2>1 DEF FaithInv
  <2> QED
    BY <2>1, <2>7, <2>8, OwnFaith
<1> QED
  BY <1>2, <1>3

LEMMA DecompressFaith ==
  ASSUME FaithInv, Decompress
  PROVE  FaithInv'
<1>1. CASE Die
  BY <1>1, DieFaith
<1>2. CASE ~Die
  <2>1. pc = "decompress" /\ held' = Decompressed(held) /\ pc' = "view" /\ UNCHANGED <<disk, cmd, i, ctx, asked, count>>
    BY <1>2 DEF Decompress
  <2>2. HeldOf(held, ctx["fname"], cmd, asked)
    BY <2>1, OwnHeld
  <2>3. HeldOf(held', ctx["fname"], cmd, asked)
    <3>1. CASE Readable(held) /\ HfDecoderReads(held.shape, held.buf) /\ SpDecoderReads(held.shape, held.buf)
      <4>1. held' = [kind |-> "result", of |-> held.of, ext |-> held.ext, err |-> held.eb]
        BY <2>1, <3>1 DEF Decompressed
      <4>2. held'.kind = "result" /\ held'.of = held.of /\ held'.ext = held.ext /\ held'.err = held.eb
        BY <4>1
      <4>3. \E q \in asked : Of(ctx["fname"], cmd, q) /\ Fits(held.of, held.ext, held.eb, q)
        BY <2>2, <3>1 DEF HeldOf, Readable
      <4> QED
        BY <4>2, <4>3 DEF HeldOf
    <3>2. CASE ~(Readable(held) /\ HfDecoderReads(held.shape, held.buf) /\ SpDecoderReads(held.shape, held.buf))
      <4>1. held' = Garbage
        BY <2>1, <3>2 DEF Decompressed
      <4>2. held'.kind = "garbage"
        BY <4>1 DEF Garbage
      <4> QED
        BY <4>2 DEF HeldOf
    <3> QED
      BY <3>1, <3>2
  <2>4. FilesOK(disk', asked)
    BY <2>1 DEF FaithInv
  <2> QED
    BY <2>1, <2>3, <2>4, OwnFaith
<1> QED
  BY <1>1, <1>2

LEMMA ViewFaith ==
  ASSUME FaithInv, View
  PROVE  FaithInv'
<1>1. CASE Die
  BY <1>1, DieFaith
<1>2. CASE ~Die
  <2>1. pc = "view" /\ pc' = "store" /\ UNCHANGED <<disk, cmd, i, ctx, held, asked, count>>
    BY <1>2 DEF View
  <2>2. HeldOf(held', ctx["fname"], cmd, asked)
    BY <2>1, OwnHeld
  <2>3. FilesOK(disk', asked)
    BY <2>1 DEF FaithInv
  <2> QED
    BY <2>1, <2>2, <2>3, OwnFaith
<1> QED
  BY <1>1, <1>2

LEMMA OpenDecompressedFaith ==
  ASSUME FaithInv, OpenDecompressed
  PROVE  FaithInv'
<1>1. CASE Die
  BY <1>1, DieFaith
<1>2. CASE ~Die
  <2>1. pc = "store" /\ Open(ToCuszx(ctx.fname)) /\ pc' = "store_data" /\ UNCHANGED <<cmd, i, ctx, held, asked, count>>
    BY <1>2 DEF OpenDecompressed
  <2>2. HeldOf(held', ctx["fname"], cmd, asked)
    BY <2>1, OwnHeld
  <2>3. FilesOK(disk', asked)
    BY <2>1, OpenFaith DEF FaithInv
  <2> QED
    BY <2>1, <2>2, <2>3, OwnFaith
<1> QED
  BY <1>1, <1>2

LEMMA try_write_decompressed_to_diskFaith ==
  ASSUME TypeInv, FaithInv, try_write_decompressed_to_disk
  PROVE  FaithInv'
<1>1. pc = "store_data" /\ Data(ToCuszx(ctx.fname), Restored) /\ Gone /\ asked' = asked
  BY DEF try_write_decompressed_to_disk
<1>2. held.kind \in Kinds
  BY <1>1 DEF TypeInv, AtOK, Kinds
<1>3. FilesOK(disk', asked)
  BY <1>1, <1>2, DataPuts, PutFaith, ResultFile DEF FaithInv
<1> QED
  BY <1>1, <1>3, GoneFaith

LEMMA CallApiFaith ==
  ASSUME FaithInv, NEW c \in ApiCalls, CallApi(c)
  PROVE  FaithInv'
<1>1. c.from \in DOMAIN disk
  BY DEF CallApi
<1>2. PICK d \in ApiContext(c.len, c.eb) :
        IF d.thrown THEN UNCHANGED <<disk, pc, cmd, i, ctx, held, asked>>
        ELSE /\ ctx' = d /\ pc' = "compress" /\ held' = disk[c.from]
             /\ cmd' = [NoCmd EXCEPT !.api = TRUE]
             /\ asked' = asked \cup Asked(c.from, <<c.len.x, c.len.y, c.len.z>>, c.eb)
             /\ UNCHANGED <<disk, i>>
  BY DEF CallApi
<1>3. CASE d.thrown
  BY <1>2, <1>3 DEF FaithInv, StartOK, AskedFor, Asked, Bound
<1>4. CASE ~d.thrown
  <2> DEFINE ext == <<c.len.x, c.len.y, c.len.z>>
             q == [name |-> c.from, of |-> disk[c.from], ext |-> ext, bound |-> c.eb]
  <2>1. /\ ctx' = d /\ pc' = "compress" /\ held' = disk[c.from] /\ disk' = disk
        /\ cmd' = [NoCmd EXCEPT !.api = TRUE] /\ asked' = asked \cup Asked(c.from, ext, c.eb)
    BY <1>2, <1>4
  <2>2. {c.len.x, c.len.y, c.len.z, c.len.w} \subseteq Int /\ d.thrown # TRUE
    BY <1>4, CliAssumption
  <2>3. Uses(d, c.len, c.eb)
    BY <2>2, ApiContextUses
  <2>4. d["x"] = c.len.x /\ d["y"] = c.len.y /\ d["z"] = c.len.z /\ d["eb"] = c.eb
    BY <2>3 DEF Uses
  <2>5. q \in asked'
    BY <1>1, <2>1 DEF Asked
  <2>6. cmd'.api = TRUE
    BY <2>1 DEF NoCmd
  <2>7. q.of = held' /\ q.ext = <<ctx'["x"], ctx'["y"], ctx'["z"]>> /\ q.bound = ctx'["eb"]
    BY <2>1, <2>4
  <2> HIDE DEF q
  <2>8. Claim(cmd', ctx', held', asked')
    BY <2>5, <2>6, <2>7 DEF Claim, Of, Fits
  <2>9. OwnOK(pc', cmd', ctx', held', asked')
    BY <2>1, <2>8 DEF OwnOK
  <2>10. StartOK'
    BY <2>1 DEF StartOK, Early, Exact
  <2>11. FilesOK(disk', asked')
    BY <2>1, FilesGrow DEF FaithInv
  <2>12. HeldAny(held', asked')
    BY <1>1, <2>1, <2>11 DEF FilesOK, FileOK, HeldAny
  <2> QED
    BY <2>9, <2>10, <2>11, <2>12 DEF FaithInv
<1> QED
  BY <1>3, <1>4

LEMMA FaithKept ==
  ASSUME CommandInv, FaithInv, [Next]_vars
  PROVE  FaithInv'
<1>0. TypeInv /\ MeansInv /\ PlaceInv
  BY DEF CommandInv
<1>1. CASE \E c \in Commands : Invoke(c)
  BY <1>1, InvokeFaith
<1>2. CASE \E c \in ApiCalls : CallApi(c)
  BY <1>2, CallApiFaith
<1>3. CASE Step
  BY <1>0, <1>3, EarlyActionFaith, load_uncompressedFaith, AdjustFaith, CompressFaith, OpenCompressedFaith,
     write_compressed_to_diskFaith, load_compressedFaith, DecompressFaith, ViewFaith, OpenDecompressedFaith,
     try_write_decompressed_to_diskFaith DEF Step
<1>4. CASE UNCHANGED vars
  BY <1>4 DEF vars, FaithInv, StartOK, AskedFor, Asked, Bound
<1> QED
  BY <1>1, <1>2, <1>3, <1>4 DEF Next

LEMMA InitFaith ==
  ASSUME Init
  PROVE  FaithInv
<1>1. pc = "idle" /\ held = Nothing /\ disk = Fields
  BY DEF Init
<1>2. Nothing.kind = "nothing"
  BY DEF Nothing, Cap!NoFile
<1>3. FilesOK(disk, asked)
  BY <1>1, CliAssumption DEF FilesOK, FileOK
<1>4. HeldAny(held, asked)
  BY <1>1, <1>2 DEF HeldAny
<1>5. OwnOK(pc, cmd, ctx, held, asked)
  BY <1>1 DEF OwnOK
<1>6. StartOK
  BY <1>1 DEF StartOK, Early, Exact
<1> QED
  BY <1>3, <1>4, <1>5, <1>6 DEF FaithInv

LEMMA FaithInvFaithful ==
  ASSUME FaithInv
  PROVE  Faithful
<1>1. ASSUME NEW n \in DOMAIN disk, disk[n].kind = "result"
      PROVE  \E q \in asked : n = ToCuszx(q.name) /\ disk[n].of = q.of /\ disk[n].ext = q.ext /\ disk[n].err = q.bound
  BY <1>1 DEF FaithInv, FilesOK, FileOK, Fits
<1>2. held.kind = "result" => \E q \in asked : held.of = q.of /\ held.ext = q.ext /\ held.err = q.bound
  BY DEF FaithInv, HeldAny, Fits
<1> QED
  BY <1>1, <1>2 DEF Faithful

(* Every result, in memory or on disk, is of the field, in the extents and  *)
(* within the bound of a compression of its name that was asked for.        *)
THEOREM ResultsFaithful == Spec => []Faithful
<1>1. Init => FaithInv
  BY InitFaith
<1>2. CommandInv /\ FaithInv /\ [Next]_vars => FaithInv'
  BY FaithKept
<1>3. FaithInv => Faithful
  BY FaithInvFaithful
<1> QED
  BY <1>1, <1>2, <1>3, CommandInvariant, PTL DEF Spec

================================================================================
