-------------------------------- MODULE Archive --------------------------------
(***************************************************************************)
(* The layout of an archive, in bytes.  Three writers put their parts one  *)
(* behind the other, each behind a header of its own that tells where they *)
(* start: the Huffman codec and the sparse codec make subfiles, and the    *)
(* compressor puts these into the archive.  Nothing compares a size with   *)
(* the buffer it goes to.                                                  *)
(*                                                                         *)
(* A buffer is the sequence of the writes made to it: [at, n, what], n     *)
(* bytes from at on; a later one covers an earlier one.  "what" is a part, *)
(* or a header with its entries.                                           *)
(***************************************************************************)
EXTENDS Integers, Sequences, FiniteSets

HEADER == 128      \* nbyte[HEADER]: what is kept for a header

Part(name)          == [part |-> name, entry |-> <<>>]
Write(at, n, what)  == << [at |-> at, n |-> n, what |-> what] >>

\* The entries of a header: where each part starts, and the end of the last.
EntriesApart(nbyte) == [k \in 1 .. Len(nbyte) + 1 |-> IF k = 1 THEN 0 ELSE nbyte[k - 1]]   \* mutant
Entries(nbyte) == LET E[k \in 1 .. Len(nbyte) + 1] == IF k = 1 THEN 0 ELSE E[k - 1] + nbyte[k - 1] IN E
Last(s) == s[Len(s)]

\* The first n bytes of src, copied to at; of what is beyond them, nothing.
Copy(src, n, at) ==
  [k \in DOMAIN src |->
     [src[k] EXCEPT !.at = @ + at,
                    !.n = IF src[k].at >= n THEN 0 ELSE IF src[k].at + @ > n THEN n - src[k].at ELSE @]]

\* The n bytes at "at" are what one write put there, and no later write covers them.
Holds(buf, at, n, what) ==
  LET Over == {i \in DOMAIN buf : buf[i].n > 0 /\ buf[i].at < at + n /\ at < buf[i].at + buf[i].n}
  IN  n > 0 => \E i \in Over : /\ buf[i] = [at |-> at, n |-> n, what |-> what]
                               /\ \A j \in Over : j <= i
\* The entries of the header that was last written at "at".
EntryAt(buf, at) ==
  LET I == {i \in DOMAIN buf : buf[i].n > 0 /\ buf[i].at = at /\ buf[i].what.entry # <<>>}
  IN  IF I = {} THEN <<>> ELSE buf[CHOOSE i \in I : \A j \in I : j <= i].what.entry

-----------------------------------------------------------------------------
(* A compression of len values, with codewords in w bytes (H), booklen     *)
(* quant-codes (E, 4 bytes), pardeg chunks, ncell words of bitstream and   *)
(* nnz outliers.  Metadata and values take 4 bytes each.                   *)

get_revbook_nbyte(w, booklen) == w * (2 * 8 * w) + 4 * booklen

HfParts(a) == << HEADER, get_revbook_nbyte(a.w, a.booklen), 4 * a.pardeg, 4 * a.pardeg, a.w * a.ncell >>
HfNames    == << "header", "revbook", "par_nbit", "par_entry", "bitstream" >>
SpParts(a) == << HEADER, 4 * a.nnz, 4 * a.nnz >>
SpNames    == << "header", "idx", "val" >>

\* sizeof(Header) of the three.
HfHeader == 64
SpHeader == 40
CuszHeader == 128

\* The parts behind the header, each from its own device buffer.
Behind(nbyte, names, entry) ==
  [k \in 1 .. Len(nbyte) - 1 |-> [at |-> entry[k + 1], n |-> nbyte[k + 1], what |-> Part(names[k + 1])]]

\* The Huffman subfile covers the encoder's scratch buffer; the sparse one has its own.
HfSubfile(a) ==
  LET e == Entries(HfParts(a))
  IN  Write(0, a.w * a.len, Part("tmp")) \o Write(0, HfHeader, [part |-> "hf", entry |-> e])
        \o Behind(HfParts(a), HfNames, e)
SpSubfile(a) ==
  LET e == Entries(SpParts(a))
  IN  Write(0, SpHeader, [part |-> "sp", entry |-> e]) \o Behind(SpParts(a), SpNames, e)

\* There is no anchor: the predictor is Lorenzo's.
CuszParts(a) == << HEADER, 0, Last(Entries(HfParts(a))), Last(Entries(SpParts(a))) >>
subfile_collect(a) ==
  LET e == Entries(CuszParts(a))
  IN  Write(0, CuszHeader, [part |-> "cusz", entry |-> e])
        \o Copy(HfSubfile(a), CuszParts(a)[3], e[3]) \o Copy(SpSubfile(a), CuszParts(a)[4], e[4])

\* The buffers that got more than they have room for.
Overrun(a) ==
  LET room == [tmp |-> a.w * a.len, bitstream |-> (a.len \div 2) * a.w,
               spfmt |-> (a.len \div a.density) * 4, idx |-> (a.len \div a.density) * 4,
               val |-> (a.len \div a.density) * 4, reserved |-> (a.len * 4) \div 2]
      need == [tmp |-> Last(Entries(HfParts(a))), bitstream |-> a.w * a.ncell,
               spfmt |-> Last(Entries(SpParts(a))), idx |-> 4 * a.nnz, val |-> 4 * a.nnz,
               reserved |-> Last(Entries(CuszParts(a)))]
  IN  {b \in DOMAIN room : need[b] > room[b]}

-----------------------------------------------------------------------------
(* Decompression: what the decoders' accessors point to.                   *)

Reads(buf, at, nbyte, names, used) ==
  LET e == EntryAt(buf, at)
  IN  Len(e) = Len(nbyte) + 1 /\ \A k \in used : Holds(buf, at + e[k], nbyte[k], Part(names[k]))

\* The Huffman decoder goes to its parts from where the compressor's header tells
\* it to start, and the sparse one likewise.
HfDecoderReads(a, buf) ==
  LET e == EntryAt(buf, 0) IN Len(e) = 5 /\ Reads(buf, e[3], HfParts(a), HfNames, 2 .. 5)
SpDecoderReads(a, buf) ==
  LET e == EntryAt(buf, 0) IN Len(e) = 5 /\ Reads(buf, e[4], SpParts(a), SpNames, 2 .. 3)
================================================================================
