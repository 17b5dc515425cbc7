------------------------------- MODULE HfCodec -------------------------------
(***************************************************************************)
(* The coarse-grained Huffman codec (hf_pimpl.inl, hf_codecg.cu and .inl). *)
(* A field is cut into chunks, one thread each.  Encoding fills a buffer   *)
(* with one packed codeword per quant-code; each thread deflates its chunk *)
(* in place, to cells at the chunk's beginning; the host scans the numbers *)
(* of cells; blocks concatenate the cells to a bitstream.  The chunks'     *)
(* metadata lives as long as the codec, and only chunks that have data     *)
(* write theirs.  Decoding reads an archive, one thread per chunk.         *)
(*                                                                         *)
(* A codeword and a cell are sequences of bits; a cell is full, a packed   *)
(* codeword is shorter, since part of the word holds its length.           *)
(***************************************************************************)
EXTENDS Integers, Sequences

CONSTANTS
  Symbol,      \* quant-codes
  Books,       \* codebooks an encoding may use: complete prefix codes
  CellBits,    \* CELL_BITWIDTH
  MaxLen,      \* in_uncompressed_len of init()
  ParDeg,      \* pardeg, the number of chunks
  Fields,      \* what may be encoded, as [len, data]
  HostJunk,    \* what pinned memory that was never written may hold
  MaxCalls     \* bound on the encodings

Sublen == (MaxLen - 1) \div ParDeg + 1
Chunk  == 0 .. ParDeg - 1
Slot   == 0 .. MaxLen - 1
Bit    == {0, 1}
Code   == UNION {[1 .. n -> Bit] : n \in 1 .. CellBits - 1}
Cell   == [1 .. CellBits -> Bit]

ASSUME CodecAssumption ==
  /\ {CellBits, MaxLen, ParDeg} \subseteq Nat \ {0} /\ MaxCalls \in Nat
  /\ Books \subseteq [Symbol -> Code]
  /\ \A b \in Books : \A r, s \in Symbol :
       r # s /\ Len(b[r]) <= Len(b[s]) => \E j \in 1 .. Len(b[r]) : b[r][j] # b[s][j]
  /\ \A f \in Fields : f.len \in 1 .. MaxLen /\ f.data \in [0 .. f.len - 1 -> Symbol]
  /\ HostJunk \subseteq Nat

VARIABLES
  phase, calls,
  field, book,         \* what is being encoded, or was
  buffer,              \* d_tmp: packed codewords, then cells
  bitstream,
  par_nbit, par_ncell, par_entry,  \* on the device
  h_par_entry, scan,   \* on the host; how far it has been scanned
  thread,              \* of each chunk, the thread or block working on it
  archive,             \* the subfile the last encoding returned
  out                  \* out_decompressed

metadata == <<par_nbit, par_ncell, par_entry>>
vars == <<phase, calls, field, book, buffer, bitstream, metadata, h_par_entry, scan,
          thread, archive, out>>

Evenly(t) == (t * MaxLen) \div ParDeg    \* mutant: chunks of MaxLen / ParDeg
Base(t)   == t * Sublen
Begun(at) == [at |-> at, i |-> 0, ptr |-> 0, bufr |-> <<>>, residue_bits |-> CellBits,
              total_bits |-> 0]
AllDone   == \A t \in Chunk : thread[t].at = "done"
Pad(b)    == [j \in 1 .. CellBits |-> IF j <= Len(b) THEN b[j] ELSE 0]
None      == [kind |-> "none"]
-----------------------------------------------------------------------------
\* hf_encode_phase1_fill(): each quant-code is looked up; the rest of the buffer is
\* left as it is.
Filled(f, b) == [k \in Slot |-> IF k < f.len THEN b[f.data[k]] ELSE buffer[k]]

\* encode(), phase 1; threads whose chunk begins beyond the field do nothing.
Encode(f, b) ==
  /\ phase = "idle" /\ calls < MaxCalls
  /\ phase' = "deflate" /\ calls' = calls + 1
  /\ field' = f /\ book' = b
  /\ buffer' = Filled(f, b)
  /\ thread' = [t \in Chunk |-> Begun(IF Base(t) < f.len THEN "run" ELSE "done")]
  /\ UNCHANGED <<bitstream, metadata, h_par_entry, scan, archive, out>>

More(t) == thread[t].i < Sublen /\ Base(t) + thread[t].i < field.len

\* The residue after appending up to n bits of a cell.
NoWrap(n)  == IF n <= CellBits THEN CellBits - n ELSE 2 * CellBits - n  \* mutant
Residue(n) == IF n < CellBits THEN CellBits - n ELSE 2 * CellBits - n

\* Phase 2, one packed codeword: it is appended to bufr, and a cell that gets full
\* is written over the beginning of the chunk.
Deflate(t) ==
  LET me    == thread[t]
      word  == buffer[Base(t) + me.i]
      kept  == IF me.residue_bits = CellBits THEN <<>> ELSE me.bufr
      bits  == kept \o word
      full  == Len(bits) >= CellBits
  IN
  /\ phase = "deflate" /\ me.at = "run" /\ More(t)
  /\ buffer' = IF full THEN [buffer EXCEPT ![Base(t) + me.ptr] = SubSeq(bits, 1, CellBits)]
                       ELSE buffer
  /\ thread' = [thread EXCEPT ![t] =
       [at |-> "run", i |-> me.i + 1, ptr |-> IF full THEN me.ptr + 1 ELSE me.ptr,
        bufr |-> IF Len(bits) > CellBits THEN SubSeq(bits, CellBits + 1, Len(bits))
                                         ELSE bits,
        residue_bits |-> Residue(Len(bits)),
        total_bits |-> me.total_bits + Len(word)]]
  /\ UNCHANGED <<phase, calls, field, book, bitstream, metadata, h_par_entry, scan,
                 archive, out>>

RoundDown(n) == n \div CellBits          \* mutant: the last, partial cell is lost
NCell(n)     == (n + CellBits - 1) \div CellBits

\* The last cell is written even if the one before has just got full.
LastCell(t) ==
  LET me == thread[t] IN
  /\ phase = "deflate" /\ me.at = "run" /\ ~More(t)
  /\ buffer' = [buffer EXCEPT ![Base(t) + me.ptr] = Pad(me.bufr)]
  /\ par_nbit' = [par_nbit EXCEPT ![t] = me.total_bits]
  /\ par_ncell' = [par_ncell EXCEPT ![t] = NCell(me.total_bits)]
  /\ thread' = [thread EXCEPT ![t].at = "done"]
  /\ UNCHANGED <<phase, calls, field, book, bitstream, par_entry, h_par_entry, scan,
                 archive, out>>

\* Phase 3, on the host.  Entry 0 is not written, here or anywhere.
Unshifted(k) == par_ncell[k]             \* mutant: each entry one chunk too far
Shifted(k)   == IF k = 0 THEN h_par_entry[0] ELSE par_ncell[k - 1]

CopyBack ==
  /\ phase = "deflate" /\ AllDone
  /\ phase' = "scan" /\ scan' = 1
  /\ h_par_entry' = [k \in Chunk |-> Shifted(k)]
  /\ UNCHANGED <<calls, field, book, buffer, bitstream, metadata, thread, archive, out>>

Stuck(k) == k                            \* mutant
After(k) == k + 1

Scan ==
  /\ phase = "scan" /\ scan < ParDeg
  /\ h_par_entry' = [h_par_entry EXCEPT ![scan] = @ + h_par_entry[scan - 1]]
  /\ scan' = After(scan)
  /\ UNCHANGED <<phase, calls, field, book, buffer, bitstream, metadata, thread, archive,
                 out>>

CopyEntries ==
  /\ phase = "scan" /\ scan >= ParDeg
  /\ phase' = "concatenate"
  /\ par_entry' = h_par_entry
  /\ thread' = [t \in Chunk |-> Begun("run")]
  /\ UNCHANGED <<calls, field, book, buffer, bitstream, par_nbit, par_ncell, h_par_entry,
                 scan, archive, out>>

\* Phase 4, the block of one chunk.
Concatenate(t) ==
  /\ phase = "concatenate" /\ thread[t].at = "run"
  /\ bitstream' = [k \in DOMAIN bitstream |->
       IF k - par_entry[t] \in 0 .. par_ncell[t] - 1
         THEN buffer[Base(t) + k - par_entry[t]] ELSE bitstream[k]]
  /\ thread' = [thread EXCEPT ![t].at = "done"]
  /\ UNCHANGED <<phase, calls, field, book, buffer, metadata, h_par_entry, scan, archive,
                 out>>

\* std::accumulate() over the chunks' numbers of cells.
total_ncell ==
  LET sum[k \in 0 .. ParDeg] == IF k = 0 THEN 0 ELSE sum[k - 1] + par_ncell[k - 1]
  IN  sum[ParDeg]

\* subfile_collect() puts the archive together over d_tmp; the caller takes it from
\* there at once.  What d_tmp holds then is some cells or other.
Collect ==
  /\ phase = "concatenate" /\ AllDone
  /\ phase' = "idle"
  /\ archive' = [kind |-> "archive", of |-> field, book |-> book, nbit |-> par_nbit,
                 entry |-> par_entry,
                 cells |-> [k \in 0 .. total_ncell - 1 |-> bitstream[k]]]
  /\ \E b \in Bit : buffer' = [k \in Slot |-> [j \in 1 .. CellBits |-> b]]
  /\ UNCHANGED <<calls, field, book, bitstream, metadata, h_par_entry, scan, thread, out>>

-----------------------------------------------------------------------------
\* hf_decode_kernel(): a thread for each chunk; one without any bits has no loop to
\* enter.
Inflaters == [t \in Chunk |-> Begun(IF archive.nbit[t] > 0 THEN "run" ELSE "done")]

Decode ==
  /\ phase = "idle" /\ archive # None
  /\ phase' = "inflate"
  /\ thread' = Inflaters
  /\ \E s \in Symbol : out' = [k \in 0 .. Base(ParDeg) - 1 |-> s]
  /\ UNCHANGED <<calls, field, book, buffer, bitstream, metadata, h_par_entry, scan,
                 archive>>

\* Bit n of chunk t in the archive; past the end, something or other.
BitAt(t, n) ==
  LET k == archive.entry[t] + n \div CellBits
  IN  IF k \in DOMAIN archive.cells THEN archive.cells[k][(n % CellBits) + 1] ELSE 0

\* The codeword of s is what comes next.
Ahead(s, t, n) == \A j \in 1 .. Len(archive.book[s]) :
                    archive.book[s][j] = BitAt(t, n + j - 1)

\* hf_decode_single_thread_inflate(), one quant-code; a write past the output is
\* left out.  (If no codeword came next, the thread would not end.)
Inflate(t) ==
  LET me == thread[t] IN
  /\ phase = "inflate" /\ me.at = "run"
  /\ \E s \in Symbol :
       LET next == me.total_bits + Len(archive.book[s]) IN
       /\ Ahead(s, t, me.total_bits)
       /\ out' = IF Base(t) + me.i \in DOMAIN out
                   THEN [out EXCEPT ![Base(t) + me.i] = s] ELSE out
       /\ thread' = [thread EXCEPT ![t] = [me EXCEPT
                       !.i = @ + 1, !.total_bits = next,
                       !.at = IF next < archive.nbit[t] THEN "run" ELSE "done"]]
  /\ UNCHANGED <<phase, calls, field, book, buffer, bitstream, metadata, h_par_entry,
                 scan, archive>>

Return ==
  /\ phase = "inflate" /\ AllDone
  /\ phase' = "idle"
  /\ UNCHANGED <<calls, field, book, buffer, bitstream, metadata, h_par_entry, scan,
                 thread, archive, out>>

\* clear_buffer(); of the bitstream, as much as the last encoding took.
ClearBuffer ==
  /\ phase = "idle"
  /\ buffer' = [k \in Slot |-> Pad(<<>>)]
  /\ bitstream' = [k \in DOMAIN bitstream |->
                     IF k < total_ncell THEN Pad(<<>>) ELSE bitstream[k]]
  /\ par_nbit' = [t \in Chunk |-> 0] /\ par_ncell' = par_nbit' /\ par_entry' = par_nbit'
  /\ UNCHANGED <<phase, calls, field, book, h_par_entry, scan, thread, archive, out>>

\* As init() leaves the codec: device memory is cleared, pinned memory is not.
Init ==
  /\ phase = "idle" /\ calls = 0
  /\ field \in Fields /\ book \in Books
  /\ buffer = [k \in Slot |-> Pad(<<>>)]
  /\ \E e \in HostJunk : h_par_entry = [k \in Chunk |-> e]
  /\ bitstream = [k \in 0 .. MaxLen + h_par_entry[0] - 1 |-> Pad(<<>>)]
  /\ par_nbit = [t \in Chunk |-> 0] /\ par_ncell = par_nbit /\ par_entry = par_nbit
  /\ scan = 0
  /\ thread = [t \in Chunk |-> Begun("done")]
  /\ archive = None
  /\ out = [k \in 0 .. Base(ParDeg) - 1 |-> CHOOSE s \in Symbol : TRUE]

\* What goes on during a call of hf_encode_coarse_rev1(), to the archive it is for, and of
\* hf_decode_coarse().
EncodeStep ==
  \/ \E t \in Chunk : Deflate(t) \/ LastCell(t) \/ Concatenate(t)
  \/ CopyBack \/ Scan \/ CopyEntries \/ Collect
DecodeStep == Return \/ \E t \in Chunk : Inflate(t)
Step       == EncodeStep \/ DecodeStep

Call == Decode \/ ClearBuffer \/ \E f \in Fields, b \in Books : Encode(f, b)

Next == Call \/ Step

Spec == Init /\ [][Next]_vars /\ WF_vars(Step)
-----------------------------------------------------------------------------
Threads == [at : {"run", "done"}, i : Nat, ptr : 0 .. Sublen - 1, bufr : Seq(Bit),
            residue_bits : 1 .. CellBits, total_bits : Nat]

\* Types; above all, there is always room left for another bit in the cell a thread
\* is filling, and that cell is one of its chunk.
TypeOK ==
  /\ phase \in {"idle", "deflate", "scan", "concatenate", "inflate"}
  /\ calls \in 0 .. MaxCalls /\ field \in Fields /\ book \in Books
  /\ buffer \in [Slot -> Code \cup Cell]
  /\ par_nbit \in [Chunk -> Nat] /\ par_ncell \in [Chunk -> Nat]
  /\ par_entry \in [Chunk -> Nat] /\ h_par_entry \in [Chunk -> Nat]
  /\ scan \in 0 .. ParDeg /\ (phase = "scan" => scan > 0)
  /\ thread \in [Chunk -> Threads]
  /\ phase = "inflate" => archive # None
  /\ archive = None \/ (archive.book \in Books /\ archive.nbit \in [Chunk -> Nat])

\* Deflating in place overwrites no codeword that has yet to be read, of this chunk
\* or of another: every thread finds what phase 1 put there.
UnreadIntact ==
  phase = "deflate" =>
    \A t \in Chunk : thread[t].at = "run" =>
      \A k \in Base(t) + thread[t].i .. Base(t) + Sublen - 1 :
        k < field.len => buffer[k] = book[field.data[k]]

\* The chunks' cells lie one after the other in the bitstream, from its beginning,
\* also those of chunks that keep the metadata of an earlier, longer field.
ChunksTile ==
  phase = "concatenate" =>
    /\ par_entry[0] = 0
    /\ \A t \in Chunk \ {0} : par_entry[t] = par_entry[t - 1] + par_ncell[t - 1]

\* Decoding gives back every quant-code of the field the archive was made from,
\* whatever was encoded with the same codec before.
RoundTrip ==
  phase = "inflate" /\ AllDone =>
    \A k \in 0 .. archive.of.len - 1 : out[k] = archive.of.data[k]

\* A call that has begun returns.
CallReturns == phase # "idle" ~> phase = "idle"
-----------------------------------------------------------------------------
(* The inductive invariant behind UnreadIntact and ChunksTile.              *)

\* A thread has read more words than it has written cells, once it has read one,
\* since that one does not fill a cell.
Behind ==
  phase = "deflate" =>
    \A t \in Chunk :
      LET me == thread[t] IN
      me.at = "run" =>
        /\ me.i <= Sublen /\ Base(t) < field.len /\ Base(t) + me.i <= field.len
        /\ IF me.i = 0 THEN me.ptr = 0 /\ me.residue_bits = CellBits
                       ELSE me.ptr < me.i
        /\ me.residue_bits < CellBits => Len(me.bufr) = CellBits - me.residue_bits

\* The entries before "scan" are sums, the others still numbers of cells.
Scanned ==
  /\ h_par_entry[0] = 0
  /\ phase = "scan" =>
       \A k \in Chunk \ {0} :
         h_par_entry[k] = (IF k < scan THEN h_par_entry[k - 1] ELSE 0) + par_ncell[k - 1]

IInv == TypeOK /\ Behind /\ UnreadIntact
===============================================================================
