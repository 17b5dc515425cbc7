---------------------------- MODULE HfCodecProofs ----------------------------
(***************************************************************************)
(* Theorems about HfCodec: for any codebooks, fields, width of a cell and  *)
(* number of chunks.                                                       *)
(***************************************************************************)
EXTENDS HfCodec, SequenceTheorems, NatLemmas, TLAPS

USE DEF Residue, NCell, Shifted, After

(* ceil(MaxLen / ParDeg) words for each of ParDeg chunks are enough for the *)
(* field: no thread beyond the last chunk finds anything to do.             *)
THEOREM ChunksCover ==
  /\ Sublen \in Nat \ {0}
  /\ MaxLen <= Base(ParDeg)
<1>1. MaxLen \in Nat /\ MaxLen - 1 \in Nat /\ ParDeg \in Nat /\ ParDeg > 0
  BY CodecAssumption
<1> DEFINE q == (MaxLen - 1) \div ParDeg
<1>2. /\ q \in Nat
      /\ MaxLen - 1 < (q + 1) * ParDeg
  BY <1>1
<1>3. Sublen = q + 1
  BY DEF Sublen
<1> HIDE DEF q
<1>4. Base(ParDeg) = (q + 1) * ParDeg
  BY <1>1, <1>2, <1>3 DEF Base
<1>5. Base(ParDeg) \in Nat /\ MaxLen - 1 < Base(ParDeg)
  BY <1>1, <1>2, <1>4
<1> QED
  BY <1>1, <1>2, <1>3, <1>5

(* Chunks do not overlap.                                                   *)
LEMMA ChunksApart ==
  ASSUME NEW s \in Chunk, NEW t \in Chunk, s < t
  PROVE  Base(s) \in Nat /\ Base(t) \in Nat /\ Base(s) + Sublen <= Base(t)
<1>1. Sublen \in Nat /\ s \in Nat /\ t \in Nat /\ ParDeg \in Nat
  BY ChunksCover, CodecAssumption DEF Chunk
<1>2. t - s - 1 \in Nat
  BY <1>1
<1> DEFINE d == t - s - 1
<1>3. t = s + 1 + d /\ d \in Nat
  BY <1>1, <1>2
<1> HIDE DEF d
<1>4. Base(t) = s * Sublen + Sublen + d * Sublen
  BY <1>1, <1>3 DEF Base
<1>5. d * Sublen \in Nat /\ s * Sublen \in Nat
  BY <1>1, <1>3
<1> QED
  BY <1>1, <1>4, <1>5 DEF Base

(* Codewords and cells as sequences of bits.                                *)
LEMMA WordIsSeq ==
  ASSUME NEW w \in Code \cup Cell
  PROVE  /\ w \in Seq(Bit) /\ Len(w) \in 1 .. CellBits
         /\ w \in Code => Len(w) < CellBits
<1>0. CellBits \in Nat \ {0}
  BY CodecAssumption
<1>1. CASE w \in Code
  <2>1. PICK n \in 1 .. CellBits - 1 : w \in [1 .. n -> Bit]
    BY <1>1 DEF Code
  <2>2. w \in Seq(Bit) /\ Len(w) = n
    BY <1>0, <2>1, SeqDef
  <2> QED
    BY <1>0, <2>2
<1>2. CASE w \in Cell /\ w \notin Code
  <2>1. w \in Seq(Bit) /\ Len(w) = CellBits
    BY <1>0, <1>2, SeqDef DEF Cell
  <2> QED
    BY <1>0, <1>2, <2>1
<1> QED
  BY <1>1, <1>2

LEMMA PadIsCell ==
  ASSUME NEW b \in Seq(Bit)
  PROVE  Pad(b) \in Cell
BY LenProperties DEF Pad, Cell, Bit

LEMMA Booked ==
  ASSUME NEW f \in Fields, NEW b \in Books, NEW k \in 0 .. f.len - 1
  PROVE  b[f.data[k]] \in Code
<1>1. f.data \in [0 .. f.len - 1 -> Symbol] /\ b \in [Symbol -> Code]
  BY CodecAssumption
<1> QED
  BY <1>1

(* A thread about to start.                                                 *)
LEMMA BegunType ==
  ASSUME NEW at \in {"run", "done"}
  PROVE  Begun(at) \in Threads
<1>1. CellBits \in 1 .. CellBits /\ 0 \in 0 .. Sublen - 1 /\ <<>> \in Seq(Bit)
  BY CodecAssumption, ChunksCover, EmptySeq
<1> QED
  BY <1>1 DEF Begun, Threads

LEMMA SoundStart == Init => IInv
<1> SUFFICES ASSUME Init PROVE IInv
  OBVIOUS
<1>1. \A k \in Slot : Pad(<<>>) \in Cell
  BY PadIsCell, EmptySeq
<1>2. thread \in [Chunk -> Threads]
  BY BegunType DEF Init
<1>3. h_par_entry \in [Chunk -> Nat]
  BY CodecAssumption DEF Init
<1>4. TypeOK
  BY <1>1, <1>2, <1>3, CodecAssumption DEF Init, TypeOK
<1> QED
  BY <1>4 DEF Init, IInv, Behind, UnreadIntact
-----------------------------------------------------------------------------
(* Phase 1 puts the codewords where phase 2 expects them.                   *)
LEMMA SoundEncode ==
  ASSUME IInv, NEW f \in Fields, NEW b \in Books, Encode(f, b)
  PROVE  IInv'
<1>0. f.len \in 1 .. MaxLen /\ MaxLen \in Nat /\ MaxCalls \in Nat
  BY CodecAssumption
<1>1. \A k \in Slot : k < f.len => b[f.data[k]] \in Code
  BY <1>0, Booked DEF Slot
<1>2. buffer' \in [Slot -> Code \cup Cell]
  BY <1>1 DEF Encode, Filled, IInv, TypeOK
<1>3. thread' \in [Chunk -> Threads]
  BY BegunType DEF Encode
<1>4. TypeOK'
  BY <1>0, <1>2, <1>3 DEF Encode, Filled, IInv, TypeOK, metadata
<1>5. \A t \in Chunk :
        /\ thread'[t].i = 0 /\ thread'[t].ptr = 0 /\ thread'[t].residue_bits = CellBits
        /\ thread'[t].at = "run" => Base(t) < f.len
  BY DEF Encode, Filled, Begun
<1>6. \A t \in Chunk : Base(t) \in Nat /\ Sublen \in Nat
  BY ChunksCover, CodecAssumption DEF Base, Chunk
<1>7. Behind'
  BY <1>0, <1>5, <1>6, CodecAssumption DEF Encode, Filled, Behind
<1>8. UnreadIntact'
  BY <1>0, <1>5, <1>6 DEF Encode, Filled, UnreadIntact, Slot
<1> QED
  BY <1>4, <1>7, <1>8 DEF IInv

(* Where threads read and write: within their chunks of the buffer.         *)
LEMMA ChunkBounds ==
  ASSUME IInv, phase = "deflate", NEW t \in Chunk, thread[t].at = "run"
  PROVE  /\ Base(t) \in Nat /\ Sublen \in Nat /\ field.len \in 1 .. MaxLen
         /\ thread[t] \in Threads
         /\ thread[t].ptr < Sublen /\ thread[t].ptr <= thread[t].i
         /\ Base(t) + thread[t].ptr < field.len
<1>1. Base(t) \in Nat /\ Sublen \in Nat \ {0}
  BY ChunksCover, CodecAssumption DEF Base, Chunk
<1>2. field.len \in 1 .. MaxLen /\ thread[t] \in Threads /\ MaxLen \in Nat
  BY CodecAssumption DEF IInv, TypeOK
<1>3. thread[t].i \in Nat /\ thread[t].ptr \in 0 .. Sublen - 1
  BY <1>2 DEF Threads
<1>4. /\ Base(t) < field.len /\ Base(t) + thread[t].i <= field.len
      /\ IF thread[t].i = 0 THEN thread[t].ptr = 0 ELSE thread[t].ptr < thread[t].i
  BY DEF IInv, Behind
<1> QED
  BY <1>1, <1>2, <1>3, <1>4

(* What a step of phase 2 writes is a cell that has been read, so the other *)
(* threads' codewords, and this one's later ones, are as they were.         *)
LEMMA WriteBehind ==
  ASSUME IInv, phase = "deflate", NEW t \in Chunk, thread[t].at = "run",
         NEW c, buffer' = [buffer EXCEPT ![Base(t) + thread[t].ptr] = c],
         NEW s \in Chunk, thread[s].at = "run",
         NEW k \in Base(s) + thread[s].i .. Base(s) + Sublen - 1, k < field.len,
         s = t => k > Base(t) + thread[t].i
  PROVE  buffer'[k] = book[field.data[k]]
<1>1. /\ Base(t) \in Nat /\ Base(s) \in Nat /\ Sublen \in Nat
      /\ thread[t].ptr \in Nat /\ thread[t].i \in Nat /\ thread[s].i \in Nat
      /\ thread[t].ptr < Sublen /\ thread[t].ptr <= thread[t].i
      /\ field.len \in 1 .. MaxLen
  BY ChunkBounds DEF Threads
<1>2. s \in Int /\ t \in Int /\ MaxLen \in Nat
  BY CodecAssumption DEF Chunk
<1>3. k # Base(t) + thread[t].ptr
  <2>1. CASE s = t
    BY <1>1, <2>1
  <2>2. CASE s < t
    BY <1>1, <2>2, ChunksApart
  <2>3. CASE t < s
    BY <1>1, <2>3, ChunksApart
  <2> QED
    BY <1>2, <2>1, <2>2, <2>3
<1>4. k \in Slot /\ buffer \in [Slot -> Code \cup Cell]
  <2>1. k \in 0 .. MaxLen - 1
    BY <1>1, <1>2
  <2> QED
    BY <2>1 DEF Slot, IInv, TypeOK
<1>5. buffer'[k] = buffer[k]
  BY <1>3, <1>4
<1> QED
  BY <1>5 DEF IInv, UnreadIntact

(* One codeword appended to the cell a thread is filling.                   *)
LEMMA Appended ==
  ASSUME IInv, NEW t \in Chunk, Deflate(t),
         NEW word, word = buffer[Base(t) + thread[t].i],
         NEW kept, kept = IF thread[t].residue_bits = CellBits THEN <<>>
                          ELSE thread[t].bufr
  PROVE  /\ kept \o word \in Seq(Bit) /\ Len(word) \in Nat
         /\ Len(kept \o word) \in 1 .. 2 * CellBits - 1
         /\ thread[t].i = 0 => Len(kept \o word) < CellBits
<1>0. CellBits \in Nat \ {0}
  BY CodecAssumption
<1>1. /\ phase = "deflate" /\ thread[t].at = "run"
      /\ thread[t].i < Sublen /\ Base(t) + thread[t].i < field.len
  BY DEF Deflate, More
<1>2. /\ Base(t) \in Nat /\ Sublen \in Nat /\ field.len \in 1 .. MaxLen
      /\ thread[t] \in Threads /\ thread[t].i \in Nat
      /\ thread[t].residue_bits \in 1 .. CellBits
  BY <1>1, ChunkBounds DEF Threads
<1>3. word \in Code
  <2>1. field \in Fields /\ book \in Books
    BY DEF IInv, TypeOK
  <2>2. buffer[Base(t) + thread[t].i] = book[field.data[Base(t) + thread[t].i]]
    <3>1. Base(t) + thread[t].i \in Base(t) + thread[t].i .. Base(t) + Sublen - 1
      BY <1>1, <1>2
    <3> QED
      BY <1>1, <3>1 DEF IInv, UnreadIntact
  <2>3. Base(t) + thread[t].i \in 0 .. field.len - 1
    BY <1>1, <1>2
  <2> QED
    BY <2>1, <2>2, <2>3, Booked
<1>4. word \in Seq(Bit) /\ Len(word) \in 1 .. CellBits - 1
  BY <1>0, <1>3, WordIsSeq
<1>5. kept \in Seq(Bit) /\ Len(kept) = CellBits - thread[t].residue_bits
  <2>1. CASE thread[t].residue_bits = CellBits
    BY <1>0, <2>1, EmptySeq
  <2>2. CASE thread[t].residue_bits < CellBits
    BY <1>0, <1>1, <1>2, <2>2 DEF IInv, Behind, Threads
  <2> QED
    BY <1>0, <1>2, <2>1, <2>2
<1>6. kept \o word \in Seq(Bit) /\ Len(kept \o word) = Len(kept) + Len(word)
  BY <1>4, <1>5, ConcatProperties
<1>7. thread[t].i = 0 => thread[t].residue_bits = CellBits
  BY <1>1 DEF IInv, Behind
<1>8. /\ Len(kept \o word) \in 1 .. 2 * CellBits - 1
      /\ thread[t].i = 0 => Len(kept \o word) < CellBits
  <2> DEFINE m == Len(kept)
             n == Len(word)
             r == thread[t].residue_bits
  <2>1. /\ m = CellBits - r /\ n \in 1 .. CellBits - 1 /\ r \in 1 .. CellBits
        /\ thread[t].i = 0 => r = CellBits
    BY <1>2, <1>4, <1>5, <1>7
  <2>2. Len(kept \o word) = m + n
    BY <1>6
  <2> HIDE DEF m, n, r
  <2>3. m + n \in 1 .. 2 * CellBits - 1 /\ (r = CellBits => m + n < CellBits)
    BY <1>0, <2>1
  <2> QED
    BY <2>1, <2>2, <2>3
<1>9. Len(word) \in Nat
  BY <1>0, <1>4
<1> QED
  BY <1>6, <1>8, <1>9

(* The state of a thread after it has read one codeword.                    *)
LEMMA ThreadDeflates ==
  ASSUME IInv, NEW t \in Chunk, Deflate(t)
  PROVE  /\ thread' = [thread EXCEPT ![t] = thread'[t]]
         /\ thread'[t] \in Threads /\ thread'[t].at = "run"
         /\ thread'[t].i = thread[t].i + 1 /\ thread'[t].ptr < thread'[t].i
         /\ thread'[t].residue_bits < CellBits =>
              Len(thread'[t].bufr) = CellBits - thread'[t].residue_bits
         /\ \/ buffer' = buffer
            \/ \E c \in Cell : buffer' = [buffer EXCEPT ![Base(t) + thread[t].ptr] = c]
<1> DEFINE me   == thread[t]
           word == buffer[Base(t) + me.i]
           kept == IF me.residue_bits = CellBits THEN <<>> ELSE me.bufr
           bits == kept \o word
           rest == SubSeq(bits, CellBits + 1, Len(bits))
           full == Len(bits) >= CellBits
<1>0. CellBits \in Nat \ {0}
  BY CodecAssumption
<1>1. /\ bits \in Seq(Bit) /\ Len(word) \in Nat
      /\ Len(bits) \in 1 .. 2 * CellBits - 1
      /\ me.i = 0 => Len(bits) < CellBits
  BY Appended
<1>2. /\ phase = "deflate" /\ me.at = "run" /\ me.i < Sublen
      /\ thread' = [thread EXCEPT ![t] =
           [at |-> "run", i |-> me.i + 1, ptr |-> IF full THEN me.ptr + 1 ELSE me.ptr,
            bufr |-> IF Len(bits) > CellBits THEN rest ELSE bits,
            residue_bits |-> Residue(Len(bits)),
            total_bits |-> me.total_bits + Len(word)]]
      /\ buffer' = IF full
           THEN [buffer EXCEPT ![Base(t) + me.ptr] = SubSeq(bits, 1, CellBits)]
           ELSE buffer
  BY DEF Deflate, More
<1>3. /\ me \in Threads /\ me.i \in Nat /\ me.ptr \in Nat /\ me.total_bits \in Nat
      /\ Sublen \in Nat /\ thread \in [Chunk -> Threads]
  <2>1. me \in Threads /\ Sublen \in Nat
    BY <1>2, ChunkBounds
  <2>2. thread \in [Chunk -> Threads]
    BY DEF IInv, TypeOK
  <2> QED
    BY <2>1, <2>2 DEF Threads
<1>4. IF me.i = 0 THEN me.ptr = 0 ELSE me.ptr < me.i
  BY <1>2 DEF IInv, Behind
<1> HIDE DEF me, word, kept
<1>5. Len(bits) > CellBits => rest \in Seq(Bit) /\ Len(rest) = Len(bits) - CellBits
  <2> HIDE DEF bits
  <2> SUFFICES ASSUME Len(bits) > CellBits
               PROVE  rest \in Seq(Bit) /\ Len(rest) = Len(bits) - CellBits
    OBVIOUS
  <2>1. \A j \in CellBits + 1 .. Len(bits) : bits[j] \in Bit
    BY <1>0, <1>1, ElementOfSeq
  <2>2. CellBits + 1 \in Int /\ Len(bits) \in Int
    BY <1>0, <1>1
  <2> QED
    BY <1>0, <1>1, <2>1, <2>2, SubSeqProperties
<1>6. full => SubSeq(bits, 1, CellBits) \in Cell
  <2> HIDE DEF bits
  <2> SUFFICES ASSUME Len(bits) >= CellBits PROVE SubSeq(bits, 1, CellBits) \in Cell
    OBVIOUS
  <2>1. \A j \in 1 .. CellBits : bits[j] \in Bit
    BY <1>0, <1>1, ElementOfSeq
  <2>2. SubSeq(bits, 1, CellBits) \in Seq(Bit) /\ Len(SubSeq(bits, 1, CellBits)) = CellBits
    BY <1>0, <2>1, SubSeqProperties
  <2> QED
    BY <2>2, LenProperties DEF Cell
<1> HIDE DEF bits
<1> DEFINE ptr  == IF full THEN me.ptr + 1 ELSE me.ptr
           bufr == IF Len(bits) > CellBits THEN rest ELSE bits
           res  == Residue(Len(bits))
<1>7. bufr \in Seq(Bit) /\ res \in 1 .. CellBits
      /\ (res < CellBits => Len(bufr) = CellBits - res)
  <2> HIDE DEF rest
  <2>1. CASE Len(bits) < CellBits
    BY <1>0, <1>1, <2>1
  <2>2. CASE Len(bits) = CellBits
    BY <1>0, <1>1, <2>2
  <2>3. CASE Len(bits) > CellBits
    BY <1>0, <1>1, <1>5, <2>3
  <2>4. Len(bits) < CellBits \/ Len(bits) = CellBits \/ Len(bits) > CellBits
    BY <1>0, <1>1
  <2> HIDE DEF bufr, res
  <2> QED
    BY <2>1, <2>2, <2>3, <2>4
<1>8. ptr \in 0 .. Sublen - 1 /\ ptr < me.i + 1
  <2>0. me.i < Sublen
    BY <1>2
  <2>1. CASE full
    <3>1. me.ptr < me.i
      BY <1>0, <1>1, <1>4, <2>1
    <3> QED
      BY <1>3, <2>0, <2>1, <3>1
  <2>2. CASE ~full
    BY <1>2, <1>3, <1>4, <2>2
  <2> HIDE DEF ptr, full
  <2> QED
    BY <2>1, <2>2
<1>9. /\ thread' = [thread EXCEPT ![t] = thread'[t]]
      /\ thread'[t] = [at |-> "run", i |-> me.i + 1, ptr |-> ptr, bufr |-> bufr,
                       residue_bits |-> res, total_bits |-> me.total_bits + Len(word)]
  BY <1>2, <1>3
<1>10. \/ buffer' = buffer
       \/ \E c \in Cell : buffer' = [buffer EXCEPT ![Base(t) + me.ptr] = c]
  BY <1>2, <1>6
<1> HIDE DEF ptr, bufr, res
<1>11. thread'[t] \in Threads
  <2>1. me.i + 1 \in Nat /\ me.total_bits + Len(word) \in Nat
    BY <1>1, <1>3
  <2> QED
    BY <1>7, <1>8, <1>9, <2>1 DEF Threads
<1> QED
  BY <1>7, <1>8, <1>9, <1>10, <1>11 DEF me

LEMMA SoundDeflate ==
  ASSUME IInv, NEW t \in Chunk, Deflate(t)
  PROVE  IInv'
<1>1. /\ phase = "deflate" /\ thread[t].at = "run"
      /\ thread[t].i < Sublen /\ Base(t) + thread[t].i < field.len
      /\ UNCHANGED <<phase, calls, field, book, metadata, h_par_entry, scan, archive>>
  BY DEF Deflate, More
<1>2. /\ \A s \in Chunk : Base(s) \in Nat /\ Sublen \in Nat
      /\ field.len \in Nat /\ thread[t].i \in Nat
      /\ thread \in [Chunk -> Threads] /\ buffer \in [Slot -> Code \cup Cell]
  <2>1. \A s \in Chunk : Base(s) \in Nat /\ Sublen \in Nat
    BY ChunksCover, CodecAssumption DEF Base, Chunk
  <2>2. field.len \in Nat /\ thread[t].i \in Nat
    <3>1. field.len \in 1 .. MaxLen /\ thread[t] \in Threads
      BY <1>1, ChunkBounds
    <3> QED
      BY <3>1, CodecAssumption DEF Threads
  <2> QED
    BY <2>1, <2>2 DEF IInv, TypeOK
<1>3. /\ thread'[t] \in Threads /\ thread'[t].at = "run"
      /\ thread'[t].i = thread[t].i + 1 /\ thread'[t].ptr < thread'[t].i
      /\ thread'[t].residue_bits < CellBits =>
           Len(thread'[t].bufr) = CellBits - thread'[t].residue_bits
      /\ \A s \in Chunk \ {t} : thread'[s] = thread[s]
  BY <1>2, ThreadDeflates
<1>4. TypeOK'
  <2>1. thread' \in [Chunk -> Threads] /\ buffer' \in [Slot -> Code \cup Cell]
    BY <1>2, ThreadDeflates
  <2> QED
    BY <1>1, <2>1 DEF IInv, TypeOK, metadata
<1>5. Behind'
  <2> SUFFICES ASSUME NEW s \in Chunk, thread'[s].at = "run"
               PROVE  /\ thread'[s].i <= Sublen /\ Base(s) < field.len
                      /\ Base(s) + thread'[s].i <= field.len
                      /\ IF thread'[s].i = 0
                           THEN thread'[s].ptr = 0 /\ thread'[s].residue_bits = CellBits
                           ELSE thread'[s].ptr < thread'[s].i
                      /\ thread'[s].residue_bits < CellBits =>
                           Len(thread'[s].bufr) = CellBits - thread'[s].residue_bits
    BY <1>1 DEF Behind
  <2>1. CASE s = t
    BY <1>1, <1>2, <1>3, <2>1
  <2>2. CASE s # t
    BY <1>1, <1>3, <2>2 DEF IInv, Behind
  <2> QED
    BY <2>1, <2>2
<1>6. UnreadIntact'
  <2> SUFFICES ASSUME NEW s \in Chunk, thread'[s].at = "run",
                      NEW k \in Base(s) + thread'[s].i .. Base(s) + Sublen - 1,
                      k < field.len
               PROVE  buffer'[k] = book[field.data[k]]
    BY <1>1 DEF UnreadIntact
  <2>1. /\ thread[s].at = "run" /\ thread[s].i \in Nat
        /\ k \in Base(s) + thread[s].i .. Base(s) + Sublen - 1
        /\ s = t => k > Base(t) + thread[t].i
    <3>1. thread[s].i \in Nat
      BY <1>2 DEF Threads
    <3>2. CASE s = t
      BY <1>1, <1>2, <1>3, <3>1, <3>2
    <3>3. CASE s # t
      BY <1>3, <3>1, <3>3
    <3> QED
      BY <3>2, <3>3
  <2>2. CASE buffer' = buffer
    BY <1>1, <2>1, <2>2 DEF IInv, UnreadIntact
  <2>3. CASE \E c \in Cell : buffer' = [buffer EXCEPT ![Base(t) + thread[t].ptr] = c]
    BY <1>1, <2>1, <2>3, WriteBehind
  <2> QED
    BY <2>2, <2>3, ThreadDeflates
<1> QED
  BY <1>4, <1>5, <1>6 DEF IInv

LEMMA SoundLastCell ==
  ASSUME IInv, NEW t \in Chunk, LastCell(t)
  PROVE  IInv'
<1>1. /\ phase = "deflate" /\ thread[t].at = "run" /\ ~More(t)
      /\ buffer' = [buffer EXCEPT ![Base(t) + thread[t].ptr] = Pad(thread[t].bufr)]
      /\ thread' = [thread EXCEPT ![t].at = "done"]
      /\ UNCHANGED <<phase, calls, field, book, par_entry, h_par_entry, scan, archive>>
      /\ par_nbit' = [par_nbit EXCEPT ![t] = thread[t].total_bits]
      /\ par_ncell' = [par_ncell EXCEPT ![t] = NCell(thread[t].total_bits)]
  BY DEF LastCell
<1>2. thread \in [Chunk -> Threads] /\ buffer \in [Slot -> Code \cup Cell]
  BY DEF IInv, TypeOK
<1>3. thread' \in [Chunk -> Threads] /\ Pad(thread[t].bufr) \in Cell
      /\ thread[t].total_bits \in Nat
  BY <1>1, <1>2, PadIsCell DEF Threads
<1>4. NCell(thread[t].total_bits) \in Nat
  <2>1. thread[t].total_bits + CellBits - 1 \in Nat /\ CellBits \in Nat \ {0}
    BY <1>3, CodecAssumption
  <2> QED
    BY <2>1
<1>5. TypeOK'
  BY <1>1, <1>2, <1>3, <1>4 DEF IInv, TypeOK
<1>6. \A s \in Chunk : thread'[s].at = "run" => s # t /\ thread'[s] = thread[s]
  BY <1>1, <1>2
<1>7. Behind'
  BY <1>1, <1>6 DEF IInv, Behind
<1>8. UnreadIntact'
  <2> SUFFICES ASSUME NEW s \in Chunk, thread'[s].at = "run",
                      NEW k \in Base(s) + thread'[s].i .. Base(s) + Sublen - 1,
                      k < field.len
               PROVE  buffer'[k] = book[field.data[k]]
    BY <1>1 DEF UnreadIntact
  <2>1. s # t /\ thread[s].at = "run"
        /\ k \in Base(s) + thread[s].i .. Base(s) + Sublen - 1
    BY <1>6
  <2> QED
    BY <1>1, <2>1, WriteBehind
<1> QED
  BY <1>5, <1>7, <1>8 DEF IInv

(* Outside phase 2 it is only the types that count.                         *)
LEMMA SoundElsewhere ==
  ASSUME IInv,
         \/ CopyBack \/ Scan \/ CopyEntries \/ Collect
         \/ Decode \/ Return \/ ClearBuffer
         \/ \E t \in Chunk : Concatenate(t) \/ Inflate(t)
  PROVE  IInv'
<1>1. TypeOK
  BY DEF IInv
<1>2. CASE CopyBack
  <2>1. ASSUME NEW k \in Chunk PROVE Shifted(k) \in Nat
    <3>1. CASE k = 0
      BY <1>1, <3>1 DEF TypeOK
    <3>2. CASE k # 0
      <4>1. k - 1 \in Chunk
        BY <3>2, CodecAssumption DEF Chunk
      <4> QED
        BY <1>1, <3>2, <4>1 DEF TypeOK
    <3> QED
      BY <3>1, <3>2
  <2>2. h_par_entry' \in [Chunk -> Nat]
    BY <1>2, <2>1 DEF CopyBack
  <2>3. 1 \in 0 .. ParDeg /\ 1 > 0
    BY CodecAssumption
  <2>4. TypeOK' /\ phase' # "deflate"
    BY <1>1, <1>2, <2>2, <2>3 DEF CopyBack, TypeOK, metadata
  <2> QED
    BY <2>4 DEF IInv, Behind, UnreadIntact
<1>3. CASE Scan
  <2>1. scan \in Nat /\ scan > 0 /\ scan < ParDeg /\ ParDeg \in Nat
    BY <1>1, <1>3, CodecAssumption DEF Scan, TypeOK
  <2>2. scan \in Chunk /\ scan - 1 \in Chunk /\ scan + 1 \in 0 .. ParDeg
    BY <2>1 DEF Chunk
  <2>3. h_par_entry[scan] + h_par_entry[scan - 1] \in Nat
    BY <1>1, <2>2 DEF TypeOK
  <2>4. h_par_entry' \in [Chunk -> Nat]
    BY <1>1, <1>3, <2>2, <2>3 DEF Scan, TypeOK
  <2>5. scan' \in 0 .. ParDeg /\ scan' > 0
    BY <1>3, <2>1, <2>2 DEF Scan
  <2>6. TypeOK' /\ phase' # "deflate"
    BY <1>1, <1>3, <2>4, <2>5 DEF Scan, TypeOK, metadata
  <2> QED
    BY <2>6 DEF IInv, Behind, UnreadIntact
<1>4. CASE CopyEntries
  <2>1. thread' \in [Chunk -> Threads]
    BY <1>4, BegunType DEF CopyEntries
  <2>2. TypeOK' /\ phase' # "deflate"
    BY <1>1, <1>4, <2>1 DEF CopyEntries, TypeOK
  <2> QED
    BY <2>2 DEF IInv, Behind, UnreadIntact
<1>5. CASE Collect
  <2>1. \A b \in Bit : [j \in 1 .. CellBits |-> b] \in Cell
    BY DEF Cell
  <2>2. buffer' \in [Slot -> Code \cup Cell]
    BY <1>5, <2>1 DEF Collect
  <2>3. TypeOK' /\ phase' # "deflate"
    BY <1>1, <1>5, <2>2 DEF Collect, TypeOK, metadata
  <2> QED
    BY <2>3 DEF IInv, Behind, UnreadIntact
<1>6. CASE Decode
  <2>1. thread' \in [Chunk -> Threads]
    BY <1>6, BegunType DEF Decode, Inflaters
  <2>2. TypeOK' /\ phase' # "deflate"
    BY <1>1, <1>6, <2>1 DEF Decode, Inflaters, TypeOK, metadata
  <2> QED
    BY <2>2 DEF IInv, Behind, UnreadIntact
<1>7. CASE Return
  <2>1. TypeOK' /\ phase' # "deflate"
    BY <1>1, <1>7 DEF Return, TypeOK, metadata
  <2> QED
    BY <2>1 DEF IInv, Behind, UnreadIntact
<1>8. ASSUME NEW t \in Chunk, Concatenate(t) PROVE IInv'
  <2>1. thread' \in [Chunk -> Threads]
    <3>1. thread \in [Chunk -> Threads] /\ thread[t] \in Threads
      BY <1>1 DEF TypeOK
    <3>2. [thread[t] EXCEPT !.at = "done"] \in Threads
      BY <3>1 DEF Threads
    <3>3. thread' = [thread EXCEPT ![t] = [thread[t] EXCEPT !.at = "done"]]
      BY <1>8 DEF Concatenate
    <3> QED
      BY <3>1, <3>2, <3>3
  <2>2. TypeOK' /\ phase' # "deflate"
    BY <1>1, <1>8, <2>1 DEF Concatenate, TypeOK, metadata
  <2> QED
    BY <2>2 DEF IInv, Behind, UnreadIntact
<1>9. ASSUME NEW t \in Chunk, Inflate(t) PROVE IInv'
  <2>1. PICK s \in Symbol :
          thread' = [thread EXCEPT ![t] = [thread[t] EXCEPT !.i = @ + 1,
            !.total_bits = thread[t].total_bits + Len(archive.book[s]),
            !.at = IF thread[t].total_bits + Len(archive.book[s]) < archive.nbit[t]
                     THEN "run" ELSE "done"]]
    BY <1>9 DEF Inflate
  <2> DEFINE more == thread[t].total_bits + Len(archive.book[s]) < archive.nbit[t]
             n == Len(archive.book[s])
  <2>2. phase = "inflate" /\ archive.book \in Books
    BY <1>1, <1>9 DEF Inflate, TypeOK
  <2>3. archive.book \in [Symbol -> Code]
    BY <2>2, CodecAssumption
  <2>4. archive.book[s] \in Code
    BY <2>3
  <2>5. n \in Nat
    BY <2>4, WordIsSeq
  <2>6. thread[t] \in Threads /\ thread \in [Chunk -> Threads]
    BY <1>1 DEF TypeOK
  <2> DEFINE th == [thread[t] EXCEPT !.i = @ + 1, !.total_bits = thread[t].total_bits + n,
                      !.at = IF more THEN "run" ELSE "done"]
  <2>7. thread' = [thread EXCEPT ![t] = th]
    BY <2>1
  <2> HIDE DEF more, n
  <2>8. th \in Threads
    <3>1. thread[t].i + 1 \in Nat /\ thread[t].total_bits + n \in Nat
      <4>1. thread[t].i \in Nat /\ thread[t].total_bits \in Nat
        BY <2>6 DEF Threads
      <4> QED
        BY <2>5, <4>1
    <3>2. th = [thread[t] EXCEPT !.i = thread[t].i + 1,
                  !.total_bits = thread[t].total_bits + n,
                  !.at = IF more THEN "run" ELSE "done"]
      OBVIOUS
    <3> HIDE DEF th
    <3>3. CASE more
      <4>1. th = [thread[t] EXCEPT !.i = thread[t].i + 1,
                    !.total_bits = thread[t].total_bits + n, !.at = "run"]
        BY <3>2, <3>3
      <4> QED
        BY <2>6, <3>1, <4>1 DEF Threads
    <3>4. CASE ~more
      <4>1. th = [thread[t] EXCEPT !.i = thread[t].i + 1,
                    !.total_bits = thread[t].total_bits + n, !.at = "done"]
        BY <3>2, <3>4
      <4> QED
        BY <2>6, <3>1, <4>1 DEF Threads
    <3> QED
      BY <3>3, <3>4
  <2> HIDE DEF th
  <2>9. thread' \in [Chunk -> Threads]
    BY <2>6, <2>7, <2>8
  <2>10. TypeOK' /\ phase' # "deflate"
    BY <1>1, <1>9, <2>9 DEF Inflate, TypeOK, metadata
  <2> QED
    BY <2>10 DEF IInv, Behind, UnreadIntact
<1>10. CASE ClearBuffer
  <2>1. buffer' \in [Slot -> Code \cup Cell]
    BY <1>10, PadIsCell, EmptySeq DEF ClearBuffer
  <2>2. TypeOK' /\ phase' # "deflate"
    BY <1>1, <1>10, <2>1 DEF ClearBuffer, TypeOK
  <2> QED
    BY <2>2 DEF IInv, Behind, UnreadIntact
<1> QED
  BY <1>2, <1>3, <1>4, <1>5, <1>6, <1>7, <1>8, <1>9, <1>10

LEMMA SoundStutter ==
  ASSUME IInv, UNCHANGED vars
  PROVE  IInv'
BY DEF IInv, TypeOK, Behind, UnreadIntact, vars, metadata

LEMMA Sound == Spec => []IInv
<1>1. ASSUME IInv, [Next]_vars PROVE IInv'
  <2>1. CASE \E f \in Fields, b \in Books : Encode(f, b)
    BY <1>1, <2>1, SoundEncode
  <2>2. CASE \E t \in Chunk : Deflate(t)
    BY <1>1, <2>2, SoundDeflate
  <2>3. CASE \E t \in Chunk : LastCell(t)
    BY <1>1, <2>3, SoundLastCell
  <2>4. CASE \/ CopyBack \/ Scan \/ CopyEntries \/ Collect
             \/ Decode \/ Return \/ ClearBuffer
             \/ \E t \in Chunk : Concatenate(t) \/ Inflate(t)
    BY <1>1, <2>4, SoundElsewhere
  <2>5. CASE UNCHANGED vars
    BY <1>1, <2>5, SoundStutter
  <2> QED
    BY <1>1, <2>1, <2>2, <2>3, <2>4, <2>5 DEF Next, Step, EncodeStep, DecodeStep, Call
<1> QED
  BY <1>1, SoundStart, PTL DEF Spec

(* The codec is type correct: in particular no thread that deflates writes a *)
(* cell beyond its chunk, or shifts by a width it may not.                  *)
THEOREM TypeCorrect == Spec => []TypeOK
<1>1. IInv => TypeOK
  BY DEF IInv
<1> QED
  BY <1>1, Sound, PTL

(* Deflating in place, with all chunks' threads running in any order, never *)
(* overwrites a codeword that is still to be read.                          *)
THEOREM InPlace == Spec => []UnreadIntact
<1>1. IInv => UnreadIntact
  BY DEF IInv
<1> QED
  BY <1>1, Sound, PTL
-----------------------------------------------------------------------------
(* Where pinned memory happens to be cleared, the chunks' entries are right. *)
ScannedInv == TypeOK /\ Scanned /\ ChunksTile

LEMMA ScannedStart ==
  ASSUME HostJunk = {0}, Init
  PROVE  Scanned /\ ChunksTile
<1>1. 0 \in Chunk
  BY CodecAssumption DEF Chunk
<1> QED
  BY <1>1 DEF Init, Scanned, ChunksTile

LEMMA ScannedCopyBack ==
  ASSUME TypeOK, Scanned, CopyBack
  PROVE  Scanned'
<1>1. 0 \in Chunk
  BY CodecAssumption DEF Chunk
<1>2. h_par_entry'[0] = 0 /\ scan' = 1 /\ par_ncell' = par_ncell
  BY <1>1 DEF CopyBack, Scanned, metadata
<1>3. ASSUME NEW k \in Chunk \ {0}
      PROVE  h_par_entry'[k] = (IF k < 1 THEN h_par_entry'[k - 1] ELSE 0)
                                 + par_ncell[k - 1]
  <2>1. ~(k < 1) /\ k - 1 \in Chunk
    BY CodecAssumption DEF Chunk
  <2>2. par_ncell[k - 1] \in Nat
    BY <2>1 DEF TypeOK
  <2>3. h_par_entry'[k] = par_ncell[k - 1]
    BY DEF CopyBack
  <2> QED
    BY <2>1, <2>2, <2>3
<1> QED
  BY <1>2, <1>3 DEF Scanned

(* An entry becomes a sum when the one before it has.                       *)
LEMMA ScannedScan ==
  ASSUME TypeOK, Scanned, Scan
  PROVE  Scanned'
<1>1. /\ scan \in Nat /\ scan > 0 /\ scan < ParDeg /\ ParDeg \in Nat
      /\ phase = "scan" /\ phase' = "scan" /\ scan' = scan + 1
      /\ par_ncell' = par_ncell
      /\ h_par_entry \in [Chunk -> Nat] /\ par_ncell \in [Chunk -> Nat]
  BY CodecAssumption DEF Scan, TypeOK, metadata
<1>2. scan \in Chunk /\ scan - 1 \in Chunk /\ scan # 0 /\ scan - 1 # scan /\ 0 \in Chunk
  BY <1>1 DEF Chunk
<1>3. /\ h_par_entry'[scan] = h_par_entry[scan] + h_par_entry[scan - 1]
      /\ \A k \in Chunk \ {scan} : h_par_entry'[k] = h_par_entry[k]
  BY <1>1, <1>2 DEF Scan
<1>4. ASSUME NEW k \in Chunk \ {0}
      PROVE  h_par_entry'[k] = (IF k < scan + 1 THEN h_par_entry'[k - 1] ELSE 0)
                                 + par_ncell[k - 1]
  <2>1. k \in Nat /\ k - 1 \in Chunk /\ k - 1 # k
    BY CodecAssumption DEF Chunk
  <2>2. h_par_entry[k] = (IF k < scan THEN h_par_entry[k - 1] ELSE 0) + par_ncell[k - 1]
    BY <1>1 DEF Scanned
  <2>3. par_ncell[k - 1] \in Nat /\ h_par_entry[k - 1] \in Nat
    BY <1>1, <2>1
  <2>4. CASE k < scan
    BY <1>1, <1>3, <2>1, <2>2, <2>4
  <2>5. CASE k = scan
    <3>1. h_par_entry[k] = par_ncell[k - 1]
      BY <1>1, <2>2, <2>3, <2>5
    <3>2. h_par_entry'[k - 1] = h_par_entry[k - 1]
      BY <1>3, <2>1, <2>5
    <3> QED
      BY <1>1, <1>3, <2>3, <2>5, <3>1, <3>2
  <2>6. CASE k > scan
    BY <1>1, <1>3, <2>1, <2>2, <2>6
  <2> QED
    BY <1>1, <2>1, <2>4, <2>5, <2>6
<1> QED
  BY <1>1, <1>2, <1>3, <1>4 DEF Scanned

(* When all are, they are what the blocks concatenate by.                   *)
LEMMA TiledCopyEntries ==
  ASSUME TypeOK, Scanned, CopyEntries
  PROVE  ChunksTile'
<1>1. /\ par_entry' = h_par_entry /\ par_ncell' = par_ncell
      /\ scan \in Nat /\ scan >= ParDeg /\ phase = "scan"
  BY DEF CopyEntries, TypeOK
<1>2. ASSUME NEW k \in Chunk \ {0}
      PROVE  par_entry'[k] = par_entry'[k - 1] + par_ncell'[k - 1]
  <2>1. k < scan
    BY <1>1, CodecAssumption DEF Chunk
  <2> QED
    BY <1>1, <2>1 DEF Scanned
<1> QED
  BY <1>1, <1>2 DEF Scanned, ChunksTile

(* Nothing else touches what the two are about.                             *)
LEMMA ScannedSame ==
  ASSUME Scanned, ChunksTile, UNCHANGED <<phase, par_ncell, par_entry, h_par_entry, scan>>
  PROVE  Scanned' /\ ChunksTile'
BY DEF Scanned, ChunksTile

LEMMA ScannedStep ==
  ASSUME ScannedInv, [Next]_vars
  PROVE  Scanned' /\ ChunksTile'
<1>1. TypeOK /\ Scanned /\ ChunksTile
  BY DEF ScannedInv
<1>2. CASE CopyBack
  BY <1>1, <1>2, ScannedCopyBack DEF CopyBack, ChunksTile
<1>3. CASE Scan
  BY <1>1, <1>3, ScannedScan DEF Scan, ChunksTile
<1>4. CASE CopyEntries
  BY <1>1, <1>4, TiledCopyEntries DEF CopyEntries, Scanned
<1>5. CASE \E t \in Chunk : Concatenate(t) \/ Deflate(t) \/ Inflate(t)
  <2>1. ASSUME NEW t \in Chunk, Concatenate(t)
        PROVE  UNCHANGED <<phase, par_ncell, par_entry, h_par_entry, scan>>
    BY <2>1, Zenon DEF Concatenate, metadata
  <2>2. ASSUME NEW t \in Chunk, Deflate(t)
        PROVE  UNCHANGED <<phase, par_ncell, par_entry, h_par_entry, scan>>
    BY <2>2, Zenon DEF Deflate, metadata
  <2>3. ASSUME NEW t \in Chunk, Inflate(t)
        PROVE  UNCHANGED <<phase, par_ncell, par_entry, h_par_entry, scan>>
    BY <2>3, Zenon DEF Inflate, metadata
  <2> QED
    BY <1>1, <1>5, <2>1, <2>2, <2>3, ScannedSame
<1>6. CASE \E t \in Chunk : LastCell(t)
  <2>1. phase' = "deflate" /\ h_par_entry' = h_par_entry
    BY <1>6, Zenon DEF LastCell
  <2> QED
    BY <1>1, <2>1 DEF Scanned, ChunksTile
<1>7. CASE Collect \/ Return \/ Call
  BY <1>1, <1>7 DEF Collect, Return, Call, Decode, Encode, ClearBuffer, Scanned, ChunksTile, metadata
<1>8. CASE UNCHANGED vars
  BY <1>1, <1>8 DEF vars, metadata, Scanned, ChunksTile
<1> QED
  BY <1>2, <1>3, <1>4, <1>5, <1>6, <1>7, <1>8 DEF Next, Step, EncodeStep, DecodeStep

(* If pinned memory is cleared when it is allocated, which init() leaves to *)
(* chance, the chunks' cells tile the bitstream in every encoding.          *)
THEOREM Tiles ==
  ASSUME HostJunk = {0}
  PROVE  Spec => []ChunksTile
<1>1. Init => ScannedInv
  BY SoundStart, ScannedStart DEF ScannedInv, IInv
<1>2. ScannedInv /\ TypeOK' /\ [Next]_vars => ScannedInv'
  BY ScannedStep DEF ScannedInv
<1>3. ScannedInv => ChunksTile
  BY DEF ScannedInv
<1> QED
  BY <1>1, <1>2, <1>3, TypeCorrect, PTL DEF Spec

-----------------------------------------------------------------------------
(* That the coarse-grained codec gives back what it was given: the bits of *)
(* a chunk followed from the threads that deflate it, through the cells in *)
(* the buffer and in the bitstream, to the archive and to the threads that *)
(* inflate it.                                                             *)

-----------------------------------------------------------------------------
(* What a chunk's bits are.                                                 *)

\* The quant-codes of chunk t of a field, if it begins within the field.
Words(f, t) == IF Base(t) + Sublen <= f.len THEN Sublen ELSE f.len - Base(t)

\* The codeword of quant-code k of a chunk.
WordOf(f, b, t, k) == b[f.data[Base(t) + k]]

\* B is the codewords of the first n quant-codes of chunk t one after the other; that
\* of quant-code k, w, begins at bit pos[k].
Lies(B, pos, w, k, n) ==
  /\ pos[k + 1] = pos[k] + Len(w) /\ pos[k + 1] <= pos[n]
  /\ \A j \in 1 .. Len(w) : B[pos[k] + j - 1] = w[j]

Spelled(B, pos, f, b, t, n) ==
  /\ pos \in [0 .. n -> Nat] /\ pos[0] = 0
  /\ B \in [0 .. pos[n] - 1 -> Bit]
  /\ \A k \in 0 .. n - 1 : Lies(B, pos, WordOf(f, b, t, k), k, n)

\* Bit m of cells that begin at a cell.
BitOf(cells, at, m) == cells[at + m \div CellBits][(m % CellBits) + 1]

\* The bits of the cell that a thread is filling.
Kept(me) == IF me.residue_bits = CellBits THEN <<>> ELSE me.bufr

\* The first N bits of B are in ptr cells of the buffer, the others in "bits".
Streams(B, N, cells, at, ptr, bits) ==
  /\ N = ptr * CellBits + Len(bits)
  /\ \A m \in 0 .. N - 1 :
       B[m] = IF m < ptr * CellBits THEN BitOf(cells, at, m) ELSE bits[m - ptr * CellBits + 1]

\* C goes on where the N bits of B end, with those of w.
Extends(C, B, N, w) ==
  /\ \A m \in 0 .. N - 1 : C[m] = B[m]
  /\ \A j \in 1 .. Len(w) : C[N + j - 1] = w[j]

\* What is left of "bits" when a cell has been filled.
Left(rest, bits) ==
  /\ rest \in Seq(Bit) /\ Len(bits) = CellBits + Len(rest)
  /\ \A j \in 1 .. Len(rest) : rest[j] = bits[CellBits + j]

SameCells(after, before, at, n) == \A k \in at .. at + n - 1 : after[k] = before[k]
SameBits(cell, bits, n)         == \A j \in 1 .. n : cell[j] = bits[j]

\* The cells of the buffer, or of the bitstream, before those of chunk t.
Clip(t) == IF Base(t) < MaxLen THEN Base(t) ELSE MaxLen
-----------------------------------------------------------------------------
(* The inductive invariant behind RoundTrip.                                *)

\* A thread has deflated the words it has read.
Partial(B, pos, f, b, t, me, cells) ==
  /\ Spelled(B, pos, f, b, t, me.i)
  /\ me.total_bits = pos[me.i]
  /\ Streams(B, me.total_bits, cells, Base(t), me.ptr, Kept(me))

\* A chunk is in the buffer's cells.
Whole(B, pos, f, b, t, nbit, ncell, cells) ==
  /\ Spelled(B, pos, f, b, t, Words(f, t))
  /\ nbit = pos[Words(f, t)] /\ ncell = NCell(nbit)
  /\ \A m \in 0 .. nbit - 1 : m \div CellBits < ncell /\ B[m] = BitOf(cells, Base(t), m)

Deflating(t) == \E B, pos : Partial(B, pos, field, book, t, thread[t], buffer)
Deflated(t)  ==
  \E B, pos : Whole(B, pos, field, book, t, par_nbit[t], par_ncell[t], buffer)

Carried ==
  phase \in {"deflate", "scan", "concatenate"} =>
    \A t \in Chunk : Base(t) < field.len =>
      IF phase = "deflate" /\ thread[t].at = "run" THEN Deflating(t) ELSE Deflated(t)

\* No chunk, not one of an earlier field either, has more cells than words.
Room == \A t \in Chunk : par_ncell[t] <= Clip(t + 1) - Clip(t)

\* The chunks' places in the bitstream, of those that are known: in order, apart and
\* within it.
Apart(entry, n) ==
  \A k \in 0 .. n - 1 :
    /\ entry[k] <= Clip(k)
    /\ \A j \in 0 .. k - 1 : entry[j] + par_ncell[j] <= entry[k]

Laid == /\ phase = "scan" => Apart(h_par_entry, scan)
        /\ phase = "concatenate" => Apart(par_entry, ParDeg)

Copied ==
  /\ DOMAIN bitstream = 0 .. MaxLen - 1
  /\ phase = "concatenate" =>
       \A t \in Chunk : thread[t].at = "done" =>
         \A c \in 0 .. par_ncell[t] - 1 : bitstream[par_entry[t] + c] = buffer[Base(t) + c]

\* B is chunk t in an archive.
InArchive(B, pos, a, t) ==
  /\ Spelled(B, pos, a.of, a.book, t, Words(a.of, t))
  /\ a.nbit[t] = pos[Words(a.of, t)]
  /\ \A m \in 0 .. a.nbit[t] - 1 :
       a.entry[t] + m \div CellBits \in DOMAIN a.cells /\ B[m] = BitOf(a.cells, a.entry[t], m)

Archived ==
  archive # None =>
    /\ archive.of \in Fields /\ archive.book \in Books
    /\ \A t \in Chunk : Base(t) < archive.of.len => \E B, pos : InArchive(B, pos, archive, t)

\* A thread has written the quant-codes whose codewords it has read, and stands before
\* the next one.
Reading(pos, f, t, me, o) ==
  /\ me.i \in 0 .. Words(f, t)
  /\ \A k \in 0 .. me.i - 1 : o[Base(t) + k] = f.data[Base(t) + k]
  /\ IF me.at = "run" THEN me.i < Words(f, t) /\ me.total_bits = pos[me.i]
                      ELSE me.i = Words(f, t)

Inflating(t) ==
  \E B, pos : InArchive(B, pos, archive, t) /\ Reading(pos, archive.of, t, thread[t], out)

Inflated ==
  phase = "inflate" =>
    /\ out \in [0 .. Base(ParDeg) - 1 -> Symbol]
    /\ \A t \in Chunk : Base(t) < archive.of.len => Inflating(t)

TripInv == Carried /\ Room /\ Laid /\ Copied /\ Archived /\ Inflated
-----------------------------------------------------------------------------
(* Chunks, words and cells.                                                 *)

LEMMA ChunkPlaces ==
  ASSUME NEW t \in Chunk
  PROVE  /\ t \in Nat /\ Base(t) \in Nat /\ Sublen \in Nat \ {0} /\ MaxLen \in Nat \ {0}
         /\ CellBits \in Nat \ {0} /\ ParDeg \in Nat \ {0}
         /\ Base(t) + Sublen <= Base(ParDeg) /\ Base(ParDeg) \in Nat
         /\ MaxLen <= Base(ParDeg)
         /\ Base(t + 1) = Base(t) + Sublen
<1>1. t \in Nat /\ t < ParDeg /\ ParDeg \in Nat \ {0} /\ Sublen \in Nat \ {0}
  BY ChunksCover, CodecAssumption DEF Chunk
<1>2. Base(t) + Sublen <= Base(ParDeg) /\ Base(t) \in Nat /\ Base(ParDeg) \in Nat
  BY <1>1, ProductOrder DEF Base
<1>3. Base(t + 1) = Base(t) + Sublen
  BY <1>1 DEF Base
<1> QED
  BY <1>1, <1>2, <1>3, ChunksCover, CodecAssumption

LEMMA WordsBound ==
  ASSUME NEW f \in Fields, NEW t \in Chunk, Base(t) < f.len
  PROVE  /\ Words(f, t) \in 1 .. Sublen /\ Base(t) + Words(f, t) <= f.len
         /\ f.len \in 1 .. MaxLen
         /\ Words(f, t) <= Clip(t + 1) - Clip(t)
         /\ \A k \in 0 .. Sublen - 1 : Base(t) + k < f.len => k < Words(f, t)
<1>1. f.len \in 1 .. MaxLen
  BY CodecAssumption
<1> QED
  BY <1>1, ChunkPlaces DEF Words, Clip

(* The parts of what is spelled.                                            *)
LEMMA SpelledType ==
  ASSUME NEW f, NEW b, NEW t, NEW n \in Nat, NEW B, NEW pos, Spelled(B, pos, f, b, t, n)
  PROVE  /\ pos \in [0 .. n -> Nat] /\ pos[0] = 0 /\ pos[n] \in Nat
         /\ B \in [0 .. pos[n] - 1 -> Bit]
<1>1. pos \in [0 .. n -> Nat] /\ n \in 0 .. n
  BY DEF Spelled
<1> QED
  BY <1>1 DEF Spelled

LEMMA SpelledWord ==
  ASSUME NEW f, NEW b, NEW t, NEW n \in Nat, NEW B, NEW pos, Spelled(B, pos, f, b, t, n),
         NEW k \in 0 .. n - 1
  PROVE  /\ k \in 0 .. n /\ k + 1 \in 0 .. n
         /\ pos[k] \in Nat /\ pos[k + 1] \in Nat
         /\ Lies(B, pos, WordOf(f, b, t, k), k, n)
<1>1. pos \in [0 .. n -> Nat]
  BY DEF Spelled
<1>2. k \in 0 .. n /\ k + 1 \in 0 .. n
  OBVIOUS
<1> QED
  BY <1>1, <1>2 DEF Spelled

(* A codeword of the field.                                                 *)
LEMMA WordBits ==
  ASSUME NEW f \in Fields, NEW b \in Books, NEW t \in Chunk, NEW k \in Nat,
         Base(t) + k < f.len
  PROVE  /\ WordOf(f, b, t, k) \in Seq(Bit) /\ Len(WordOf(f, b, t, k)) \in Nat \ {0}
         /\ Len(WordOf(f, b, t, k)) < CellBits
         /\ \A j \in 1 .. Len(WordOf(f, b, t, k)) : WordOf(f, b, t, k)[j] \in Bit
         /\ f.data[Base(t) + k] \in Symbol
<1>1. Base(t) + k \in 0 .. f.len - 1
  BY ChunkPlaces, CodecAssumption
<1>2. WordOf(f, b, t, k) \in Code
  BY <1>1, Booked DEF WordOf
<1>3. f.data[Base(t) + k] \in Symbol
  BY <1>1, CodecAssumption
<1> QED
  BY <1>2, <1>3, WordIsSeq, ElementOfSeq, CodecAssumption

(* One more codeword.                                                       *)
LEMMA SpelledMore ==
  ASSUME NEW f \in Fields, NEW b \in Books, NEW t \in Chunk, NEW n \in Nat,
         Base(t) + n < f.len, NEW B, NEW pos, Spelled(B, pos, f, b, t, n)
  PROVE  \E C, at :
           /\ Spelled(C, at, f, b, t, n + 1)
           /\ at[n + 1] = pos[n] + Len(WordOf(f, b, t, n))
           /\ Extends(C, B, pos[n], WordOf(f, b, t, n))
<1>1. /\ pos \in [0 .. n -> Nat] /\ pos[0] = 0 /\ pos[n] \in Nat
      /\ B \in [0 .. pos[n] - 1 -> Bit]
  BY SpelledType
<1> DEFINE w  == WordOf(f, b, t, n)
           N  == pos[n]
           L  == Len(w)
           C  == [m \in 0 .. N + L - 1 |-> IF m < N THEN B[m] ELSE w[m - N + 1]]
           at == [k \in 0 .. n + 1 |-> IF k <= n THEN pos[k] ELSE N + L]
<1>2. L \in Nat /\ L > 0 /\ \A j \in 1 .. L : w[j] \in Bit
  BY WordBits
<1>3. /\ C = [m \in 0 .. N + L - 1 |-> IF m < N THEN B[m] ELSE w[m - N + 1]]
      /\ at = [k \in 0 .. n + 1 |-> IF k <= n THEN pos[k] ELSE N + L]
  OBVIOUS
<1>4. w = WordOf(f, b, t, n) /\ L = Len(w)
  OBVIOUS
<1> HIDE DEF w, N, L, C, at
<1>6. /\ \A k \in 0 .. n : at[k] = pos[k]
      /\ at[n + 1] = N + L /\ at \in [0 .. n + 1 -> Nat]
  BY <1>1, <1>2, <1>3 DEF N
<1>7. \A m \in 0 .. N - 1 : C[m] = B[m]
  BY <1>1, <1>2, <1>3 DEF N
<1>8. \A j \in 1 .. L : C[N + j - 1] = w[j]
  BY <1>1, <1>2, <1>3 DEF N
<1>9. C \in [0 .. N + L - 1 -> Bit]
  <2>1. ASSUME NEW m \in 0 .. N + L - 1
        PROVE  (IF m < N THEN B[m] ELSE w[m - N + 1]) \in Bit
    <3>1. CASE m < N
      <4>1. m \in 0 .. N - 1
        BY <1>1, <1>2, <3>1 DEF N
      <4> QED
        BY <1>1, <3>1, <4>1 DEF N
    <3>2. CASE ~(m < N)
      <4>1. m - N + 1 \in 1 .. L
        BY <1>1, <1>2, <3>2 DEF N
      <4> QED
        BY <1>2, <3>2, <4>1
    <3> QED
      BY <3>1, <3>2
  <2> QED
    BY <1>3, <2>1
<1>10. ASSUME NEW k \in 0 .. n
       PROVE  Lies(C, at, WordOf(f, b, t, k), k, n + 1)
  <2>1. CASE k = n
    <3>1. WordOf(f, b, t, k) = w /\ at[k] = N /\ at[k + 1] = N + L
          /\ at[n + 1] = N + L
      BY <1>4, <1>6, <2>1 DEF N
    <3> QED
      BY <1>1, <1>2, <1>4, <1>8, <3>1 DEF N, Lies
  <2>2. CASE k < n
    <3>1. k \in 0 .. n - 1
      BY <2>2
    <3>2. /\ k \in 0 .. n /\ k + 1 \in 0 .. n
          /\ pos[k] \in Nat /\ pos[k + 1] \in Nat
          /\ Lies(B, pos, WordOf(f, b, t, k), k, n)
      BY <3>1, SpelledWord
    <3>3. at[k] = pos[k] /\ at[k + 1] = pos[k + 1]
      BY <1>6, <3>2
    <3>4. Len(WordOf(f, b, t, k)) \in Nat
      <4>1. k \in Nat /\ Base(t) + k < f.len
        BY ChunkPlaces, CodecAssumption
      <4> QED
        BY <4>1, WordBits
    <3> DEFINE v == WordOf(f, b, t, k)
    <3>5. Lies(B, pos, v, k, n) /\ Len(v) \in Nat
      BY <3>2, <3>4
    <3> SUFFICES Lies(C, at, v, k, n + 1)
      OBVIOUS
    <3> HIDE DEF v
    <3>6. \A j \in 1 .. Len(v) : pos[k] + j - 1 \in 0 .. N - 1
      BY <1>1, <3>2, <3>5 DEF N, Lies
    <3>7. \A j \in 1 .. Len(v) : C[at[k] + j - 1] = v[j]
      BY <1>7, <3>3, <3>5, <3>6 DEF Lies
    <3>8. at[k + 1] = at[k] + Len(v) /\ at[k + 1] <= at[n + 1]
      BY <1>1, <1>2, <1>6, <3>2, <3>3, <3>5 DEF N, Lies
    <3> QED
      BY <3>7, <3>8 DEF Lies
  <2> QED
    BY <2>1, <2>2
<1>11. /\ at \in [0 .. n + 1 -> Nat] /\ at[0] = 0
       /\ C \in [0 .. at[n + 1] - 1 -> Bit]
  <2>1. 0 .. at[n + 1] - 1 = 0 .. N + L - 1
    BY <1>1, <1>2, <1>6 DEF N
  <2>2. C \in [0 .. at[n + 1] - 1 -> Bit]
    BY <1>9, <2>1
  <2>3. at[0] = 0
    BY <1>1, <1>6
  <2> QED
    BY <1>6, <2>2, <2>3
<1>12. \A k \in 0 .. n + 1 - 1 : Lies(C, at, WordOf(f, b, t, k), k, n + 1)
  <2>1. 0 .. n + 1 - 1 = 0 .. n
    OBVIOUS
  <2> QED
    BY <1>10, <2>1
<1>13. Spelled(C, at, f, b, t, n + 1)
  BY <1>11, <1>12 DEF Spelled
<1>14. /\ at[n + 1] = pos[n] + Len(WordOf(f, b, t, n))
       /\ Extends(C, B, pos[n], WordOf(f, b, t, n))
  BY <1>4, <1>6, <1>7, <1>8 DEF N, Extends
<1> QED
  BY <1>13, <1>14, Zenon

-----------------------------------------------------------------------------
(* Bits and cells.                                                          *)

LEMMA BitPlace ==
  ASSUME NEW m \in Nat, NEW q \in Nat
  PROVE  /\ m \div CellBits \in Nat /\ (m % CellBits) + 1 \in 1 .. CellBits
         /\ q * CellBits \in Nat /\ (q + 1) * CellBits = q * CellBits + CellBits
         /\ m < q * CellBits => m \div CellBits < q
         /\ m >= q * CellBits /\ m < q * CellBits + CellBits =>
              m \div CellBits = q /\ m % CellBits = m - q * CellBits
<1>0. CellBits \in Nat \ {0}
  BY CodecAssumption
<1> DEFINE d == m \div CellBits
           r == m % CellBits
<1>1. d \in Nat /\ r \in 0 .. CellBits - 1 /\ m = d * CellBits + r
  BY <1>0, Division
<1>2. (q + 1) * CellBits = q * CellBits + CellBits /\ q * CellBits \in Nat
  BY <1>0
<1>3. ASSUME m >= q * CellBits, m < q * CellBits + CellBits PROVE d = q /\ r = m - q * CellBits
  <2> DEFINE e == m - q * CellBits
  <2>1. e \in 0 .. CellBits - 1 /\ m = q * CellBits + e
    BY <1>0, <1>2, <1>3
  <2> HIDE DEF e
  <2>2. (q * CellBits + e) \div CellBits = q /\ (q * CellBits + e) % CellBits = e
    BY <1>0, <2>1, DivisionUnique
  <2> QED
    BY <2>1, <2>2 DEF e
<1> HIDE DEF d, r
<1>4. ASSUME m < q * CellBits PROVE d < q
  <2>1. d < q \/ q <= d
    BY <1>1
  <2>2. CASE q <= d
    <3>1. q * CellBits <= d * CellBits
      BY <1>0, <1>1, <2>2, ProductOrder
    <3> QED
      BY <1>0, <1>1, <1>2, <1>4, <3>1, ProductOrder
  <2> QED
    BY <2>1, <2>2
<1> QED
  BY <1>0, <1>1, <1>2, <1>3, <1>4 DEF d, r

(* How many cells the bits of q full cells and a partial one take.          *)
LEMMA CellCount ==
  ASSUME NEW q \in Nat, NEW r \in 0 .. CellBits - 1, NEW N, N = q * CellBits + r
  PROVE  /\ NCell(N) \in Nat /\ NCell(N) <= q + 1
         /\ \A m \in 0 .. N - 1 : m \div CellBits < NCell(N)
<1>0. CellBits \in Nat \ {0} /\ q * CellBits \in Nat
  BY CodecAssumption, ProductOrder
<1>1. CASE r = 0
  <2>1. NCell(N) = q
    <3>1. CellBits - 1 \in 0 .. CellBits - 1 /\ N + CellBits - 1 = q * CellBits + (CellBits - 1)
      BY <1>0, <1>1
    <3> QED
      BY <1>0, <3>1, DivisionUnique DEF NCell
  <2>2. \A m \in 0 .. N - 1 : m \in Nat /\ m < q * CellBits
    BY <1>0, <1>1
  <2>3. \A m \in 0 .. N - 1 : m \div CellBits < q
    BY <2>2, BitPlace
  <2> QED
    BY <2>1, <2>3
<1>2. CASE r > 0
  <2>1. NCell(N) = q + 1
    <3>1. r - 1 \in 0 .. CellBits - 1 /\ N + CellBits - 1 = (q + 1) * CellBits + (r - 1)
      BY <1>0, <1>2, BitPlace
    <3> QED
      BY <1>0, <3>1, DivisionUnique DEF NCell
  <2>2. \A m \in 0 .. N - 1 : m \in Nat /\ m < (q + 1) * CellBits
    BY <1>0, <1>2, BitPlace
  <2>3. q + 1 \in Nat
    OBVIOUS
  <2>4. \A m \in 0 .. N - 1 : m \div CellBits < q + 1
    BY <2>2, <2>3, BitPlace
  <2> QED
    BY <2>1, <2>3, <2>4
<1> QED
  BY <1>0, <1>1, <1>2

(* Codewords are appended to what the current cell holds.                   *)
LEMMA StreamsAppend ==
  ASSUME NEW B, NEW N \in Nat, NEW cells, NEW at \in Nat, NEW ptr \in Nat,
         NEW kept \in Seq(Bit), NEW w \in Seq(Bit), NEW C,
         Streams(B, N, cells, at, ptr, kept),
         Extends(C, B, N, w)
  PROVE  Streams(C, N + Len(w), cells, at, ptr, kept \o w)
<1> DEFINE z == ptr * CellBits
           bits == kept \o w
<1>1. z \in Nat
  BY BitPlace
<1>2. /\ Len(bits) = Len(kept) + Len(w) /\ Len(kept) \in Nat /\ Len(w) \in Nat
      /\ \A j \in 1 .. Len(kept) + Len(w) :
           bits[j] = IF j <= Len(kept) THEN kept[j] ELSE w[j - Len(kept)]
  OBVIOUS
<1>3. /\ N = z + Len(kept)
      /\ \A m \in 0 .. N - 1 : B[m] = IF m < z THEN BitOf(cells, at, m) ELSE kept[m - z + 1]
  BY DEF Streams
<1> HIDE DEF z, bits
<1>4. ASSUME NEW m \in 0 .. N + Len(w) - 1
      PROVE  C[m] = IF m < z THEN BitOf(cells, at, m) ELSE bits[m - z + 1]
  <2>1. CASE m < N
    <3>1. m \in 0 .. N - 1 /\ C[m] = B[m]
      BY <1>2, <2>1 DEF Extends
    <3>2. ~(m < z) => m - z + 1 \in 1 .. Len(kept)
      BY <1>1, <1>2, <1>3, <2>1
    <3> QED
      BY <1>2, <1>3, <3>1, <3>2
  <2>2. CASE ~(m < N)
    <3>1. m - N + 1 \in 1 .. Len(w) /\ N + (m - N + 1) - 1 = m
      BY <1>2, <2>2
    <3>2. C[m] = w[m - N + 1]
      BY <3>1 DEF Extends
    <3>3. /\ ~(m < z) /\ m - z + 1 \in 1 .. Len(kept) + Len(w)
          /\ ~(m - z + 1 <= Len(kept)) /\ m - z + 1 - Len(kept) = m - N + 1
      BY <1>1, <1>2, <1>3, <2>2
    <3>4. bits[m - z + 1] = w[m - N + 1]
      <4> DEFINE j == m - z + 1
      <4>1. /\ j \in 1 .. Len(kept) + Len(w) /\ ~(j <= Len(kept))
            /\ j - Len(kept) = m - N + 1
        BY <1>1, <1>2, <3>3
      <4> HIDE DEF j
      <4>2. bits[j] = w[m - N + 1]
        BY <1>2, <4>1
      <4> QED
        BY <4>2 DEF j
    <3> QED
      BY <3>2, <3>3, <3>4
  <2> QED
    BY <2>1, <2>2
<1>5. N + Len(w) = z + Len(bits)
  BY <1>1, <1>2, <1>3
<1>6. \A m \in 0 .. (N + Len(w)) - 1 :
        C[m] = IF m < z THEN BitOf(cells, at, m) ELSE bits[m - z + 1]
  BY <1>1, <1>2, <1>4
<1> QED
  BY <1>5, <1>6, Zenon DEF Streams, z, bits

(* A full cell is written to the buffer.                                    *)
LEMMA StreamsFlush ==
  ASSUME NEW B, NEW N \in Nat, NEW cells, NEW at \in Nat, NEW ptr \in Nat,
         NEW bits \in Seq(Bit), NEW rest, NEW after,
         Streams(B, N, cells, at, ptr, bits), Left(rest, bits),
         SameCells(after, cells, at, ptr), SameBits(after[at + ptr], bits, CellBits)
  PROVE  Streams(B, N, after, at, ptr + 1, rest)
<1> DEFINE z == ptr * CellBits
           y == (ptr + 1) * CellBits
<1>0. CellBits \in Nat \ {0} /\ z \in Nat /\ y = z + CellBits
      /\ rest \in Seq(Bit) /\ Len(rest) \in Nat /\ Len(bits) \in Nat
      /\ Len(bits) = CellBits + Len(rest)
  BY CodecAssumption, BitPlace DEF Left
<1>1. /\ N = z + Len(bits)
      /\ \A m \in 0 .. N - 1 : B[m] = IF m < z THEN BitOf(cells, at, m) ELSE bits[m - z + 1]
  BY DEF Streams
<1> HIDE DEF z, y
<1>2. ASSUME NEW m \in 0 .. N - 1
      PROVE  B[m] = IF m < y THEN BitOf(after, at, m) ELSE rest[m - y + 1]
  <2>1. CASE m < z
    <3>1. m \div CellBits \in Nat /\ m \div CellBits < ptr
      BY <2>1, BitPlace DEF z
    <3>2. at + m \div CellBits \in at .. at + ptr - 1
      BY <3>1
    <3>3. BitOf(after, at, m) = BitOf(cells, at, m)
      BY <3>2 DEF BitOf, SameCells
    <3>4. m < y
      BY <1>0, <2>1
    <3> QED
      BY <1>1, <2>1, <3>3, <3>4
  <2>2. CASE m >= z /\ m < y
    <3>1. m \div CellBits = ptr /\ m % CellBits = m - z
      <4>1. m \in Nat /\ m >= z /\ m < z + CellBits
        BY <1>0, <2>2
      <4> QED
        BY <4>1, BitPlace DEF z
    <3>2. m - z + 1 \in 1 .. CellBits
      BY <1>0, <2>2
    <3>3. BitOf(after, at, m) = bits[m - z + 1]
      BY <3>1, <3>2 DEF BitOf, SameBits
    <3>4. ~(m < z)
      BY <1>0, <2>2
    <3>5. B[m] = bits[m - z + 1]
      BY <1>1, <3>4, Zenon
    <3> QED
      BY <2>2, <3>3, <3>5, Zenon
  <2>3. CASE m >= y
    <3>1. /\ m - y + 1 \in 1 .. Len(rest) /\ CellBits + (m - y + 1) = m - z + 1
          /\ ~(m < y) /\ ~(m < z)
      BY <1>0, <1>1, <2>3
    <3>2. rest[m - y + 1] = bits[m - z + 1]
      BY <3>1 DEF Left
    <3> QED
      BY <1>1, <3>1, <3>2
  <2> QED
    BY <1>0, <2>1, <2>2, <2>3
<1>3. N = y + Len(rest)
  BY <1>0, <1>1
<1> QED
  BY <1>2, <1>3 DEF Streams, y

(* At the end a partial cell is.                                            *)
LEMMA StreamsEnd ==
  ASSUME NEW B, NEW N \in Nat, NEW cells, NEW at \in Nat, NEW ptr \in Nat,
         NEW bits \in Seq(Bit), NEW after,
         Streams(B, N, cells, at, ptr, bits), Len(bits) < CellBits,
         SameCells(after, cells, at, ptr), SameBits(after[at + ptr], bits, Len(bits))
  PROVE  /\ \A m \in 0 .. N - 1 : m \div CellBits < NCell(N) /\ B[m] = BitOf(after, at, m)
         /\ NCell(N) \in Nat /\ NCell(N) <= ptr + 1
<1> DEFINE z == ptr * CellBits
<1>0. CellBits \in Nat \ {0} /\ z \in Nat /\ Len(bits) \in 0 .. CellBits - 1
  <2>1. Len(bits) \in Nat /\ CellBits \in Nat \ {0}
    BY CodecAssumption
  <2>2. z \in Nat
    BY BitPlace
  <2> QED
    BY <2>1, <2>2
<1>1. /\ N = z + Len(bits)
      /\ \A m \in 0 .. N - 1 : B[m] = IF m < z THEN BitOf(cells, at, m) ELSE bits[m - z + 1]
  BY DEF Streams
<1> HIDE DEF z
<1>2. ASSUME NEW m \in 0 .. N - 1
      PROVE  B[m] = BitOf(after, at, m)
  <2>1. CASE m < z
    <3>1. m \div CellBits \in Nat /\ m \div CellBits < ptr
      BY <2>1, BitPlace DEF z
    <3>2. at + m \div CellBits \in at .. at + ptr - 1
      BY <3>1
    <3>3. BitOf(after, at, m) = BitOf(cells, at, m)
      BY <3>2 DEF BitOf, SameCells
    <3> QED
      BY <1>1, <2>1, <3>3
  <2>2. CASE ~(m < z)
    <3>1. m \div CellBits = ptr /\ m % CellBits = m - z
      <4>1. m \in Nat /\ m >= z /\ m < z + CellBits
        BY <1>0, <1>1, <2>2
      <4> QED
        BY <4>1, BitPlace DEF z
    <3>2. m - z + 1 \in 1 .. Len(bits)
      BY <1>0, <1>1, <2>2
    <3>3. BitOf(after, at, m) = bits[m - z + 1]
      BY <3>1, <3>2 DEF BitOf, SameBits
    <3> QED
      BY <1>1, <2>2, <3>3
  <2> QED
    BY <2>1, <2>2
<1>3. /\ NCell(N) \in Nat /\ NCell(N) <= ptr + 1
      /\ \A m \in 0 .. N - 1 : m \div CellBits < NCell(N)
  <2>1. N = ptr * CellBits + Len(bits)
    BY <1>1 DEF z
  <2> QED
    BY <1>0, <2>1, CellCount
<1> QED
  BY <1>2, <1>3
-----------------------------------------------------------------------------
(* Phase 2.                                                                 *)

(* A thread has less than a cell's bits to keep.                            *)
LEMMA KeptBits ==
  ASSUME IInv, phase = "deflate", NEW t \in Chunk, thread[t].at = "run"
  PROVE  Kept(thread[t]) \in Seq(Bit) /\ Len(Kept(thread[t])) < CellBits
<1>0. CellBits \in Nat \ {0}
  BY CodecAssumption
<1>1. thread[t] \in Threads
  BY ChunkBounds
<1>2. thread[t].residue_bits \in 1 .. CellBits /\ thread[t].bufr \in Seq(Bit)
  BY <1>1 DEF Threads
<1>3. CASE thread[t].residue_bits = CellBits
  BY <1>0, <1>3, EmptySeq DEF Kept
<1>4. CASE thread[t].residue_bits # CellBits
  <2>1. Len(thread[t].bufr) = CellBits - thread[t].residue_bits
    BY <1>0, <1>2, <1>4 DEF IInv, Behind
  <2> QED
    BY <1>0, <1>2, <1>4, <2>1 DEF Kept
<1> QED
  BY <1>3, <1>4

(* What is left of them when a cell is full.                                *)
LEMMA RestBits ==
  ASSUME NEW bits \in Seq(Bit), Len(bits) > CellBits
  PROVE  Left(SubSeq(bits, CellBits + 1, Len(bits)), bits)
<1> DEFINE a == CellBits + 1
           b == Len(bits)
<1>1. a \in Int /\ b \in Int /\ a <= b /\ a = CellBits + 1 /\ CellBits \in Nat \ {0}
  BY CodecAssumption
<1>2. \A j \in a .. b : bits[j] \in Bit
  BY <1>1, ElementOfSeq
<1> HIDE DEF a, b
<1>3. /\ SubSeq(bits, a, b) \in Seq(Bit)
      /\ Len(SubSeq(bits, a, b)) = IF a <= b THEN b - a + 1 ELSE 0
      /\ \A i \in 1 .. b - a + 1 : SubSeq(bits, a, b)[i] = bits[a + i - 1]
  BY <1>1, <1>2, SubSeqProperties
<1>4. /\ Len(SubSeq(bits, a, b)) = b - CellBits
      /\ \A j \in 1 .. b - CellBits : SubSeq(bits, a, b)[j] = bits[CellBits + j]
  <2>1. b - a + 1 = b - CellBits /\ \A j \in 1 .. b - CellBits : a + j - 1 = CellBits + j
    BY <1>1
  <2> QED
    BY <1>1, <1>3, <2>1
<1>5. b = CellBits + Len(SubSeq(bits, a, b))
  BY <1>1, <1>4
<1> QED
  BY <1>3, <1>4, <1>5 DEF a, b, Left

(* What one codeword does to the thread that reads it, and to the buffer.   *)
LEMMA DeflateEffect ==
  ASSUME IInv, NEW t \in Chunk, Deflate(t),
         NEW w, w = WordOf(field, book, t, thread[t].i),
         NEW bits, bits = Kept(thread[t]) \o w
  PROVE  /\ w \in Seq(Bit) /\ Len(w) \in Nat /\ bits \in Seq(Bit)
         /\ thread'[t].i = thread[t].i + 1
         /\ thread'[t].total_bits = thread[t].total_bits + Len(w)
         /\ \/ /\ buffer' = buffer /\ thread'[t].ptr = thread[t].ptr
               /\ Kept(thread'[t]) = bits
            \/ /\ buffer' = [buffer EXCEPT ![Base(t) + thread[t].ptr] = SubSeq(bits, 1, CellBits)]
               /\ thread'[t].ptr = thread[t].ptr + 1
               /\ Left(Kept(thread'[t]), bits)
<1> DEFINE me   == thread[t]
           rest == SubSeq(bits, CellBits + 1, Len(bits))
           full == Len(bits) >= CellBits
<1>0. CellBits \in Nat \ {0}
  BY CodecAssumption
<1>1. /\ phase = "deflate" /\ me.at = "run" /\ me.i < Sublen
      /\ Base(t) + me.i < field.len
  BY DEF Deflate, More
<1>2. me \in Threads /\ me.i \in Nat /\ Base(t) \in Nat /\ Sublen \in Nat
      /\ field.len \in Nat /\ field \in Fields /\ book \in Books
  <2>1. me \in Threads /\ Base(t) \in Nat /\ Sublen \in Nat /\ field.len \in 1 .. MaxLen
    BY <1>1, ChunkBounds
  <2>2. me.i \in Nat
    BY <2>1 DEF Threads
  <2>3. field \in Fields /\ book \in Books
    BY DEF IInv, TypeOK
  <2>4. field.len \in Nat
    BY <2>1, CodecAssumption
  <2> QED
    BY <2>1, <2>2, <2>3, <2>4, Zenon
<1>3. w = buffer[Base(t) + me.i]
  <2>1. Base(t) + me.i \in Base(t) + me.i .. Base(t) + Sublen - 1
    BY <1>1, <1>2
  <2> QED
    BY <1>1, <2>1 DEF IInv, UnreadIntact, WordOf
<1>4. /\ bits \in Seq(Bit) /\ Len(w) \in Nat /\ Len(bits) \in 1 .. 2 * CellBits - 1
      /\ w \in Seq(Bit)
  BY <1>1, <1>2, <1>3, Appended, WordBits DEF Kept
<1>5. /\ thread' = [thread EXCEPT ![t] =
           [at |-> "run", i |-> me.i + 1, ptr |-> IF full THEN me.ptr + 1 ELSE me.ptr,
            bufr |-> IF Len(bits) > CellBits THEN rest ELSE bits,
            residue_bits |-> Residue(Len(bits)),
            total_bits |-> me.total_bits + Len(w)]]
      /\ buffer' = IF full
           THEN [buffer EXCEPT ![Base(t) + me.ptr] = SubSeq(bits, 1, CellBits)]
           ELSE buffer
  BY <1>3 DEF Deflate, Kept
<1>6. thread \in [Chunk -> Threads]
  BY DEF IInv, TypeOK
<1> HIDE DEF me, rest, full
<1>7. /\ thread'[t].i = me.i + 1 /\ thread'[t].total_bits = me.total_bits + Len(w)
      /\ thread'[t].ptr = (IF full THEN me.ptr + 1 ELSE me.ptr)
      /\ thread'[t].bufr = (IF Len(bits) > CellBits THEN rest ELSE bits)
      /\ thread'[t].residue_bits = Residue(Len(bits))
  BY <1>5, <1>6
<1>8. CASE Len(bits) < CellBits
  <2>1. Residue(Len(bits)) # CellBits /\ ~full
    BY <1>0, <1>4, <1>8 DEF Residue, full
  <2>2. Kept(thread'[t]) = bits
    <3>1. ~(Len(bits) > CellBits)
      BY <1>0, <1>4, <1>8
    <3> QED
      BY <1>7, <2>1, <3>1 DEF Kept
  <2> QED
    BY <1>4, <1>5, <1>7, <2>1, <2>2 DEF me
<1>9. CASE Len(bits) = CellBits
  <2>1. Residue(Len(bits)) = CellBits /\ full
    BY <1>0, <1>4, <1>9 DEF Residue, full
  <2>2. Kept(thread'[t]) = <<>>
    BY <1>7, <2>1 DEF Kept
  <2>3. <<>> \in Seq(Bit) /\ Len(<<>>) = 0 /\ 1 .. 0 = {}
    BY EmptySeq
  <2>4. Left(Kept(thread'[t]), bits)
    BY <1>0, <1>9, <2>2, <2>3 DEF Left
  <2> QED
    BY <1>4, <1>5, <1>7, <2>1, <2>4 DEF me
<1>10. CASE Len(bits) > CellBits
  <2>1. Residue(Len(bits)) # CellBits /\ full
    BY <1>0, <1>4, <1>10 DEF Residue, full
  <2>2. Kept(thread'[t]) = rest
    BY <1>7, <1>10, <2>1 DEF Kept
  <2>3. Left(Kept(thread'[t]), bits)
    BY <1>4, <1>10, <2>2, RestBits DEF rest
  <2> QED
    BY <1>4, <1>5, <1>7, <2>1, <2>3 DEF me
<1>11. Len(bits) < CellBits \/ Len(bits) = CellBits \/ Len(bits) > CellBits
  BY <1>0, <1>4
<1> QED
  BY <1>8, <1>9, <1>10, <1>11, Zenon

(* A thread's own chunk while it is deflated.                               *)
LEMMA DeflatingOwn ==
  ASSUME IInv, NEW t \in Chunk, Deflate(t), Deflating(t)
  PROVE  Deflating(t)'
<1> DEFINE me   == thread[t]
           next == thread'[t]
           w    == WordOf(field, book, t, me.i)
           bits == Kept(me) \o w
           at   == Base(t)
<1>1. /\ phase = "deflate" /\ me.at = "run" /\ Base(t) + me.i < field.len
      /\ field' = field /\ book' = book
  BY DEF Deflate, More
<1>2. /\ me \in Threads /\ Base(t) \in Nat /\ Base(t) + me.ptr < field.len
      /\ field.len \in 1 .. MaxLen /\ MaxLen \in Nat
  BY <1>1, ChunkBounds, CodecAssumption
<1>3. /\ me.i \in Nat /\ me.ptr \in Nat /\ me.total_bits \in Nat
      /\ field \in Fields /\ book \in Books
  <2>1. field \in Fields /\ book \in Books
    BY DEF IInv, TypeOK
  <2> QED
    BY <1>2, <2>1 DEF Threads
<1>4. /\ w \in Seq(Bit) /\ Len(w) \in Nat /\ bits \in Seq(Bit)
      /\ next.i = me.i + 1 /\ next.total_bits = me.total_bits + Len(w)
  BY DeflateEffect
<1>5. \/ buffer' = buffer /\ next.ptr = me.ptr /\ Kept(next) = bits
      \/ /\ buffer' = [buffer EXCEPT ![Base(t) + me.ptr] = SubSeq(bits, 1, CellBits)]
         /\ next.ptr = me.ptr + 1 /\ Left(Kept(next), bits)
  BY DeflateEffect
<1>6. Kept(me) \in Seq(Bit)
  BY <1>1, KeptBits
<1>7. PICK B, pos : Partial(B, pos, field, book, t, me, buffer)
  BY DEF Deflating
<1>8. /\ Spelled(B, pos, field, book, t, me.i) /\ me.total_bits = pos[me.i]
      /\ Streams(B, me.total_bits, buffer, at, me.ptr, Kept(me))
  BY <1>7 DEF Partial
<1> HIDE DEF me, next, w, bits, at
<1>9. PICK C, ps : /\ Spelled(C, ps, field, book, t, me.i + 1)
                   /\ ps[me.i + 1] = pos[me.i] + Len(w)
                   /\ Extends(C, B, pos[me.i], w)
  BY <1>1, <1>3, <1>8, SpelledMore DEF w
<1>10. at \in Nat /\ at = Base(t)
  BY <1>2 DEF at
<1>11. Streams(C, next.total_bits, buffer, at, me.ptr, bits)
  <2>1. Extends(C, B, me.total_bits, w)
    BY <1>8, <1>9
  <2> QED
    <3>1. Streams(C, me.total_bits + Len(w), buffer, at, me.ptr, Kept(me) \o w)
      BY <1>3, <1>4, <1>6, <1>8, <1>10, <2>1, StreamsAppend
    <3> QED
      BY <1>4, <3>1 DEF bits
<1>12. next.total_bits \in Nat
  BY <1>3, <1>4
<1>13. Streams(C, next.total_bits, buffer', at, next.ptr, Kept(next))
  <2>1. CASE buffer' = buffer /\ next.ptr = me.ptr /\ Kept(next) = bits
    BY <1>11, <2>1
  <2>2. CASE /\ buffer' = [buffer EXCEPT ![Base(t) + me.ptr] = SubSeq(bits, 1, CellBits)]
             /\ next.ptr = me.ptr + 1 /\ Left(Kept(next), bits)
    <3>1. Base(t) + me.ptr \in Slot /\ buffer \in [Slot -> Code \cup Cell]
      <4>1. Base(t) + me.ptr \in 0 .. MaxLen - 1
        BY <1>2, <1>3
      <4> QED
        BY <4>1 DEF Slot, IInv, TypeOK
    <3>2. SameCells(buffer', buffer, at, me.ptr)
      <4>1. \A k \in at .. at + me.ptr - 1 : k # at + me.ptr /\ k \in Slot
        BY <1>2, <1>3, <1>10 DEF Slot
      <4> QED
        BY <1>10, <2>2, <3>1, <4>1 DEF SameCells
    <3>3. buffer'[at + me.ptr] = SubSeq(bits, 1, CellBits)
      BY <1>10, <2>2, <3>1
    <3>4. SameBits(SubSeq(bits, 1, CellBits), bits, CellBits)
      <4>1. CellBits \in Nat \ {0} /\ Len(bits) \in Nat /\ CellBits <= Len(bits)
        BY <1>4, <2>2, CodecAssumption DEF Left
      <4>2. \A j \in 1 .. CellBits : bits[j] \in Bit
        BY <1>4, <4>1, ElementOfSeq
      <4> QED
        BY <4>1, <4>2, SubSeqProperties DEF SameBits
    <3>5. SameBits(buffer'[at + me.ptr], bits, CellBits)
      BY <3>3, <3>4
    <3> QED
      <4>1. Streams(C, next.total_bits, buffer', at, me.ptr + 1, Kept(next))
        BY <1>3, <1>4, <1>10, <1>11, <1>12, <2>2, <3>2, <3>5, StreamsFlush
      <4> QED
        BY <2>2, <4>1
  <2> QED
    BY <1>5, <2>1, <2>2
<1>14. Partial(C, ps, field', book', t, next, buffer')
  <2>1. Spelled(C, ps, field', book', t, next.i)
    BY <1>1, <1>4, <1>9
  <2>2. next.total_bits = ps[next.i]
    BY <1>4, <1>8, <1>9
  <2> QED
    BY <1>10, <1>13, <2>1, <2>2 DEF Partial
<1> QED
  BY <1>14 DEF Deflating, next

(* Its last cell makes the chunk whole.                                     *)
LEMMA DeflatingEnds ==
  ASSUME IInv, NEW t \in Chunk, LastCell(t), Deflating(t)
  PROVE  /\ Deflated(t)'
         /\ par_ncell'[t] \in Nat /\ par_ncell'[t] <= Words(field, t)
         /\ Base(t) < field.len
<1> DEFINE me == thread[t]
           at == Base(t)
<1>1. /\ phase = "deflate" /\ me.at = "run" /\ ~(me.i < Sublen /\ Base(t) + me.i < field.len)
      /\ field' = field /\ book' = book
      /\ buffer' = [buffer EXCEPT ![Base(t) + me.ptr] = Pad(me.bufr)]
      /\ par_nbit' = [par_nbit EXCEPT ![t] = me.total_bits]
      /\ par_ncell' = [par_ncell EXCEPT ![t] = NCell(me.total_bits)]
  BY DEF LastCell, More
<1>2. /\ me \in Threads /\ Base(t) \in Nat /\ Base(t) + me.ptr < field.len
      /\ field.len \in 1 .. MaxLen /\ Sublen \in Nat
  BY <1>1, ChunkBounds
<1>3. MaxLen \in Nat /\ CellBits \in Nat \ {0} /\ Sublen # 0
  BY CodecAssumption, ChunksCover
<1>4. /\ me.i \in Nat /\ me.ptr \in Nat /\ me.total_bits \in Nat /\ me.bufr \in Seq(Bit)
  BY <1>2 DEF Threads
<1>5. /\ me.i <= Sublen /\ Base(t) < field.len /\ Base(t) + me.i <= field.len
      /\ IF me.i = 0 THEN me.ptr = 0 ELSE me.ptr < me.i
  BY <1>1 DEF IInv, Behind
<1>6. par_nbit \in [Chunk -> Nat] /\ par_ncell \in [Chunk -> Nat] /\ buffer \in [Slot -> Code \cup Cell]
  BY DEF IInv, TypeOK
<1>7. Kept(me) \in Seq(Bit) /\ Len(Kept(me)) < CellBits
  BY <1>1, KeptBits
<1>8. PICK B, pos : Partial(B, pos, field, book, t, me, buffer)
  BY DEF Deflating
<1> HIDE DEF me
<1>9. me.i = Words(field, t) /\ me.ptr + 1 <= me.i
  <2>1. me.i # 0 /\ field.len \in Nat
    BY <1>1, <1>2, <1>3, <1>5
  <2>2. me.i = Sublen \/ Base(t) + me.i = field.len
    <3>1. ~(me.i < Sublen) \/ ~(Base(t) + me.i < field.len)
      BY <1>1, Zenon
    <3> QED
      BY <1>2, <1>4, <1>5, <2>1, <3>1
  <2>3. me.i = Words(field, t)
    BY <1>2, <1>4, <1>5, <2>1, <2>2 DEF Words
  <2> QED
    BY <1>4, <1>5, <2>1, <2>3
<1>10. /\ Spelled(B, pos, field, book, t, me.i) /\ me.total_bits = pos[me.i]
       /\ Streams(B, me.total_bits, buffer, at, me.ptr, Kept(me))
  BY <1>8 DEF Partial
<1>11. at + me.ptr \in Slot /\ at \in Nat
  <2>1. at + me.ptr \in 0 .. MaxLen - 1 /\ at \in Nat
    BY <1>2, <1>3, <1>4
  <2> QED
    BY <2>1 DEF Slot
<1>12. SameCells(buffer', buffer, at, me.ptr)
  <2>1. \A k \in at .. at + me.ptr - 1 : k # at + me.ptr /\ k \in Slot
    BY <1>2, <1>3, <1>4 DEF Slot
  <2> QED
    BY <1>1, <1>6, <2>1 DEF SameCells
<1>13. SameBits(buffer'[at + me.ptr], Kept(me), Len(Kept(me)))
  <2>1. buffer'[at + me.ptr] = Pad(me.bufr)
    BY <1>1, <1>6, <1>11
  <2>2. ASSUME NEW j \in 1 .. Len(Kept(me)) PROVE Pad(me.bufr)[j] = Kept(me)[j]
    <3>1. Len(Kept(me)) \in Nat /\ j \in 1 .. CellBits
      BY <1>3, <1>7
    <3>2. Kept(me) = me.bufr
      <4>1. Len(<<>>) = 0
        BY EmptySeq
      <4> QED
        BY <4>1, <2>2 DEF Kept
    <3> QED
      BY <2>2, <3>1, <3>2 DEF Pad
  <2> QED
    BY <2>1, <2>2 DEF SameBits
<1> HIDE DEF at
<1>14. /\ \A m \in 0 .. me.total_bits - 1 :
            m \div CellBits < NCell(me.total_bits) /\ B[m] = BitOf(buffer', at, m)
       /\ NCell(me.total_bits) \in Nat /\ NCell(me.total_bits) <= me.ptr + 1
  BY <1>4, <1>7, <1>10, <1>11, <1>12, <1>13, StreamsEnd
<1>15. par_nbit'[t] = me.total_bits /\ par_ncell'[t] = NCell(me.total_bits)
  BY <1>1, <1>6
<1>16. Whole(B, pos, field', book', t, par_nbit'[t], par_ncell'[t], buffer')
  BY <1>1, <1>9, <1>10, <1>14, <1>15 DEF Whole, at
<1>17. Deflated(t)'
  BY <1>16 DEF Deflated
<1>18. par_ncell'[t] \in Nat /\ par_ncell'[t] <= Words(field, t)
  BY <1>4, <1>9, <1>14, <1>15
<1> QED
  BY <1>5, <1>17, <1>18

(* What a thread writes is no other's.                                      *)
LEMMA Elsewhere ==
  ASSUME IInv, NEW t \in Chunk, NEW p \in 0 .. Sublen - 1, NEW c,
         buffer' = [buffer EXCEPT ![Base(t) + p] = c],
         NEW s \in Chunk, s # t, NEW n \in 0 .. Sublen, Base(s) + n <= MaxLen
  PROVE  SameCells(buffer', buffer, Base(s), n)
<1>1. Base(s) \in Nat /\ Base(t) \in Nat /\ s \in Nat /\ t \in Nat /\ Sublen \in Nat
      /\ MaxLen \in Nat
  BY ChunkPlaces
<1>2. ASSUME NEW k \in Base(s) .. Base(s) + n - 1
      PROVE  k # Base(t) + p /\ k \in Slot
  <2>1. k \in Slot
    BY <1>1 DEF Slot
  <2>2. CASE s < t
    <3>1. Base(s) + Sublen <= Base(t)
      BY <2>2, ChunksApart
    <3> QED
      BY <1>1, <2>1, <3>1
  <2>3. CASE t < s
    <3>1. Base(t) + Sublen <= Base(s)
      BY <2>3, ChunksApart
    <3> QED
      BY <1>1, <2>1, <3>1
  <2> QED
    BY <1>1, <2>2, <2>3
<1>3. buffer \in [Slot -> Code \cup Cell]
  BY DEF IInv, TypeOK
<1> QED
  BY <1>2, <1>3 DEF SameCells

LEMMA StreamsSame ==
  ASSUME NEW B, NEW N \in Nat, NEW cells, NEW at \in Nat, NEW ptr \in Nat, NEW bits,
         NEW after, Streams(B, N, cells, at, ptr, bits), SameCells(after, cells, at, ptr)
  PROVE  Streams(B, N, after, at, ptr, bits)
<1> DEFINE z == ptr * CellBits
<1>1. /\ N = z + Len(bits) /\ z \in Nat
      /\ \A m \in 0 .. N - 1 : B[m] = IF m < z THEN BitOf(cells, at, m) ELSE bits[m - z + 1]
  BY BitPlace DEF Streams
<1>2. ASSUME NEW m \in 0 .. N - 1, m < z PROVE BitOf(after, at, m) = BitOf(cells, at, m)
  <2>1. m \div CellBits \in Nat /\ m \div CellBits < ptr
    BY <1>2, BitPlace
  <2>2. at + m \div CellBits \in at .. at + ptr - 1
    BY <2>1
  <2> QED
    BY <2>2 DEF BitOf, SameCells
<1> HIDE DEF z
<1>3. \A m \in 0 .. N - 1 : B[m] = IF m < z THEN BitOf(after, at, m) ELSE bits[m - z + 1]
  BY <1>1, <1>2
<1> QED
  BY <1>1, <1>3, Zenon DEF Streams, z

LEMMA WholeSame ==
  ASSUME NEW B, NEW pos, NEW f, NEW b, NEW t \in Chunk, NEW nbit \in Nat, NEW ncell \in Nat,
         NEW cells, NEW after, Whole(B, pos, f, b, t, nbit, ncell, cells),
         SameCells(after, cells, Base(t), ncell)
  PROVE  Whole(B, pos, f, b, t, nbit, ncell, after)
<1> DEFINE at == Base(t)
<1>1. at \in Nat
  BY ChunkPlaces
<1>2. ASSUME NEW m \in 0 .. nbit - 1
      PROVE  m \div CellBits < ncell /\ B[m] = BitOf(after, at, m)
  <2>1. m \div CellBits < ncell /\ B[m] = BitOf(cells, at, m)
    BY Zenon DEF Whole
  <2>2. m \div CellBits \in Nat
    <3>1. CellBits \in Nat \ {0} /\ m \in Nat
      BY CodecAssumption
    <3> QED
      BY <3>1, Division
  <2> DEFINE q == m \div CellBits
  <2>3. q \in Nat /\ q < ncell
    BY <2>1, <2>2
  <2> HIDE DEF at, q
  <2>4. at + q \in at .. at + ncell - 1
    BY <1>1, <2>3
  <2> QED
    BY <2>1, <2>4 DEF BitOf, SameCells, at, q
<1> QED
  BY <1>2 DEF Whole

(* How much of the bitstream the chunks may take.                           *)
LEMMA RoomBounds ==
  ASSUME IInv, Room, NEW t \in Chunk
  PROVE  /\ par_ncell[t] \in Nat /\ par_nbit[t] \in Nat /\ par_ncell[t] <= Sublen
         /\ Clip(t) \in 0 .. MaxLen /\ Clip(t + 1) \in 0 .. MaxLen
         /\ Clip(t) + par_ncell[t] <= Clip(t + 1)
         /\ Base(t) < MaxLen => Base(t) + par_ncell[t] <= MaxLen
<1>1. par_ncell[t] \in Nat /\ par_nbit[t] \in Nat
  BY DEF IInv, TypeOK
<1>2. /\ Base(t) \in Nat /\ Sublen \in Nat /\ MaxLen \in Nat
      /\ Base(t + 1) = Base(t) + Sublen
  BY ChunkPlaces
<1>3. par_ncell[t] <= Clip(t + 1) - Clip(t)
  BY DEF Room
<1> QED
  BY <1>1, <1>2, <1>3 DEF Clip

(* A write to the buffer leaves the other chunks' bits alone, be they being *)
(* deflated or whole.                                                       *)
LEMMA OthersDeflate ==
  ASSUME IInv, Room, NEW t \in Chunk, NEW p \in 0 .. Sublen - 1, NEW c,
         phase = "deflate", field' = field, book' = book,
         buffer' = [buffer EXCEPT ![Base(t) + p] = c] \/ buffer' = buffer,
         NEW s \in Chunk, s # t, Base(s) < field.len, thread'[s] = thread[s],
         par_nbit'[s] = par_nbit[s], par_ncell'[s] = par_ncell[s]
  PROVE  /\ thread[s].at = "run" /\ Deflating(s) => Deflating(s)'
         /\ Deflated(s) => Deflated(s)'
<1>1. /\ Base(s) \in Nat /\ Sublen \in Nat /\ MaxLen \in Nat /\ field.len \in 1 .. MaxLen
  <2>1. field \in Fields
    BY DEF IInv, TypeOK
  <2> QED
    BY <2>1, ChunkPlaces, CodecAssumption
<1>2. ASSUME NEW n \in 0 .. Sublen, Base(s) + n <= MaxLen
      PROVE  SameCells(buffer', buffer, Base(s), n)
  <2>1. CASE buffer' = buffer
    BY <2>1 DEF SameCells
  <2>2. CASE buffer' = [buffer EXCEPT ![Base(t) + p] = c]
    BY <1>2, <2>2, Elsewhere
  <2> QED
    BY <2>1, <2>2
<1>3. ASSUME thread[s].at = "run", Deflating(s)
      PROVE  Deflating(s)'
  <2> DEFINE me == thread[s]
  <2>1. me.ptr < Sublen /\ me.ptr <= me.i /\ Base(s) + me.ptr < field.len /\ me \in Threads
    BY <1>3, ChunkBounds
  <2>2. me.ptr \in Nat /\ me.total_bits \in Nat
    BY <2>1 DEF Threads
  <2>3. PICK B, pos : Partial(B, pos, field, book, s, me, buffer)
    BY <1>3 DEF Deflating
  <2> HIDE DEF me
  <2>4. SameCells(buffer', buffer, Base(s), me.ptr)
    BY <1>1, <1>2, <2>1, <2>2
  <2>5. Partial(B, pos, field, book, s, me, buffer')
    BY <1>1, <2>2, <2>3, <2>4, StreamsSame DEF Partial
  <2>6. Partial(B, pos, field', book', s, thread'[s], buffer')
    BY <2>5 DEF me
  <2> QED
    BY <2>6 DEF Deflating
<1>4. ASSUME Deflated(s)
      PROVE  Deflated(s)'
  <2>1. /\ par_ncell[s] \in Nat /\ par_nbit[s] \in Nat /\ par_ncell[s] <= Sublen
        /\ Base(s) + par_ncell[s] <= MaxLen
    BY <1>1, RoomBounds
  <2>2. PICK B, pos : Whole(B, pos, field, book, s, par_nbit[s], par_ncell[s], buffer)
    BY <1>4 DEF Deflated
  <2>3. SameCells(buffer', buffer, Base(s), par_ncell[s])
    BY <1>1, <1>2, <2>1
  <2>4. Whole(B, pos, field, book, s, par_nbit[s], par_ncell[s], buffer')
    BY <2>1, <2>2, <2>3, WholeSame
  <2>5. Whole(B, pos, field', book', s, par_nbit'[s], par_ncell'[s], buffer')
    BY <2>4
  <2> QED
    BY <2>5 DEF Deflated
<1> QED
  BY <1>3, <1>4

LEMMA CarriedDeflate ==
  ASSUME IInv, Room, Carried, NEW t \in Chunk, Deflate(t)
  PROVE  Carried' /\ Room'
<1>1. /\ phase = "deflate" /\ phase' = "deflate" /\ thread[t].at = "run"
      /\ field' = field /\ book' = book /\ par_nbit' = par_nbit /\ par_ncell' = par_ncell
  BY Zenon DEF Deflate, metadata
<1>2. /\ thread'[t].at = "run"
      /\ \A s \in Chunk \ {t} : thread'[s] = thread[s]
      /\ buffer' = buffer \/ \E c : buffer' = [buffer EXCEPT ![Base(t) + thread[t].ptr] = c]
  <2>1. thread \in [Chunk -> Threads]
    BY DEF IInv, TypeOK
  <2> QED
    BY <2>1, ThreadDeflates
<1>3. Base(t) < field.len /\ thread[t].ptr \in 0 .. Sublen - 1
  <2>1. thread[t] \in Threads /\ Base(t) < field.len
    BY <1>1, ChunkBounds DEF IInv, Behind
  <2> QED
    BY <2>1 DEF Threads
<1>4. Deflating(t)'
  BY <1>1, <1>3, DeflatingOwn DEF Carried
<1>5. ASSUME NEW s \in Chunk, Base(s) < field.len
      PROVE  IF thread'[s].at = "run" THEN Deflating(s)' ELSE Deflated(s)'
  <2>1. CASE s = t
    BY <1>2, <1>4, <2>1
  <2>2. CASE s # t
    <3>1. IF thread[s].at = "run" THEN Deflating(s) ELSE Deflated(s)
      BY <1>1, <1>5 DEF Carried
    <3>2. thread'[s] = thread[s] /\ par_nbit'[s] = par_nbit[s] /\ par_ncell'[s] = par_ncell[s]
      BY <1>1, <1>2, <2>2
    <3>3. /\ thread[s].at = "run" /\ Deflating(s) => Deflating(s)'
          /\ Deflated(s) => Deflated(s)'
      BY <1>1, <1>2, <1>3, <1>5, <2>2, <3>2, OthersDeflate
    <3> QED
      BY <3>1, <3>2, <3>3
  <2> QED
    BY <2>1, <2>2
<1> QED
  BY <1>1, <1>5 DEF Carried, Room

LEMMA CarriedLastCell ==
  ASSUME IInv, Room, Carried, NEW t \in Chunk, LastCell(t)
  PROVE  Carried' /\ Room'
<1>1. /\ phase = "deflate" /\ phase' = "deflate" /\ thread[t].at = "run"
      /\ field' = field /\ book' = book
      /\ par_nbit' = [par_nbit EXCEPT ![t] = thread[t].total_bits]
      /\ par_ncell' = [par_ncell EXCEPT ![t] = NCell(thread[t].total_bits)]
      /\ thread' = [thread EXCEPT ![t].at = "done"]
      /\ buffer' = [buffer EXCEPT ![Base(t) + thread[t].ptr] = Pad(thread[t].bufr)]
  BY Zenon DEF LastCell
<1>2. /\ thread \in [Chunk -> Threads] /\ par_nbit \in [Chunk -> Nat]
      /\ par_ncell \in [Chunk -> Nat]
  BY DEF IInv, TypeOK
<1>3. /\ thread'[t].at = "done"
      /\ \A s \in Chunk \ {t} :
           /\ thread'[s] = thread[s]
           /\ par_nbit'[s] = par_nbit[s] /\ par_ncell'[s] = par_ncell[s]
  BY <1>1, <1>2 DEF Threads
<1>4. Base(t) < field.len /\ thread[t].ptr \in 0 .. Sublen - 1
  <2>1. thread[t] \in Threads /\ Base(t) < field.len
    BY <1>1, ChunkBounds DEF IInv, Behind
  <2> QED
    BY <2>1 DEF Threads
<1>5. Deflating(t)
  BY <1>1, <1>4 DEF Carried
<1>6. Deflated(t)' /\ par_ncell'[t] \in Nat /\ par_ncell'[t] <= Words(field, t)
  BY <1>5, DeflatingEnds
<1>7. ASSUME NEW s \in Chunk, Base(s) < field.len
      PROVE  IF thread'[s].at = "run" THEN Deflating(s)' ELSE Deflated(s)'
  <2>1. CASE s = t
    BY <1>3, <1>6, <2>1
  <2>2. CASE s # t
    <3>1. IF thread[s].at = "run" THEN Deflating(s) ELSE Deflated(s)
      BY <1>1, <1>7 DEF Carried
    <3>2. thread'[s] = thread[s] /\ par_nbit'[s] = par_nbit[s] /\ par_ncell'[s] = par_ncell[s]
      BY <1>3, <2>2
    <3>3. /\ thread[s].at = "run" /\ Deflating(s) => Deflating(s)'
          /\ Deflated(s) => Deflated(s)'
      BY <1>1, <1>4, <1>7, <2>2, <3>2, OthersDeflate
    <3> QED
      BY <3>1, <3>2, <3>3
  <2> QED
    BY <2>1, <2>2
<1>8. ASSUME NEW s \in Chunk PROVE par_ncell'[s] <= Clip(s + 1) - Clip(s)
  <2>1. CASE s = t
    <3>1. field \in Fields
      BY DEF IInv, TypeOK
    <3>2. /\ Words(field, t) \in 1 .. Sublen /\ Words(field, t) <= Clip(t + 1) - Clip(t)
      BY <1>4, <3>1, WordsBound
    <3>3. Clip(t) \in Nat /\ Clip(t + 1) \in Nat /\ Sublen \in Nat
      BY ChunkPlaces, RoomBounds
    <3> QED
      BY <1>6, <2>1, <3>2, <3>3
  <2>2. CASE s # t
    BY <1>3, <2>2 DEF Room
  <2> QED
    BY <2>1, <2>2
<1> QED
  BY <1>1, <1>7, <1>8 DEF Carried, Room

(* A thread that begins has deflated nothing.                               *)
LEMMA CarriedEncode ==
  ASSUME IInv, Room, NEW f \in Fields, NEW b \in Books, Encode(f, b)
  PROVE  Carried' /\ Room'
<1>1. /\ phase' = "deflate" /\ field' = f /\ book' = b /\ par_ncell' = par_ncell
      /\ thread' = [t \in Chunk |-> Begun(IF Base(t) < f.len THEN "run" ELSE "done")]
  BY Zenon DEF Encode, metadata
<1> DEFINE B   == [m \in {} |-> 0]
           pos == [k \in {0} |-> 0]
<1>2. ASSUME NEW t \in Chunk PROVE Spelled(B, pos, f, b, t, 0)
  <2>1. pos \in [0 .. 0 -> Nat] /\ pos[0] = 0
    <3>1. 0 .. 0 = {0}
      OBVIOUS
    <3> QED
      BY <3>1
  <2>2. B \in [0 .. pos[0] - 1 -> Bit]
    <3>1. 0 .. 0 - 1 = {}
      OBVIOUS
    <3> QED
      BY <2>1, <3>1
  <2>3. 0 .. 0 - 1 = {}
    OBVIOUS
  <2> QED
    BY <2>1, <2>2, <2>3, Zenon DEF Spelled
<1>3. pos[0] = 0
  OBVIOUS
<1> HIDE DEF B, pos
<1>4. ASSUME NEW t \in Chunk, Base(t) < f.len
      PROVE  thread'[t].at = "run" /\ Deflating(t)'
  <2> DEFINE me == thread'[t]
  <2>1. /\ me.at = "run" /\ me.i = 0 /\ me.ptr = 0 /\ me.total_bits = 0
        /\ me.residue_bits = CellBits
    BY <1>1, <1>4 DEF Begun
  <2> HIDE DEF me
  <2>2. Kept(me) = <<>> /\ Len(<<>>) = 0
    BY <2>1 DEF Kept
  <2>3. Streams(B, 0, buffer', Base(t), 0, Kept(me))
    <3>1. 0 .. 0 - 1 = {} /\ 0 = 0 * CellBits + 0
      BY CodecAssumption
    <3> QED
      BY <2>2, <3>1 DEF Streams
  <2>4. Partial(B, pos, f, b, t, me, buffer')
    BY <1>2, <1>3, <2>1, <2>3 DEF Partial
  <2>5. Deflating(t)'
    BY <1>1, <2>4 DEF Deflating, me
  <2> QED
    BY <2>1, <2>5 DEF me
<1>5. Carried'
  BY <1>1, <1>4 DEF Carried
<1> QED
  BY <1>1, <1>5 DEF Room

(* The host's steps and the blocks that concatenate leave the buffer alone; *)
(* when the host takes over, every chunk has been deflated.                 *)
LEMMA CarriedOn ==
  ASSUME Carried, Room,
         CopyBack \/ Scan \/ CopyEntries \/ \E t \in Chunk : Concatenate(t)
  PROVE  Carried' /\ Room'
<1>1. /\ UNCHANGED <<field, book, buffer, par_nbit, par_ncell>>
      /\ phase \in {"scan", "concatenate"} \/ (phase = "deflate" /\ AllDone)
      /\ phase' \in {"scan", "concatenate"}
  <2>1. ASSUME CopyBack
        PROVE  /\ UNCHANGED <<field, book, buffer, par_nbit, par_ncell>>
               /\ phase = "deflate" /\ AllDone /\ phase' = "scan"
    BY <2>1, Zenon DEF CopyBack, metadata
  <2>2. ASSUME Scan
        PROVE  /\ UNCHANGED <<field, book, buffer, par_nbit, par_ncell>>
               /\ phase = "scan" /\ phase' = "scan"
    BY <2>2 DEF Scan, metadata
  <2>3. ASSUME CopyEntries
        PROVE  /\ UNCHANGED <<field, book, buffer, par_nbit, par_ncell>>
               /\ phase = "scan" /\ phase' = "concatenate"
    BY <2>3, Zenon DEF CopyEntries
  <2>4. ASSUME NEW t \in Chunk, Concatenate(t)
        PROVE  /\ UNCHANGED <<field, book, buffer, par_nbit, par_ncell>>
               /\ phase = "concatenate" /\ phase' = "concatenate"
    BY <2>4 DEF Concatenate, metadata
  <2> QED
    BY <2>1, <2>2, <2>3, <2>4
<1>2. ASSUME NEW t \in Chunk, Base(t) < field.len PROVE Deflated(t)
  <2>1. CASE phase \in {"scan", "concatenate"}
    BY <1>2, <2>1 DEF Carried
  <2>2. CASE phase = "deflate" /\ AllDone
    <3>1. thread[t].at # "run"
      BY <2>2 DEF AllDone
    <3> QED
      BY <1>2, <2>2, <3>1 DEF Carried
  <2> QED
    BY <1>1, <2>1, <2>2
<1>3. ASSUME NEW t \in Chunk, Base(t) < field'.len PROVE Deflated(t)'
  <2>1. Base(t) < field.len
    BY <1>1, <1>3
  <2>2. PICK B, pos : Whole(B, pos, field, book, t, par_nbit[t], par_ncell[t], buffer)
    BY <1>2, <2>1 DEF Deflated
  <2>3. Whole(B, pos, field', book', t, par_nbit'[t], par_ncell'[t], buffer')
    BY <1>1, <2>2
  <2> QED
    BY <2>3 DEF Deflated
<1>4. phase' # "deflate"
  BY <1>1
<1>5. Carried'
  BY <1>3, <1>4 DEF Carried
<1> QED
  BY <1>1, <1>5 DEF Room

(* Outside an encoding only the numbers of cells matter.                    *)
LEMMA CarriedIdle ==
  ASSUME Room, Collect \/ Decode \/ Return \/ ClearBuffer \/ \E t \in Chunk : Inflate(t)
  PROVE  Carried' /\ Room'
<1>1. phase' \in {"idle", "inflate"}
  BY Zenon DEF Collect, Decode, Return, ClearBuffer, Inflate
<1>2. par_ncell' = par_ncell \/ par_ncell' = [t \in Chunk |-> 0]
  <2>1. ASSUME NEW t \in Chunk, Inflate(t) PROVE par_ncell' = par_ncell
    BY <2>1, Zenon DEF Inflate, metadata
  <2> QED
    BY <2>1 DEF Collect, Decode, Return, ClearBuffer, metadata
<1>3. ASSUME NEW t \in Chunk, par_ncell' = [s \in Chunk |-> 0]
      PROVE  par_ncell'[t] <= Clip(t + 1) - Clip(t)
  <2>1. par_ncell'[t] = 0
    BY <1>3
  <2> QED
    BY <2>1, ChunkPlaces DEF Clip
<1>4. Room'
  BY <1>2, <1>3 DEF Room
<1> QED
  BY <1>1, <1>4 DEF Carried
-----------------------------------------------------------------------------
(* The chunks' places in the bitstream.                                     *)

LEMMA LaidCopyBack ==
  ASSUME TypeOK, Scanned, CopyBack
  PROVE  Laid'
<1>1. 0 \in Chunk
  BY CodecAssumption DEF Chunk
<1>2. h_par_entry'[0] = 0 /\ scan' = 1 /\ phase' = "scan"
  BY <1>1 DEF CopyBack, Scanned, Shifted
<1>3. Clip(0) = 0
  <2>1. Sublen \in Nat /\ MaxLen \in Nat \ {0}
    BY <1>1, ChunkPlaces
  <2>2. Base(0) = 0
    BY <2>1 DEF Base
  <2> QED
    BY <2>1, <2>2 DEF Clip
<1>4. ASSUME NEW k \in 0 .. scan' - 1
      PROVE  k = 0 /\ 0 .. k - 1 = {}
  BY <1>2
<1>5. Apart(h_par_entry, scan)'
  BY <1>2, <1>3, <1>4 DEF Apart
<1> QED
  BY <1>2, <1>5 DEF Laid

(* A chunk's cells come after those of the one before, and no later than in *)
(* the buffer.                                                              *)
LEMMA LaidScan ==
  ASSUME IInv, Scanned, Room, Laid, Scan
  PROVE  Laid'
<1>1. /\ scan \in Nat /\ scan > 0 /\ scan < ParDeg /\ ParDeg \in Nat
      /\ phase = "scan" /\ phase' = "scan" /\ scan' = scan + 1
      /\ par_ncell' = par_ncell
      /\ h_par_entry \in [Chunk -> Nat] /\ par_ncell \in [Chunk -> Nat]
  BY CodecAssumption DEF Scan, After, IInv, TypeOK, metadata
<1> DEFINE last == scan - 1
           e    == h_par_entry'[scan]
<1>2. last \in Chunk /\ scan \in Chunk /\ last \in Nat /\ scan = last + 1 /\ scan \in Chunk \ {0}
  BY <1>1 DEF Chunk
<1>3. /\ e = h_par_entry[scan] + h_par_entry[last]
      /\ \A k \in Chunk \ {scan} : h_par_entry'[k] = h_par_entry[k]
  BY <1>1, <1>2 DEF Scan
<1>4. h_par_entry[scan] = par_ncell[last]
  <2>1. h_par_entry[scan] = (IF scan < scan THEN h_par_entry[scan - 1] ELSE 0)
                              + par_ncell[scan - 1]
    BY <1>1, <1>2 DEF Scanned
  <2>2. ~(scan < scan) /\ par_ncell[scan - 1] \in Nat
    BY <1>1, <1>2
  <2> QED
    BY <2>1, <2>2
<1>5. h_par_entry[last] \in Nat /\ par_ncell[last] \in Nat
  BY <1>1, <1>2
<1>6. Apart(h_par_entry, scan)
  BY <1>1 DEF Laid
<1>7. /\ h_par_entry[last] <= Clip(last)
      /\ \A j \in 0 .. last - 1 : h_par_entry[j] + par_ncell[j] <= h_par_entry[last]
  <2>1. last \in 0 .. scan - 1
    BY <1>1
  <2> QED
    BY <1>6, <2>1 DEF Apart
<1>8. Clip(last) + par_ncell[last] <= Clip(last + 1) /\ Clip(last) \in Nat /\ Clip(last + 1) \in Nat
  BY <1>2, RoomBounds, CodecAssumption
<1> HIDE DEF last, e
<1>9. e <= Clip(scan) /\ e \in Nat
  BY <1>2, <1>3, <1>4, <1>5, <1>7, <1>8
<1>10. ASSUME NEW j \in 0 .. scan - 1
       PROVE  h_par_entry[j] + par_ncell[j] <= e
  <2>1. j \in Chunk
    BY <1>1 DEF Chunk
  <2>2. h_par_entry[j] \in Nat /\ par_ncell[j] \in Nat
    BY <1>1, <2>1
  <2>3. CASE j = last
    BY <1>3, <1>4, <1>5, <2>2, <2>3
  <2>4. CASE j # last
    <3>1. j \in 0 .. last - 1
      BY <1>1, <1>2, <2>4
    <3> QED
      BY <1>3, <1>4, <1>5, <1>7, <2>2, <3>1
  <2> QED
    BY <2>3, <2>4
<1>11. ASSUME NEW k \in 0 .. scan
       PROVE  /\ h_par_entry'[k] <= Clip(k)
              /\ \A j \in 0 .. k - 1 : h_par_entry'[j] + par_ncell[j] <= h_par_entry'[k]
  <2>1. \A j \in 0 .. k - 1 : j \in 0 .. scan - 1 /\ j \in Chunk \ {scan}
    BY <1>1 DEF Chunk
  <2>2. CASE k = scan
    BY <1>3, <1>9, <1>10, <2>1, <2>2 DEF e
  <2>3. CASE k # scan
    <3>1. k \in 0 .. scan - 1 /\ k \in Chunk \ {scan}
      BY <1>1, <2>3 DEF Chunk
    <3> QED
      BY <1>3, <1>6, <2>1, <3>1 DEF Apart
  <2> QED
    BY <2>2, <2>3
<1>12. 0 .. scan' - 1 = 0 .. scan
  BY <1>1
<1>13. Apart(h_par_entry, scan)'
  BY <1>1, <1>11, <1>12 DEF Apart
<1> QED
  BY <1>1, <1>13 DEF Laid

LEMMA LaidStep ==
  ASSUME IInv, Scanned, Room, Laid, [Next]_vars
  PROVE  Laid'
<1>1. CASE CopyBack
  BY <1>1, LaidCopyBack DEF IInv
<1>2. CASE Scan
  BY <1>2, LaidScan
<1>3. CASE CopyEntries
  <2>1. /\ par_entry' = h_par_entry /\ par_ncell' = par_ncell /\ phase = "scan"
        /\ phase' = "concatenate" /\ scan >= ParDeg
    BY <1>3, Zenon DEF CopyEntries
  <2>2. scan = ParDeg
    BY <2>1, CodecAssumption DEF IInv, TypeOK
  <2> QED
    BY <2>1, <2>2 DEF Laid, Apart
<1>4. CASE \E t \in Chunk : Concatenate(t)
  <2>1. UNCHANGED <<phase, par_entry, par_ncell>> /\ phase = "concatenate"
    BY <1>4 DEF Concatenate, metadata
  <2> QED
    BY <2>1 DEF Laid, Apart
<1>5. CASE \/ Collect \/ Return \/ Call
           \/ \E t \in Chunk : Deflate(t) \/ LastCell(t) \/ Inflate(t)
  <2>1. phase' \in {"idle", "inflate", "deflate"}
    BY <1>5, Zenon DEF Collect, Return, Call, Decode, Encode, ClearBuffer, Deflate, LastCell, Inflate
  <2> QED
    BY <2>1 DEF Laid
<1>6. CASE UNCHANGED vars
  BY <1>6 DEF vars, metadata, Laid, Apart
<1> QED
  BY <1>1, <1>2, <1>3, <1>4, <1>5, <1>6, Zenon DEF Next, Step, EncodeStep, DecodeStep
-----------------------------------------------------------------------------
(* What the blocks have copied to the bitstream.                            *)

(* A chunk's place is within the bitstream, and no other's.                 *)
LEMMA OwnPlace ==
  ASSUME IInv, Room, Apart(par_entry, ParDeg), NEW t \in Chunk, NEW c \in 0 .. par_ncell[t] - 1
  PROVE  /\ par_entry[t] \in Nat /\ par_ncell[t] \in Nat /\ par_entry[t] + c \in 0 .. MaxLen - 1
         /\ \A s \in Chunk : s # t => par_entry[t] + c - par_entry[s] \notin 0 .. par_ncell[s] - 1
<1>1. /\ t \in 0 .. ParDeg - 1 /\ ParDeg \in Nat /\ MaxLen \in Nat
      /\ par_entry \in [Chunk -> Nat] /\ par_ncell \in [Chunk -> Nat]
  BY CodecAssumption DEF Chunk, IInv, TypeOK
<1>2. par_entry[t] \in Nat /\ par_ncell[t] \in Nat
  BY <1>1
<1>3. par_entry[t] <= Clip(t)
  BY <1>1 DEF Apart
<1>4. Clip(t) + par_ncell[t] <= Clip(t + 1) /\ Clip(t) \in 0 .. MaxLen
      /\ Clip(t + 1) \in 0 .. MaxLen
  BY RoomBounds
<1>5. par_entry[t] + c \in 0 .. MaxLen - 1
  BY <1>1, <1>2, <1>3, <1>4
<1>6. ASSUME NEW s \in Chunk, s # t
      PROVE  par_entry[t] + c - par_entry[s] \notin 0 .. par_ncell[s] - 1
  <2>1. s \in 0 .. ParDeg - 1 /\ par_entry[s] \in Nat /\ par_ncell[s] \in Nat
    BY <1>1 DEF Chunk
  <2>2. CASE s < t
    <3>1. s \in 0 .. t - 1
      BY <1>1, <2>1, <2>2
    <3>2. par_entry[s] + par_ncell[s] <= par_entry[t]
      BY <1>1, <3>1 DEF Apart
    <3> QED
      BY <1>2, <2>1, <3>2
  <2>3. CASE t < s
    <3>1. t \in 0 .. s - 1
      BY <1>1, <2>1, <2>3
    <3>2. par_entry[t] + par_ncell[t] <= par_entry[s]
      BY <2>1, <3>1 DEF Apart
    <3> QED
      BY <1>2, <2>1, <3>2
  <2> QED
    BY <1>1, <1>6, <2>1, <2>2, <2>3
<1> QED
  BY <1>2, <1>5, <1>6

LEMMA CopiedConcatenate ==
  ASSUME IInv, Room, Laid, Copied, NEW t \in Chunk, Concatenate(t)
  PROVE  Copied'
<1>1. /\ phase = "concatenate" /\ buffer' = buffer
      /\ par_entry' = par_entry /\ par_ncell' = par_ncell
      /\ thread' = [thread EXCEPT ![t].at = "done"]
      /\ bitstream' = [k \in DOMAIN bitstream |->
           IF k - par_entry[t] \in 0 .. par_ncell[t] - 1
             THEN buffer[Base(t) + k - par_entry[t]] ELSE bitstream[k]]
  BY Zenon DEF Concatenate, metadata
<1>2. Apart(par_entry, ParDeg) /\ DOMAIN bitstream = 0 .. MaxLen - 1 /\ DOMAIN bitstream' = 0 .. MaxLen - 1
  BY <1>1 DEF Laid, Copied
<1>3. \A s \in Chunk : s # t => thread'[s] = thread[s]
  <2>1. thread \in [Chunk -> Threads]
    BY DEF IInv, TypeOK
  <2> QED
    BY <1>1, <2>1
<1>4. ASSUME NEW s \in Chunk, thread'[s].at = "done", NEW c \in 0 .. par_ncell[s] - 1
      PROVE  bitstream'[par_entry[s] + c] = buffer[Base(s) + c]
  <2> DEFINE k == par_entry[s] + c
  <2>1. par_entry[s] \in Nat /\ par_ncell[s] \in Nat /\ k \in 0 .. MaxLen - 1
    BY <1>2, OwnPlace
  <2>2. CASE s = t
    <3>1. k - par_entry[t] = c /\ Base(t) + k - par_entry[t] = Base(s) + c
      <4>1. Base(t) \in Nat
        BY ChunkPlaces
      <4> QED
        BY <2>1, <2>2, <4>1
    <3> HIDE DEF k
    <3>2. bitstream'[k] = buffer[Base(s) + c]
      BY <1>1, <1>2, <2>1, <2>2, <3>1
    <3> QED
      BY <3>2 DEF k
  <2>3. CASE s # t
    <3>1. k - par_entry[t] \notin 0 .. par_ncell[t] - 1
      <4>1. \A r \in Chunk : r # s => par_entry[s] + c - par_entry[r] \notin 0 .. par_ncell[r] - 1
        BY <1>2, OwnPlace, Zenon
      <4>2. par_entry[t] \in Nat /\ par_ncell[t] \in Nat
        BY DEF IInv, TypeOK
      <4> QED
        BY <2>1, <2>3, <4>1, <4>2
    <3>2. bitstream[k] = buffer[Base(s) + c]
      <4>1. thread[s].at = "done"
        BY <1>3, <1>4, <2>3
      <4> QED
        BY <1>1, <4>1 DEF Copied
    <3> HIDE DEF k
    <3>3. bitstream'[k] = bitstream[k]
      BY <1>1, <1>2, <2>1, <3>1
    <3> QED
      BY <3>2, <3>3 DEF k
  <2> QED
    BY <2>2, <2>3
<1> QED
  BY <1>1, <1>2, <1>4 DEF Copied

LEMMA CopiedStep ==
  ASSUME IInv, Room, Laid, Copied, [Next]_vars
  PROVE  Copied'
<1>1. CASE \E t \in Chunk : Concatenate(t)
  BY <1>1, CopiedConcatenate
<1>2. CASE CopyEntries
  <2>1. bitstream' = bitstream /\ thread' = [t \in Chunk |-> Begun("run")]
    BY <1>2, Zenon DEF CopyEntries
  <2>2. \A t \in Chunk : thread'[t].at # "done"
    BY <2>1 DEF Begun
  <2> QED
    BY <2>1, <2>2 DEF Copied
<1>3. CASE ClearBuffer
  BY <1>3 DEF ClearBuffer, Copied
<1>4. CASE \/ CopyBack \/ Scan \/ Collect \/ Return \/ Decode
           \/ \E f \in Fields, b \in Books : Encode(f, b)
           \/ \E t \in Chunk : Deflate(t) \/ LastCell(t) \/ Inflate(t)
  <2>1. ASSUME NEW t \in Chunk, Deflate(t) \/ LastCell(t) \/ Inflate(t)
        PROVE  bitstream' = bitstream /\ phase' # "concatenate"
    BY <2>1, Zenon DEF Deflate, LastCell, Inflate
  <2>2. bitstream' = bitstream /\ phase' # "concatenate"
    BY <1>4, <2>1 DEF CopyBack, Scan, Collect, Return, Decode, Encode
  <2> QED
    BY <2>2 DEF Copied
<1>5. CASE UNCHANGED vars
  BY <1>5 DEF vars, metadata, Copied
<1> QED
  BY <1>1, <1>2, <1>3, <1>4, <1>5, Zenon DEF Next, Step, EncodeStep, DecodeStep, Call
-----------------------------------------------------------------------------
(* The archive.                                                             *)

(* What std::accumulate() returns: whatever has its partial sums has its    *)
(* sum.                                                                     *)
LEMMA TotalIs ==
  ASSUME par_ncell \in [Chunk -> Nat], NEW g \in [0 .. ParDeg -> Nat], g[0] = 0,
         \A k \in 1 .. ParDeg : g[k] = g[k - 1] + par_ncell[k - 1]
  PROVE  total_ncell = g[ParDeg]
<1> DEFINE Sums(h) == h = [k \in 0 .. ParDeg |-> IF k = 0 THEN 0 ELSE h[k - 1] + par_ncell[k - 1]]
           sum     == CHOOSE h : Sums(h)
<1>0. ParDeg \in Nat \ {0}
  BY CodecAssumption
<1>1. Sums(g)
  <2>1. \A k \in 0 .. ParDeg : g[k] = IF k = 0 THEN 0 ELSE g[k - 1] + par_ncell[k - 1]
    BY <1>0
  <2> QED
    BY <2>1
<1>2. Sums(sum)
  <2> HIDE DEF Sums
  <2> QED
    BY <1>1
<1>3. total_ncell = sum[ParDeg]
  BY DEF total_ncell
<1>4. \A k \in 0 .. ParDeg : sum[k] = IF k = 0 THEN 0 ELSE sum[k - 1] + par_ncell[k - 1]
  <2>1. sum = [k \in 0 .. ParDeg |-> IF k = 0 THEN 0 ELSE sum[k - 1] + par_ncell[k - 1]]
    BY <1>2
  <2> HIDE DEF sum
  <2>2. ASSUME NEW k \in 0 .. ParDeg
        PROVE  sum[k] = IF k = 0 THEN 0 ELSE sum[k - 1] + par_ncell[k - 1]
    BY <2>1
  <2> QED
    BY <2>2
<1> HIDE DEF Sums, sum
<1>5. ASSUME NEW k \in 0 .. ParDeg, sum[k] # g[k] PROVE FALSE
  <2> DEFINE S == {n \in 0 .. ParDeg : sum[n] # g[n]}
  <2>1. S \in SUBSET Nat /\ S # {}
    <3>1. k \in S
      BY <1>5
    <3>2. \A n \in S : n \in Nat
      BY <1>0
    <3> HIDE DEF S
    <3> QED
      BY <3>1, <3>2
  <2> HIDE DEF S
  <2>2. PICK m \in S : \A n \in S : m <= n
    BY <2>1, Least
  <2>3. m \in 0 .. ParDeg /\ sum[m] # g[m]
    BY <2>2 DEF S
  <2>4. m # 0
    BY <1>4, <2>3
  <2>5. m - 1 \in 0 .. ParDeg /\ m \in 1 .. ParDeg /\ ~(m <= m - 1)
    BY <1>0, <2>3, <2>4
  <2>6. sum[m - 1] = g[m - 1]
    BY <2>2, <2>5 DEF S
  <2> QED
    BY <1>4, <2>3, <2>4, <2>5, <2>6
<1> QED
  BY <1>0, <1>3, <1>5

(* The cells of all chunks are counted, and the bitstream has as many.      *)
LEMMA TotalCells ==
  ASSUME IInv, Room, phase = "concatenate", ChunksTile, Apart(par_entry, ParDeg)
  PROVE  /\ total_ncell \in 0 .. MaxLen
         /\ \A t \in Chunk : par_entry[t] + par_ncell[t] <= total_ncell
<1> DEFINE last  == ParDeg - 1
           total == par_entry[last] + par_ncell[last]
           g     == [k \in 0 .. ParDeg |-> IF k < ParDeg THEN par_entry[k] ELSE total]
<1>1. /\ ParDeg \in Nat \ {0} /\ Chunk = 0 .. ParDeg - 1 /\ last \in Chunk
      /\ par_ncell \in [Chunk -> Nat] /\ par_entry \in [Chunk -> Nat]
  BY CodecAssumption DEF Chunk, IInv, TypeOK
<1>2. total \in Nat
  BY <1>1
<1>3. /\ par_entry[0] = 0
      /\ \A t \in Chunk \ {0} : par_entry[t] = par_entry[t - 1] + par_ncell[t - 1]
  BY DEF ChunksTile
<1>4. g \in [0 .. ParDeg -> Nat]
  BY <1>1, <1>2
<1>5. g[0] = 0
  BY <1>1, <1>3
<1>6. ASSUME NEW k \in 1 .. ParDeg
      PROVE  g[k] = g[k - 1] + par_ncell[k - 1]
  <2>1. k - 1 \in Chunk /\ g[k - 1] = par_entry[k - 1]
    BY <1>1
  <2>2. CASE k = ParDeg
    BY <1>1, <1>2, <2>1, <2>2
  <2>3. CASE k # ParDeg
    <3>1. k \in Chunk \ {0} /\ g[k] = par_entry[k]
      BY <1>1, <2>3
    <3> QED
      BY <1>3, <2>1, <3>1
  <2> QED
    BY <2>2, <2>3
<1>7. g[ParDeg] = total
  BY <1>1
<1> HIDE DEF g
<1>8. total_ncell = total
  BY <1>1, <1>4, <1>5, <1>6, <1>7, TotalIs
<1>9. total <= MaxLen
  <2>1. par_entry[last] <= Clip(last)
    BY <1>1 DEF Apart
  <2>2. Clip(last) + par_ncell[last] <= Clip(last + 1) /\ Clip(last) \in 0 .. MaxLen
        /\ Clip(last + 1) \in 0 .. MaxLen
    BY <1>1, RoomBounds
  <2> QED
    BY <1>1, <2>1, <2>2, CodecAssumption
<1>10. ASSUME NEW t \in Chunk PROVE par_entry[t] + par_ncell[t] <= total
  <2>1. CASE t = last
    BY <1>1, <2>1
  <2>2. CASE t # last
    <3>1. t \in 0 .. last - 1 /\ last \in 0 .. ParDeg - 1
      BY <1>1, <2>2
    <3>2. par_entry[t] + par_ncell[t] <= par_entry[last]
      BY <3>1 DEF Apart
    <3>3. par_entry[t] \in Nat /\ par_ncell[t] \in Nat /\ par_ncell[last] \in Nat
          /\ par_entry[last] \in Nat
      BY <1>1
    <3> QED
      BY <3>2, <3>3
  <2> QED
    BY <2>1, <2>2
<1> QED
  BY <1>2, <1>8, <1>9, <1>10, CodecAssumption
(* A chunk's bits, from the buffer through the bitstream to the archive.    *)
LEMMA CollectChunk ==
  ASSUME IInv, ChunksTile, Carried, Room, Laid, Copied, Collect,
         NEW t \in Chunk, Base(t) < field.len
  PROVE  \E B, pos : InArchive(B, pos, archive', t)
<1>1. /\ phase = "concatenate" /\ \A s \in Chunk : thread[s].at = "done"
      /\ archive' = [kind |-> "archive", of |-> field, book |-> book, nbit |-> par_nbit,
                     entry |-> par_entry,
                     cells |-> [k \in 0 .. total_ncell - 1 |-> bitstream[k]]]
  BY Zenon DEF Collect, AllDone
<1>2. Apart(par_entry, ParDeg)
  BY <1>1 DEF Laid
<1>3. Deflated(t)
  BY <1>1 DEF Carried
<1>4. PICK B, pos : Whole(B, pos, field, book, t, par_nbit[t], par_ncell[t], buffer)
  BY <1>3 DEF Deflated
<1> DEFINE a == archive'
<1>5. /\ a.of = field /\ a.book = book /\ a.nbit = par_nbit /\ a.entry = par_entry
      /\ a.cells = [k \in 0 .. total_ncell - 1 |-> bitstream[k]]
  BY <1>1
<1> HIDE DEF a
<1>6. /\ Spelled(B, pos, field, book, t, Words(field, t))
      /\ par_nbit[t] = pos[Words(field, t)]
      /\ \A m \in 0 .. par_nbit[t] - 1 :
           m \div CellBits < par_ncell[t] /\ B[m] = BitOf(buffer, Base(t), m)
  BY <1>4 DEF Whole
<1>7. par_nbit[t] \in Nat /\ par_ncell[t] \in Nat /\ par_entry[t] \in Nat
  BY DEF IInv, TypeOK
<1>8. total_ncell \in Nat /\ par_entry[t] + par_ncell[t] <= total_ncell
  BY <1>1, <1>2, TotalCells
<1>9. ASSUME NEW c \in 0 .. par_ncell[t] - 1
      PROVE  /\ par_entry[t] + c \in 0 .. total_ncell - 1
             /\ a.cells[par_entry[t] + c] = buffer[Base(t) + c]
  <2>1. par_entry[t] + c \in 0 .. total_ncell - 1
    BY <1>7, <1>8
  <2>2. bitstream[par_entry[t] + c] = buffer[Base(t) + c]
    BY <1>1 DEF Copied
  <2> QED
    BY <1>5, <2>1, <2>2
<1>10. ASSUME NEW m \in 0 .. par_nbit[t] - 1
       PROVE  /\ par_entry[t] + m \div CellBits \in DOMAIN a.cells
              /\ B[m] = BitOf(a.cells, par_entry[t], m)
  <2>1. m \div CellBits \in Nat
    <3>1. CellBits \in Nat \ {0} /\ m \in Nat
      BY CodecAssumption
    <3> QED
      BY <3>1, Division
  <2>2. m \div CellBits < par_ncell[t] /\ B[m] = BitOf(buffer, Base(t), m)
    BY <1>6
  <2> DEFINE q == m \div CellBits
  <2>3. q \in 0 .. par_ncell[t] - 1
    BY <1>7, <2>1, <2>2
  <2> HIDE DEF q
  <2>4. /\ par_entry[t] + q \in 0 .. total_ncell - 1
        /\ a.cells[par_entry[t] + q] = buffer[Base(t) + q]
    BY <1>9, <2>3
  <2>5. DOMAIN a.cells = 0 .. total_ncell - 1
    BY <1>5
  <2>6. BitOf(a.cells, par_entry[t], m) = BitOf(buffer, Base(t), m)
    BY <2>4 DEF BitOf, q
  <2>7. par_entry[t] + q \in DOMAIN a.cells
    BY <2>4, <2>5
  <2> QED
    BY <2>2, <2>6, <2>7 DEF q
<1>11. InArchive(B, pos, a, t)
  BY <1>5, <1>6, <1>10 DEF InArchive
<1> QED
  BY <1>11 DEF a

LEMMA ArchivedStep ==
  ASSUME IInv, ChunksTile, Carried, Room, Laid, Copied, Archived, [Next]_vars
  PROVE  Archived'
<1>1. CASE Collect
  <2>1. archive'.of = field /\ archive'.book = book
    BY <1>1 DEF Collect
  <2>2. field \in Fields /\ book \in Books
    BY DEF IInv, TypeOK
  <2>3. \A t \in Chunk : Base(t) < field.len => \E B, pos : InArchive(B, pos, archive', t)
    BY <1>1, CollectChunk
  <2> QED
    BY <2>1, <2>2, <2>3 DEF Archived
<1>2. CASE ~Collect
  <2>1. ASSUME NEW t \in Chunk, Deflate(t) \/ LastCell(t) \/ Concatenate(t) \/ Inflate(t)
        PROVE  archive' = archive
    BY <2>1, Zenon DEF Deflate, LastCell, Concatenate, Inflate
  <2>2. archive' = archive
    BY <1>2, <2>1, Zenon DEF Next, Step, EncodeStep, DecodeStep, Call, CopyBack, Scan,
      CopyEntries, Return, Decode, ClearBuffer, Encode, vars
  <2> QED
    BY <2>2 DEF Archived
<1> QED
  BY <1>1, <1>2
-----------------------------------------------------------------------------
(* Reading an archive.                                                      *)

\* The bits from "at" on are those of w, as far as there are any.
Matches(B, at, N, w) == \A j \in 1 .. Len(w) : at + j - 1 < N => w[j] = B[at + j - 1]

(* The bits of a book's codewords are known, and two codewords differ where *)
(* both have bits.                                                          *)
LEMMA WordsDiffer ==
  ASSUME NEW b \in Books, NEW r \in Symbol, NEW s \in Symbol, r # s
  PROVE  /\ Len(b[r]) \in Nat /\ Len(b[s]) \in Nat
         /\ \E j \in 1 .. Len(b[r]) : j <= Len(b[s]) /\ b[r][j] # b[s][j]
<1>1. b[r] \in Code /\ b[s] \in Code
  BY CodecAssumption
<1>2. Len(b[r]) \in Nat /\ Len(b[s]) \in Nat
  BY <1>1, WordIsSeq
<1>3. CASE Len(b[r]) <= Len(b[s])
  <2>1. \E j \in 1 .. Len(b[r]) : b[r][j] # b[s][j]
    BY <1>3, CodecAssumption
  <2> QED
    BY <1>2, <1>3, <2>1
<1>4. CASE Len(b[s]) <= Len(b[r])
  <2>1. \E j \in 1 .. Len(b[s]) : b[s][j] # b[r][j]
    BY <1>4, CodecAssumption
  <2> QED
    BY <1>2, <1>4, <2>1
<1> QED
  BY <1>2, <1>3, <1>4

(* Only the codeword that was written there matches.                        *)
LEMMA RightWord ==
  ASSUME NEW f \in Fields, NEW b \in Books, NEW t \in Chunk, Base(t) < f.len,
         NEW i \in 0 .. Words(f, t) - 1, NEW B, NEW pos,
         Spelled(B, pos, f, b, t, Words(f, t)), NEW s \in Symbol,
         Matches(B, pos[i], pos[Words(f, t)], b[s])
  PROVE  s = f.data[Base(t) + i]
<1> DEFINE n == Words(f, t)
           r == f.data[Base(t) + i]
<1>1. n \in Nat /\ n > 0 /\ Base(t) + i < f.len /\ i \in Nat
  BY WordsBound, ChunkPlaces, CodecAssumption
<1>2. r \in Symbol /\ b[r] = WordOf(f, b, t, i)
  BY <1>1, WordBits DEF WordOf
<1>3. pos[i] \in Nat /\ pos[i + 1] \in Nat /\ Lies(B, pos, WordOf(f, b, t, i), i, n)
  BY <1>1, SpelledWord
<1>4. pos[n] \in Nat
  BY <1>1, SpelledType
<1>5. Matches(B, pos[i], pos[n], b[s])
  OBVIOUS
<1> SUFFICES ASSUME r # s PROVE FALSE
  OBVIOUS
<1> HIDE DEF n, r
<1>6. /\ Len(b[r]) \in Nat /\ Len(b[s]) \in Nat
      /\ \E j \in 1 .. Len(b[r]) : j <= Len(b[s]) /\ b[r][j] # b[s][j]
  BY <1>2, WordsDiffer
<1>7. PICK j \in 1 .. Len(b[r]) : j <= Len(b[s]) /\ b[r][j] # b[s][j]
  BY <1>6
<1>8. /\ pos[i + 1] = pos[i] + Len(b[r]) /\ pos[i + 1] <= pos[n]
      /\ B[pos[i] + j - 1] = b[r][j]
  BY <1>2, <1>3, <1>7 DEF Lies
<1>9. pos[i] + j - 1 < pos[n] /\ j \in 1 .. Len(b[s])
  BY <1>3, <1>4, <1>6, <1>7, <1>8
<1>10. b[s][j] = B[pos[i] + j - 1]
  BY <1>5, <1>9 DEF Matches
<1> QED
  BY <1>7, <1>8, <1>10

(* A codeword ends where the next begins, and only the last one where the   *)
(* chunk's bits end.                                                        *)
LEMMA WordEnds ==
  ASSUME NEW f \in Fields, NEW b \in Books, NEW t \in Chunk, Base(t) < f.len,
         NEW i \in 0 .. Words(f, t) - 1, NEW B, NEW pos,
         Spelled(B, pos, f, b, t, Words(f, t))
  PROVE  /\ pos[i + 1] = pos[i] + Len(WordOf(f, b, t, i))
         /\ pos[i] \in Nat /\ pos[i + 1] \in Nat /\ pos[Words(f, t)] \in Nat
         /\ pos[i] < pos[i + 1]
         /\ pos[i + 1] < pos[Words(f, t)] <=> i + 1 < Words(f, t)
<1> DEFINE n == Words(f, t)
<1>1. n \in Nat /\ n > 0 /\ Base(t) + n <= f.len /\ Base(t) \in Nat /\ f.len \in Nat
  BY WordsBound, ChunkPlaces, CodecAssumption
<1>2. pos[n] \in Nat
  BY <1>1, SpelledType
<1>3. ASSUME NEW k \in 0 .. n - 1
      PROVE  /\ pos[k + 1] = pos[k] + Len(WordOf(f, b, t, k)) /\ pos[k + 1] <= pos[n]
             /\ pos[k] \in Nat /\ pos[k + 1] \in Nat /\ pos[k] < pos[k + 1]
  <2>1. k \in Nat /\ Base(t) + k < f.len
    BY <1>1
  <2>2. pos[k] \in Nat /\ pos[k + 1] \in Nat /\ Lies(B, pos, WordOf(f, b, t, k), k, n)
    BY <1>1, SpelledWord
  <2>3. Len(WordOf(f, b, t, k)) \in Nat \ {0}
    BY <2>1, WordBits
  <2> DEFINE w == WordOf(f, b, t, k)
  <2>4. Len(w) \in Nat \ {0} /\ Lies(B, pos, w, k, n)
    BY <2>2, <2>3
  <2> HIDE DEF w
  <2>5. pos[k + 1] = pos[k] + Len(w) /\ pos[k + 1] <= pos[n] /\ pos[k] < pos[k + 1]
    BY <2>2, <2>4 DEF Lies
  <2> QED
    BY <2>2, <2>5 DEF w
<1>4. i \in 0 .. n - 1
  OBVIOUS
<1> HIDE DEF n
<1>5. CASE i + 1 < n
  <2> DEFINE k == i + 1
  <2>1. k \in 0 .. n - 1
    BY <1>1, <1>4, <1>5
  <2> HIDE DEF k
  <2>2. pos[k] < pos[k + 1] /\ pos[k + 1] <= pos[n] /\ pos[k] \in Nat /\ pos[k + 1] \in Nat
    BY <1>3, <2>1
  <2>3. pos[i + 1] < pos[n]
    BY <1>2, <2>2 DEF k
  <2> QED
    BY <1>2, <1>3, <1>4, <1>5, <2>3 DEF n
<1>6. CASE i + 1 = n
  <2>1. ~(pos[i + 1] < pos[n])
    BY <1>2, <1>6
  <2>2. ~(i + 1 < n)
    BY <1>1, <1>6
  <2> QED
    BY <1>2, <1>3, <1>4, <2>1, <2>2 DEF n
<1> QED
  BY <1>1, <1>4, <1>5, <1>6
(* The bits a thread reads are its chunk's.                                 *)
LEMMA BitsRead ==
  ASSUME NEW t \in Chunk, NEW B, NEW pos, InArchive(B, pos, archive, t),
         archive.nbit[t] \in Nat, NEW m \in 0 .. archive.nbit[t] - 1
  PROVE  BitAt(t, m) = B[m]
<1>1. /\ archive.entry[t] + m \div CellBits \in DOMAIN archive.cells
      /\ B[m] = BitOf(archive.cells, archive.entry[t], m)
  BY DEF InArchive
<1> QED
  BY <1>1 DEF BitAt, BitOf

LEMMA InflatedDecode ==
  ASSUME Archived, Decode
  PROVE  Inflated'
<1>1. /\ archive # None /\ archive' = archive /\ phase' = "inflate"
      /\ thread' = Inflaters
      /\ \E s \in Symbol : out' = [k \in 0 .. Base(ParDeg) - 1 |-> s]
  BY Zenon DEF Decode
<1>2. out' \in [0 .. Base(ParDeg) - 1 -> Symbol]
  BY <1>1
<1>3. ASSUME NEW t \in Chunk, Base(t) < archive.of.len
      PROVE  Inflating(t)'
  <2>1. /\ archive.of \in Fields /\ archive.book \in Books
        /\ \E B, pos : InArchive(B, pos, archive, t)
    BY <1>1, <1>3 DEF Archived
  <2>2. PICK B, pos : InArchive(B, pos, archive, t)
    BY <2>1
  <2> DEFINE f == archive.of
             b == archive.book
             n == Words(f, t)
  <2>3. n \in 1 .. Sublen /\ n \in Nat /\ n > 0
    BY <1>3, <2>1, WordsBound, ChunkPlaces
  <2>4. Spelled(B, pos, f, b, t, n) /\ archive.nbit[t] = pos[n]
    BY <2>2 DEF InArchive
  <2>5. pos[0] = 0
    <3> HIDE DEF f, b, n
    <3> QED
      BY <2>3, <2>4, SpelledType
  <2>6. archive.nbit[t] > 0
    <3>1. 0 \in 0 .. n - 1
      BY <2>3
    <3>2. /\ pos[0] \in Nat /\ pos[0 + 1] \in Nat /\ pos[n] \in Nat
          /\ pos[0] < pos[0 + 1]
          /\ pos[0 + 1] < pos[n] <=> 0 + 1 < n
      BY <1>3, <2>1, <2>4, <3>1, WordEnds
    <3>3. n = 1 \/ 1 < n
      BY <2>3
    <3> QED
      BY <2>4, <2>5, <3>2, <3>3
  <2> DEFINE me == thread'[t]
  <2>7. me.at = "run" /\ me.i = 0 /\ me.total_bits = 0
    BY <1>1, <2>6 DEF Inflaters, Begun
  <2> HIDE DEF me, n
  <2>8. 0 \in 0 .. n /\ 0 .. me.i - 1 = {} /\ me.i < n
    BY <2>3, <2>7
  <2>9. Reading(pos, f, t, me, out')
    BY <2>5, <2>7, <2>8 DEF Reading, n
  <2>10. InArchive(B, pos, archive', t) /\ Reading(pos, archive'.of, t, thread'[t], out')
    BY <1>1, <2>2, <2>9 DEF me
  <2> QED
    BY <2>10 DEF Inflating
<1> QED
  BY <1>1, <1>2, <1>3 DEF Inflated

(* One codeword: the thread writes the quant-code that was encoded, and is  *)
(* done just when it was the chunk's last.                                  *)
LEMMA InflatesOwn ==
  ASSUME IInv, Archived, Inflated, NEW t \in Chunk, Base(t) < archive.of.len, Inflate(t)
  PROVE  Inflating(t)'
<1> DEFINE me == thread[t]
           f  == archive.of
           b  == archive.book
           n  == Words(f, t)
<1>1. /\ phase = "inflate" /\ me.at = "run" /\ archive' = archive
      /\ \E s \in Symbol :
           LET next == me.total_bits + Len(archive.book[s]) IN
           /\ Ahead(s, t, me.total_bits)
           /\ out' = IF Base(t) + me.i \in DOMAIN out
                       THEN [out EXCEPT ![Base(t) + me.i] = s] ELSE out
           /\ thread' = [thread EXCEPT ![t] = [me EXCEPT
                           !.i = @ + 1, !.total_bits = next,
                           !.at = IF next < archive.nbit[t] THEN "run" ELSE "done"]]
  BY Zenon DEF Inflate
<1>2. /\ archive # None /\ archive.nbit[t] \in Nat
      /\ thread \in [Chunk -> Threads]
  BY <1>1 DEF IInv, TypeOK
<1>3. f \in Fields /\ b \in Books
  BY <1>2 DEF Archived
<1>4. out \in [0 .. Base(ParDeg) - 1 -> Symbol] /\ Inflating(t)
  BY <1>1 DEF Inflated
<1>5. PICK B, pos : InArchive(B, pos, archive, t) /\ Reading(pos, f, t, me, out)
  BY <1>4 DEF Inflating
<1>6. Spelled(B, pos, f, b, t, n) /\ archive.nbit[t] = pos[n]
  BY <1>5 DEF InArchive
<1>7. /\ me.i \in 0 .. n /\ me.i < n /\ me.total_bits = pos[me.i]
      /\ \A k \in 0 .. me.i - 1 : out[Base(t) + k] = f.data[Base(t) + k]
  BY <1>1, <1>5 DEF Reading
<1>8. /\ n \in 1 .. Sublen /\ Base(t) + n <= f.len /\ f.len \in 1 .. MaxLen
      /\ Base(t) \in Nat /\ Sublen \in Nat /\ MaxLen \in Nat
      /\ MaxLen <= Base(ParDeg) /\ Base(ParDeg) \in Nat
  BY <1>3, WordsBound, ChunkPlaces
<1>9. me.i \in 0 .. n - 1 /\ me.i \in Nat
  BY <1>7, <1>8
<1> DEFINE i == me.i
<1>10. /\ pos[i + 1] = pos[i] + Len(WordOf(f, b, t, i))
       /\ pos[i] \in Nat /\ pos[i + 1] \in Nat /\ pos[n] \in Nat
       /\ pos[i + 1] < pos[n] <=> i + 1 < n
  <2>1. Base(t) < f.len /\ i \in 0 .. Words(f, t) - 1 /\ Spelled(B, pos, f, b, t, Words(f, t))
    BY <1>6, <1>9
  <2> HIDE DEF f, b, i
  <2> QED
    BY <1>3, <2>1, WordEnds
<1>11. PICK s \in Symbol :
         LET next == me.total_bits + Len(archive.book[s]) IN
         /\ Ahead(s, t, me.total_bits)
         /\ out' = IF Base(t) + me.i \in DOMAIN out
                     THEN [out EXCEPT ![Base(t) + me.i] = s] ELSE out
         /\ thread' = [thread EXCEPT ![t] = [me EXCEPT
                         !.i = @ + 1, !.total_bits = next,
                         !.at = IF next < archive.nbit[t] THEN "run" ELSE "done"]]
  BY <1>1, Zenon
<1>12. Matches(B, pos[i], pos[n], b[s])
  <2>1. b[s] \in Code /\ Len(b[s]) \in Nat
    <3>1. b[s] \in Code
      BY <1>3, CodecAssumption
    <3> QED
      BY <3>1, WordIsSeq
  <2>2. ASSUME NEW j \in 1 .. Len(b[s]), pos[i] + j - 1 < pos[n]
        PROVE  b[s][j] = B[pos[i] + j - 1]
    <3> DEFINE m == pos[i] + j - 1
    <3>1. m \in 0 .. archive.nbit[t] - 1
      BY <1>6, <1>10, <2>1, <2>2
    <3>2. b[s][j] = BitAt(t, m)
      BY <1>7, <1>11 DEF Ahead
    <3> HIDE DEF m
    <3>3. BitAt(t, m) = B[m]
      BY <1>2, <1>5, <3>1, BitsRead
    <3> QED
      BY <3>2, <3>3 DEF m
  <2> QED
    BY <2>2 DEF Matches
<1>13. s = f.data[Base(t) + i]
  BY <1>3, <1>6, <1>9, <1>12, RightWord
<1>14. me.total_bits + Len(archive.book[s]) = pos[i + 1]
  BY <1>7, <1>10, <1>13 DEF WordOf
<1> DEFINE k0   == Base(t) + i
           then == thread'[t]
<1>15. out' = [out EXCEPT ![k0] = s] /\ k0 \in 0 .. Base(ParDeg) - 1
  <2>1. k0 \in 0 .. Base(ParDeg) - 1
    BY <1>8, <1>9
  <2>2. DOMAIN out = 0 .. Base(ParDeg) - 1
    BY <1>4
  <2> QED
    BY <1>11, <2>1, <2>2
<1>16. /\ then.i = i + 1 /\ then.total_bits = pos[i + 1]
       /\ then.at = IF pos[i + 1] < pos[n] THEN "run" ELSE "done"
  <2>1. thread' = [thread EXCEPT ![t] = [me EXCEPT
          !.i = @ + 1, !.total_bits = pos[i + 1],
          !.at = IF pos[i + 1] < pos[n] THEN "run" ELSE "done"]]
    BY <1>6, <1>11, <1>14
  <2>2. me \in Threads
    BY <1>2
  <2> QED
    BY <1>2, <2>1, <2>2 DEF Threads
<1> HIDE DEF then, n, i, k0
<1>17. ASSUME NEW k \in 0 .. i PROVE out'[Base(t) + k] = f.data[Base(t) + k]
  <2>1. CASE k = i
    BY <1>4, <1>13, <1>15, <2>1 DEF k0
  <2>2. CASE k # i
    <3>1. /\ k \in 0 .. i - 1
      BY <1>9, <2>2 DEF i
    <3>2. Base(t) + k # k0
      BY <1>8, <1>9, <2>2 DEF k0, i
    <3>3. out'[Base(t) + k] = out[Base(t) + k]
      <4>1. Base(t) + k \in 0 .. Base(ParDeg) - 1
        BY <1>8, <1>9, <3>1 DEF i
      <4> HIDE DEF i
      <4> QED
        BY <1>4, <1>15, <3>2, <4>1
    <3> QED
      BY <1>7, <3>1, <3>3 DEF i
  <2> QED
    BY <2>1, <2>2
<1>18. Reading(pos, f, t, then, out')
  <2>1. i + 1 \in 0 .. n /\ 0 .. i + 1 - 1 = 0 .. i
    BY <1>8, <1>9 DEF i
  <2>2. IF then.at = "run" THEN i + 1 < n ELSE i + 1 = n
    BY <1>8, <1>9, <1>10, <1>16, <2>1 DEF i
  <2>3. then.i \in 0 .. n /\ \A k \in 0 .. then.i - 1 : out'[Base(t) + k] = f.data[Base(t) + k]
    <3>1. then.i = i + 1
      BY <1>16
    <3>2. then.i \in 0 .. n /\ 0 .. then.i - 1 = 0 .. i
      <4>1. i \in Nat /\ n \in Nat
        BY <1>8, <1>9 DEF i
      <4> QED
        BY <2>1, <3>1, <4>1
    <3>3. \A k \in 0 .. i : out'[Base(t) + k] = f.data[Base(t) + k]
      BY <1>17, Zenon
    <3> QED
      BY <3>2, <3>3, Zenon
  <2>4. IF then.at = "run" THEN then.i < n /\ then.total_bits = pos[then.i] ELSE then.i = n
    BY <1>16, <2>2
  <2> QED
    BY <2>3, <2>4, Zenon DEF Reading, n
<1>19. InArchive(B, pos, archive', t) /\ Reading(pos, archive'.of, t, thread'[t], out')
  BY <1>1, <1>5, <1>18 DEF then
<1> QED
  BY <1>19 DEF Inflating
(* A thread writes no quant-code of another chunk that has any; one that    *)
(* was left without data could only write behind them.                      *)
LEMMA InflatesOthers ==
  ASSUME IInv, Archived, Inflated, NEW t \in Chunk, Inflate(t),
         NEW u \in Chunk, u # t, Base(u) < archive.of.len
  PROVE  Inflating(u)'
<1> DEFINE f  == archive.of
           i  == thread[t].i
           n  == Words(f, u)
<1>1. /\ phase = "inflate" /\ thread[t].at = "run" /\ archive' = archive
      /\ \E s : out' = [out EXCEPT ![Base(t) + i] = s] \/ out' = out
      /\ thread'[u] = thread[u]
  <2>1. thread \in [Chunk -> Threads]
    BY DEF IInv, TypeOK
  <2> QED
    BY <2>1 DEF Inflate
<1>2. f \in Fields /\ i \in Nat
  <2>1. archive # None /\ thread[t] \in Threads
    BY <1>1 DEF IInv, TypeOK
  <2> QED
    BY <2>1 DEF Archived, Threads
<1>3. /\ out \in [0 .. Base(ParDeg) - 1 -> Symbol] /\ Inflating(u)
      /\ Base(t) < f.len => Inflating(t)
  BY <1>1 DEF Inflated
<1>4. PICK B, pos : InArchive(B, pos, archive, u) /\ Reading(pos, f, u, thread[u], out)
  BY <1>3 DEF Inflating
<1>5. /\ n \in 1 .. Sublen /\ Base(u) + n <= f.len /\ f.len \in 1 .. MaxLen
      /\ Base(u) \in Nat /\ Base(t) \in Nat /\ Sublen \in Nat /\ MaxLen \in Nat
      /\ MaxLen <= Base(ParDeg) /\ Base(ParDeg) \in Nat /\ u \in Nat /\ t \in Nat
  BY <1>2, WordsBound, ChunkPlaces
<1>6. ASSUME NEW k \in 0 .. n - 1
      PROVE  Base(u) + k # Base(t) + i
  <2>1. CASE Base(t) < f.len
    <3>1. i < Words(f, t)
      BY <1>1, <1>3, <2>1 DEF Inflating, Reading
    <3>2. Words(f, t) \in 1 .. Sublen
      BY <1>2, <2>1, WordsBound
    <3>3. i < Sublen
      BY <1>2, <1>5, <3>1, <3>2
    <3>4. u < t => Base(u) + Sublen <= Base(t)
      BY ChunksApart
    <3>5. t < u => Base(t) + Sublen <= Base(u)
      BY ChunksApart
    <3> QED
      BY <1>2, <1>5, <3>3, <3>4, <3>5
  <2>2. CASE ~(Base(t) < f.len)
    BY <1>2, <1>5, <2>2
  <2> QED
    BY <2>1, <2>2
<1>7. ASSUME NEW k \in 0 .. n - 1 PROVE out'[Base(u) + k] = out[Base(u) + k]
  <2>1. Base(u) + k \in 0 .. Base(ParDeg) - 1
    BY <1>5
  <2>2. Base(u) + k # Base(t) + i
    BY <1>6
  <2> DEFINE place == Base(u) + k
             other == Base(t) + i
  <2>3. place \in 0 .. Base(ParDeg) - 1 /\ place # other
        /\ \E s : out' = [out EXCEPT ![other] = s] \/ out' = out
    BY <1>1, <2>1, <2>2
  <2> HIDE DEF place, other
  <2>4. out'[place] = out[place]
    BY <1>3, <2>3
  <2> QED
    BY <2>4 DEF place
<1> DEFINE me == thread[u]
<1>8. /\ me.i \in 0 .. n
      /\ \A k \in 0 .. me.i - 1 : out[Base(u) + k] = f.data[Base(u) + k]
      /\ IF me.at = "run" THEN me.i < n /\ me.total_bits = pos[me.i] ELSE me.i = n
  BY <1>4 DEF Reading
<1> HIDE DEF f, n, me
<1>9. \A k \in 0 .. me.i - 1 : out'[Base(u) + k] = f.data[Base(u) + k]
  <2>1. \A k \in 0 .. me.i - 1 : k \in 0 .. n - 1
    BY <1>5, <1>8
  <2> QED
    BY <1>7, <1>8, <2>1
<1>10. Reading(pos, f, u, me, out')
  BY <1>8, <1>9, Zenon DEF Reading, n
<1>11. InArchive(B, pos, archive', u) /\ Reading(pos, archive'.of, u, thread'[u], out')
  BY <1>1, <1>4, <1>10 DEF f, me
<1> QED
  BY <1>11 DEF Inflating

LEMMA InflatedInflate ==
  ASSUME IInv, Archived, Inflated, NEW t \in Chunk, Inflate(t)
  PROVE  Inflated'
<1>1. /\ phase = "inflate" /\ phase' = "inflate" /\ archive' = archive
      /\ \E s \in Symbol : out' = [out EXCEPT ![Base(t) + thread[t].i] = s] \/ out' = out
  BY DEF Inflate
<1>2. out \in [0 .. Base(ParDeg) - 1 -> Symbol]
  BY <1>1 DEF Inflated
<1>3. out' \in [0 .. Base(ParDeg) - 1 -> Symbol]
  BY <1>1, <1>2
<1>4. ASSUME NEW u \in Chunk, Base(u) < archive.of.len PROVE Inflating(u)'
  BY <1>4, InflatesOwn, InflatesOthers
<1> QED
  BY <1>1, <1>3, <1>4 DEF Inflated

LEMMA InflatedStep ==
  ASSUME IInv, Archived, Inflated, [Next]_vars
  PROVE  Inflated'
<1>1. CASE Decode
  BY <1>1, InflatedDecode
<1>2. CASE \E t \in Chunk : Inflate(t)
  BY <1>2, InflatedInflate
<1>3. CASE \/ CopyBack \/ Scan \/ CopyEntries \/ Collect \/ Return \/ ClearBuffer
           \/ \E f \in Fields, b \in Books : Encode(f, b)
           \/ \E t \in Chunk : Deflate(t) \/ LastCell(t) \/ Concatenate(t)
  <2>1. ASSUME NEW t \in Chunk, Deflate(t) \/ LastCell(t) \/ Concatenate(t)
        PROVE  phase' # "inflate"
    BY <2>1, Zenon DEF Deflate, LastCell, Concatenate
  <2>2. phase' # "inflate"
    BY <1>3, <2>1 DEF CopyBack, Scan, CopyEntries, Collect, Return, ClearBuffer, Encode
  <2> QED
    BY <2>2 DEF Inflated
<1>4. CASE UNCHANGED vars
  <2>1. UNCHANGED <<phase, archive, thread, out>>
    BY <1>4 DEF vars
  <2> QED
    BY <2>1 DEF Inflated, Inflating, Reading
<1> QED
  BY <1>1, <1>2, <1>3, <1>4, Zenon DEF Next, Step, EncodeStep, DecodeStep, Call
-----------------------------------------------------------------------------
(* The theorem.                                                             *)

LEMMA CarriedStep ==
  ASSUME IInv, Room, Carried, [Next]_vars
  PROVE  Carried' /\ Room'
<1>1. CASE \E f \in Fields, b \in Books : Encode(f, b)
  BY <1>1, CarriedEncode
<1>2. CASE \E t \in Chunk : Deflate(t)
  BY <1>2, CarriedDeflate
<1>3. CASE \E t \in Chunk : LastCell(t)
  BY <1>3, CarriedLastCell
<1>4. CASE CopyBack \/ Scan \/ CopyEntries \/ \E t \in Chunk : Concatenate(t)
  BY <1>4, CarriedOn
<1>5. CASE Collect \/ Decode \/ Return \/ ClearBuffer \/ \E t \in Chunk : Inflate(t)
  BY <1>5, CarriedIdle
<1>6. CASE UNCHANGED vars
  BY <1>6 DEF vars, metadata, Carried, Room, Deflating, Deflated
<1> QED
  BY <1>1, <1>2, <1>3, <1>4, <1>5, <1>6, Zenon DEF Next, Step, EncodeStep, DecodeStep, Call

LEMMA TripStart ==
  ASSUME HostJunk = {0}, Init
  PROVE  TripInv
<1>1. /\ phase = "idle" /\ archive = None /\ par_ncell = [t \in Chunk |-> 0]
      /\ h_par_entry = [k \in Chunk |-> 0]
      /\ bitstream = [k \in 0 .. MaxLen + h_par_entry[0] - 1 |-> Pad(<<>>)]
  BY DEF Init
<1>2. ASSUME NEW t \in Chunk PROVE par_ncell[t] <= Clip(t + 1) - Clip(t)
  <2>1. par_ncell[t] = 0
    BY <1>1
  <2> QED
    BY <2>1, ChunkPlaces DEF Clip
<1>3. DOMAIN bitstream = 0 .. MaxLen - 1
  <2>1. 0 \in Chunk /\ MaxLen \in Nat
    BY CodecAssumption DEF Chunk
  <2>2. MaxLen + h_par_entry[0] - 1 = MaxLen - 1
    BY <1>1, <2>1
  <2> QED
    BY <1>1, <2>2
<1> QED
  BY <1>1, <1>2, <1>3 DEF TripInv, Carried, Room, Laid, Copied, Archived, Inflated

LEMMA TripStep ==
  ASSUME IInv, ScannedInv, TripInv, [Next]_vars
  PROVE  TripInv'
<1>1. /\ Scanned /\ ChunksTile
      /\ Carried /\ Room /\ Laid /\ Copied /\ Archived /\ Inflated
  BY DEF ScannedInv, TripInv
<1> QED
  BY <1>1, CarriedStep, LaidStep, CopiedStep, ArchivedStep, InflatedStep DEF TripInv

(* When all threads are done, every quant-code has been written by the one  *)
(* of its chunk.                                                            *)
LEMMA TripGivesBack ==
  ASSUME IInv, TripInv
  PROVE  RoundTrip
<1> SUFFICES ASSUME phase = "inflate", AllDone, NEW k \in 0 .. archive.of.len - 1
             PROVE  out[k] = archive.of.data[k]
  BY DEF RoundTrip
<1> DEFINE f == archive.of
           t == k \div Sublen
           j == k % Sublen
<1>1. f \in Fields /\ Inflated
  <2>1. archive # None
    BY DEF IInv, TypeOK
  <2> QED
    BY <2>1 DEF TripInv, Archived
<1>2. /\ 0 \in Chunk /\ ParDeg \in Nat \ {0} /\ f.len \in 1 .. MaxLen /\ MaxLen \in Nat
  BY <1>1, CodecAssumption DEF Chunk
<1>3. Sublen \in Nat \ {0} /\ MaxLen <= Base(ParDeg) /\ Base(ParDeg) \in Nat
  BY <1>2, ChunkPlaces
<1>4. k \in Nat /\ k < f.len
  BY <1>2
<1>5. t \in Nat /\ j \in 0 .. Sublen - 1 /\ k = t * Sublen + j
  BY <1>3, <1>4, Division
<1> HIDE DEF f, t, j
<1>6. t * Sublen \in Nat
  BY <1>3, <1>5, ProductOrder, <1>2
<1>7. t < ParDeg
  <2>1. t * Sublen < ParDeg * Sublen
    BY <1>2, <1>3, <1>4, <1>5, <1>6 DEF Base
  <2> QED
    BY <1>2, <1>3, <1>5, <2>1, ProductOrder
<1>8. t \in Chunk /\ Base(t) < f.len /\ k = Base(t) + j
  BY <1>2, <1>3, <1>4, <1>5, <1>6, <1>7 DEF Chunk, Base
<1>9. j < Words(f, t) /\ Words(f, t) \in Nat
  <2>1. Base(t) + j < f.len
    BY <1>4, <1>8
  <2> QED
    BY <1>1, <1>3, <1>5, <1>8, <2>1, WordsBound
<1>10. PICK B, pos : Reading(pos, f, t, thread[t], out)
  BY <1>1, <1>8 DEF Inflated, Inflating, f
<1>11. thread[t].at # "run"
  BY <1>8 DEF AllDone
<1>12. j \in 0 .. thread[t].i - 1
  BY <1>3, <1>5, <1>9, <1>10, <1>11 DEF Reading
<1>13. out[Base(t) + j] = f.data[Base(t) + j]
  BY <1>10, <1>12 DEF Reading
<1> QED
  BY <1>8, <1>13 DEF f

(* If pinned memory is cleared when it is allocated, decoding gives back    *)
(* what was encoded: for every field, number of chunks and prefix code, in  *)
(* every order of the threads and blocks, and whatever was encoded before.  *)
THEOREM GivesBack ==
  ASSUME HostJunk = {0}
  PROVE  Spec => []RoundTrip
<1>1. Init => ScannedInv /\ TripInv
  BY SoundStart, ScannedStart, TripStart DEF ScannedInv, IInv
<1>2. IInv /\ IInv' /\ ScannedInv /\ TripInv /\ [Next]_vars => ScannedInv' /\ TripInv'
  BY ScannedStep, TripStep DEF ScannedInv, IInv
<1>3. IInv /\ TripInv => RoundTrip
  BY TripGivesBack
<1> QED
  BY <1>1, <1>2, <1>3, Sound, PTL DEF Spec
================================================================================
