------------------------------ MODULE Compressor ------------------------------
(***************************************************************************)
(* The compressor object of cuSZ (compressor_impl.cuh): one predictor, one *)
(* sparse codec and two Huffman codecs, the 4-byte one and the 8-byte      *)
(* fallback, that live as long as the object and keep their buffers from   *)
(* one call to the next.  A call runs its components one after the other   *)
(* on the host thread; any of them may throw, and the exception leaves the *)
(* object as the steps before it left it.                                  *)
(*                                                                         *)
(* Data is abstracted to what the components tell apart: a field is its    *)
(* length, in coarse Huffman chunks, and the histogram of its quant-codes. *)
(* What is encoded with a codebook is recoverable exactly when every       *)
(* quant-code that occurs has a codeword, so a codebook is represented by  *)
(* the frequencies it was generated from.                                  *)
(***************************************************************************)
EXTENDS Naturals, FiniteSets

CONSTANTS
  Field,           \* the inputs a client may compress
  BookLen,         \* number of quant-codes, 2 * radius
  Extent,          \* Extent[f]: the extents of field f along x, y and z
  Len,             \* Len[f]: its length as a sequence, in Huffman chunks
  Hist,            \* Hist[f]: how often each quant-code occurs in f
  Unbuildable(_,_),\* Unbuildable(w, q): codebook generation throws for a
                   \* codeword of w bytes and frequencies q
  MaxInit,         \* bound on the calls of init(), each of which allocates
  MaxFreq          \* bound on d_freq, which grows while init() is not called

Sym     == 0 .. BookLen - 1
Counts  == [Sym -> Nat]
Width   == {4, 8}                  \* sizeof(H) of codec and of fb_codec
Buffer  == 1 .. MaxInit            \* the successive d_reserved_compressed
Empty   == [kind |-> "empty"]
Zero    == [s \in Sym |-> 0]

ASSUME ConstantsAssumption ==
  /\ Field # {}
  /\ BookLen \in Nat \ {0}
  /\ MaxInit \in Nat /\ MaxFreq \in Nat
  /\ Extent \in [Field -> [1 .. 3 -> Nat]]
  /\ Len \in [Field -> Nat \ {0}]
  /\ Hist \in [Field -> Counts]

VARIABLES
  pc,           \* the component call about to be made, "idle" between calls
  call,         \* arguments of the public call in progress (or of the last)
  alloclen,     \* allocation lengths of the predictor, 0 before any init()
  rtlen,        \* its lengths at run time, of the last field it checked
  freq,         \* d_freq
  codec,        \* codec (4) and fb_codec (8)
  useFallback,  \* use_fallback_codec
  fbAllocated,  \* fallback_codec_allocated
  mem,          \* what each d_reserved_compressed holds; never freed
  cur,          \* the current d_reserved_compressed, 0 before any init()
  quant,        \* d_errctrl after decoding
  restored      \* the caller's output array after decompress()

objVars == <<alloclen, rtlen, freq, codec, useFallback, fbAllocated, mem, cur>>
outVars == <<quant, restored>>
vars    == <<pc, call, objVars, outVars>>

(***************************************************************************)
(* An archive, as subfile_collect() leaves it in device memory.  "name" is *)
(* header.byte_vle; "word" is the codeword width the VLE section really    *)
(* has; "both" is header.codecs_in_use; "span" is how many chunks have     *)
(* metadata; "room" is the capacity of the codec that encoded it;          *)
(* "retried" records that the 4-byte codec had thrown before.              *)
(***************************************************************************)
Archive == [kind : {"archive"}, field : Field, name : Width, word : Width,
            both : BOOLEAN, book : Counts, span : Nat,
            room : Nat, retried : BOOLEAN]

Occurs(f) == {s \in Sym : Hist[f][s] > 0}
Coded(q)  == {s \in Sym : q[s] > 0}

Longer(m, n) == IF m > n THEN m ELSE n

\* The VLE section can be turned back into the quant-codes of the field.
Decodes(a) == /\ a.name = a.word
              /\ Len[a.field] <= a.room
              /\ Occurs(a.field) \subseteq Coded(a.book)

Exposed == {b \in Buffer : mem[b] # Empty}

-----------------------------------------------------------------------------
\* __derive_len(): what the predictor keeps of the size of a field.
Lengths       == [len3 : [1 .. 3 -> Nat], serialized : Nat]
NoLength      == [len3 |-> [d \in 1 .. 3 |-> 0], serialized |-> 0]
derive_len(f) == [len3 |-> Extent[f], serialized |-> Len[f]]

\* check_rtlen() throws when a field exceeds the allocation, along an axis or as a
\* sequence: a field turned on its side does not fit.
Exceeds(rt, alloc) == \/ \E d \in 1 .. 3 : rt.len3[d] > alloc.len3[d]
                      \/ rt.serialized > alloc.serialized

\* thrust::sort_by_key(freq, qcode): ascending, in place; a permutation p says
\* that position i now holds what position p[i] held.
Permutation == {p \in [Sym -> Sym] : \A i, j \in Sym : p[i] = p[j] => i = j}
Sorting(q)  == {p \in Permutation :
                  \A i, j \in Sym : i < j => q[p[i]] <= q[p[j]]}

\* LosslessCodec::init(): fresh buffers for n chunks, cleared metadata.
FreshCodec(n) == [cap |-> n, book |-> Zero, residue |-> 0]

\* A new d_reserved_compressed (the earlier one leaks), and its mutant: only the
\* first init() allocates one.
AllocOutputOnce == cur' = 1
AllocOutput == cur < MaxInit /\ cur' = cur + 1

KeepFreq  == UNCHANGED freq     \* mutant: a reused d_freq is not zeroed
ClearFreq == freq' = Zero

\* Mutant of InitCodec: only the first init() allocates the codecs.
InitCodecOnce(n, both) ==
  /\ codec' = IF cur > 0 THEN codec ELSE [w \in Width |-> FreshCodec(n)]
  /\ fbAllocated' = TRUE

\* The fallback codec is allocated here only when the configuration asks for
\* both codecs.
InitCodec(n, both) ==
  /\ codec' = [w \in Width |-> IF w = 4 \/ both THEN FreshCodec(n)
                                                ELSE codec[w]]
  /\ fbAllocated' = (fbAllocated \/ both)

\* init_detail(): every buffer is allocated anew.
InitDetail(f, both) ==
  /\ alloclen' = derive_len(f)
  /\ AllocOutput /\ ClearFreq /\ InitCodec(Len[f], both)
  /\ UNCHANGED <<rtlen, mem>>

KeepFlag  == UNCHANGED useFallback  \* mutant: the flag outlives its call
ResetFlag == useFallback' = FALSE

StartCompress(f, both) ==
  /\ pc' = "construct"
  /\ call' = [op |-> "compress", field |-> f, both |-> both, retried |-> FALSE,
              from |-> 0, zeroed |-> FALSE]

KeepCodec(a)   == UNCHANGED useFallback   \* mutant: the header is not asked
SelectCodec(a) == useFallback' = (a.name = 8)

\* The header is read first: it selects the codec before anything can throw.
StartDecompress(b, zeroed) ==
  /\ pc' = "scatter"
  /\ SelectCodec(mem[b])
  /\ quant' = "none"
  /\ restored' = [kind |-> "none", of |-> mem[b].field]
  /\ call' = [op |-> "decompress", field |-> mem[b].field, both |-> FALSE,
              retried |-> FALSE, from |-> b, zeroed |-> zeroed]

-----------------------------------------------------------------------------
(* The public member functions a client may call between calls.            *)

InitCall(f, both) ==
  /\ pc = "idle"
  /\ InitDetail(f, both)
  /\ UNCHANGED <<pc, call, useFallback, outVars>>

CompressCall(f, both) ==
  /\ pc = "idle" /\ cur > 0
  /\ \A s \in Sym : freq[s] <= MaxFreq
  /\ StartCompress(f, both)
  /\ UNCHANGED <<objVars, outVars>>

DecompressCall(b, zeroed) ==
  /\ pc = "idle" /\ cur > 0 /\ b \in Exposed
  /\ StartDecompress(b, zeroed)
  /\ UNCHANGED <<alloclen, rtlen, freq, codec, fbAllocated, mem, cur>>

\* clear_buffer() reaches the predictor, the 4-byte codec and the spcodec: not
\* the fallback codec, and not d_freq.
ClearBuffer ==
  /\ pc = "idle" /\ cur > 0
  /\ codec' = [codec EXCEPT ![4] = FreshCodec(codec[4].cap)]
  /\ UNCHANGED <<pc, call, alloclen, rtlen, freq, useFallback, fbAllocated, mem, cur,
                 outVars>>

-----------------------------------------------------------------------------
(* compress(), one action per component call.                               *)

\* An exception that leaves the public call: control is back at the client.
Escape == pc' = "idle"

\* The lengths are derived before they are checked.
Construct ==
  /\ pc = "construct"
  /\ rtlen' = derive_len(call.field)
  /\ IF Exceeds(rtlen', alloclen) THEN Escape ELSE pc' = "histogram"
  /\ UNCHANGED <<call, alloclen, freq, codec, useFallback, fbAllocated, mem,
                 cur, outVars>>

\* The kernel adds to d_freq; only init() zeroes it.
Histogram ==
  /\ pc = "histogram"
  /\ freq' = [s \in Sym |-> freq[s] + Hist[call.field][s]]
  /\ pc' = IF call.both THEN "fallback" ELSE "build4"
  /\ UNCHANGED <<call, alloclen, rtlen, codec, useFallback, fbAllocated, mem, cur,
                 outVars>>

\* The codebook made from d_freq once sorted to q: GPU_ReorderByIndex() puts the
\* codewords back to where their quant-codes were; the mutant does not.
SortedBook(q) == q
RestoredBook(q) == freq

\* hf_buildbook_g(): every exit by exception is after the in-place sort.
BuildBook(w, built, thrown) ==
  /\ \E p \in Sorting(freq) : freq' = [i \in Sym |-> freq[p[i]]]
  /\ IF Unbuildable(w, freq)
       THEN pc' = thrown /\ UNCHANGED codec
       ELSE pc' = built /\ codec' = [codec EXCEPT ![w].book = RestoredBook(freq')]

BuildPrimary ==
  /\ pc = "build4"
  /\ BuildBook(4, "encode4", "fallback")
  /\ call' = IF Unbuildable(4, freq) THEN [call EXCEPT !.retried = TRUE]
                                     ELSE call
  /\ UNCHANGED <<alloclen, rtlen, useFallback, fbAllocated, mem, cur, outVars>>

\* Mutant of AllocFallback: goes back to the codec that has just thrown.
AllocFallbackRetries4 ==
  /\ pc = "fallback"
  /\ pc' = "build4"
  /\ UNCHANGED <<call, objVars, outVars>>

\* try_fallback_alloc(): allocates once in the life of the object.
AllocFallback ==
  /\ pc = "fallback"
  /\ useFallback' = TRUE
  /\ fbAllocated' = TRUE
  /\ codec' = IF fbAllocated THEN codec
              ELSE [codec EXCEPT ![8] = FreshCodec(Len[call.field])]
  /\ pc' = "build8"
  /\ UNCHANGED <<call, alloclen, rtlen, freq, mem, cur, outVars>>

BuildFallback ==
  /\ pc = "build8"
  /\ BuildBook(8, "encode8", "idle")
  /\ UNCHANGED <<call, alloclen, rtlen, useFallback, fbAllocated, mem, cur, outVars>>

\* encode(): a chunk beyond the field keeps the metadata an earlier encoding
\* left.  A field beyond the capacity runs over d_tmp; what such a write hits is
\* not modelled, except that the archive remembers the capacity.
Encode(w) ==
  /\ pc = IF w = 4 THEN "encode4" ELSE "encode8"
  /\ codec' = [codec EXCEPT ![w].residue = Longer(@, Len[call.field])]
  /\ pc' = IF w = 4 THEN "collect4" ELSE "collect8"
  /\ UNCHANGED <<call, alloclen, rtlen, freq, useFallback, fbAllocated, mem, cur,
                 outVars>>

\* update_header(), subfile_collect() and the reset of use_fallback_codec.
Collect(w) ==
  /\ pc = IF w = 4 THEN "collect4" ELSE "collect8"
  /\ mem' = [mem EXCEPT ![cur] =
       [kind |-> "archive", field |-> call.field,
        name |-> IF useFallback THEN 8 ELSE 4, word |-> w, both |-> call.both,
        book |-> codec[w].book, span |-> codec[w].residue,
        room |-> codec[w].cap, retried |-> call.retried]]
  /\ ResetFlag
  /\ pc' = "idle"
  /\ UNCHANGED <<call, alloclen, rtlen, freq, codec, fbAllocated, cur, outVars>>

-----------------------------------------------------------------------------
(* decompress(), one action per component call.                             *)

\* The outliers are scattered over whatever the output array holds.
Scatter ==
  /\ pc = "scatter"
  /\ restored' = [restored EXCEPT !.kind =
                    IF call.zeroed THEN "outliers" ELSE "mixed"]
  /\ pc' = "decode"
  /\ UNCHANGED <<call, objVars, quant>>

LastLen == IF rtlen.serialized > 0 THEN {rtlen.serialized} ELSE {0} \cup {Len[f] : f \in Field}

\* An unallocated fallback codec is initialised on the spot, for a length the
\* predictor has not derived yet: that of the last call, or an uninitialised
\* one.  Decoding itself uses the archive only, and writes every chunk that has
\* metadata to d_errctrl.
Decode ==
  /\ pc = "decode"
  /\ LET a == mem[call.from]
         w == IF useFallback THEN 8 ELSE 4
     IN  /\ quant' = IF Decodes(a) /\ w = a.word THEN "right" ELSE "wrong"
         /\ IF useFallback /\ ~fbAllocated
              THEN /\ fbAllocated' = TRUE
                   /\ \E n \in LastLen :
                        codec' = [codec EXCEPT ![8] = FreshCodec(n)]
              ELSE UNCHANGED <<fbAllocated, codec>>
  /\ pc' = "reconstruct"
  /\ UNCHANGED <<call, alloclen, rtlen, freq, useFallback, mem, cur, restored>>

\* check_rtlen() may throw here, before use_fallback_codec is reset.
Reconstruct ==
  /\ pc = "reconstruct"
  /\ rtlen' = derive_len(call.field)
  /\ IF Exceeds(rtlen', alloclen)
       THEN UNCHANGED <<restored, useFallback>>
       ELSE /\ restored' = [restored EXCEPT !.kind =
                 IF quant = "right" /\ @ = "outliers" THEN "field"
                                                      ELSE "garbage"]
            /\ ResetFlag
  /\ pc' = "idle"
  /\ UNCHANGED <<call, alloclen, freq, codec, fbAllocated, mem, cur, quant>>

-----------------------------------------------------------------------------
Init ==
  /\ pc = "idle"
  /\ call = [op |-> "none", field |-> CHOOSE f \in Field : TRUE,
             both |-> FALSE, retried |-> FALSE, from |-> 0, zeroed |-> FALSE]
  /\ alloclen = NoLength /\ rtlen = NoLength
  /\ freq = Zero
  /\ codec = [w \in Width |-> FreshCodec(0)]
  /\ useFallback = FALSE
  /\ fbAllocated = FALSE
  /\ mem = [b \in Buffer |-> Empty]
  /\ cur = 0
  /\ quant = "none"
  /\ restored = [kind |-> "none", of |-> call.field]

\* The steps of a call in progress.
Step ==
  \/ Construct \/ Histogram
  \/ BuildPrimary \/ AllocFallback \/ BuildFallback
  \/ \E w \in Width : Encode(w) \/ Collect(w)
  \/ Scatter \/ Decode \/ Reconstruct

Call ==
  \/ \E f \in Field, both \in BOOLEAN :
       InitCall(f, both) \/ CompressCall(f, both)
  \/ \E b \in Exposed, zeroed \in BOOLEAN : DecompressCall(b, zeroed)
  \/ ClearBuffer

Next == Call \/ Step

\* A call in progress is the only thing its host thread does.
Spec == Init /\ [][Next]_vars /\ WF_vars(Step)
-----------------------------------------------------------------------------
CallArgs == [op : {"none", "compress", "decompress"}, field : Field,
          both : BOOLEAN, retried : BOOLEAN, from : 0 .. MaxInit,
          zeroed : BOOLEAN]

PcSet == {"idle", "construct", "histogram", "build4", "encode4", "collect4",
          "fallback", "build8", "encode8", "collect8",
          "scatter", "decode", "reconstruct"}

\* Types.  The 4-byte codec always has the capacity the predictor was allocated
\* with, and a call in progress works on an object that has been initialised.
TypeOK ==
  /\ pc \in PcSet
  /\ call \in CallArgs
  /\ alloclen \in Lengths /\ rtlen \in Lengths
  /\ freq \in Counts
  /\ codec \in [Width -> [cap : Nat, book : Counts, residue : Nat]]
  /\ codec[4].cap = alloclen.serialized
  /\ useFallback \in BOOLEAN /\ fbAllocated \in BOOLEAN
  /\ mem \in [Buffer -> Archive \cup {Empty}]
  /\ cur \in 0 .. MaxInit
  /\ pc # "idle" => cur > 0
  /\ quant \in {"none", "right", "wrong"}
  /\ restored \in [kind : {"none", "outliers", "mixed", "field", "garbage"},
                   of : Field]

(* Properties of the object, whatever calls its client makes.              *)

\* Every quant-code that occurs in a field has a codeword in the codebook its
\* archive was encoded with, unless the 4-byte codec had thrown: also when
\* d_freq still holds what earlier compressions added to it and sorted.
NoSymbolLost ==
  \A b \in Exposed : ~mem[b].retried =>
    Occurs(mem[b].field) \subseteq Coded(mem[b].book)

\* check_rtlen() of the predictor is the only test of a length in compress();
\* it has to protect the 4-byte codec's d_tmp too, so the two must have been
\* allocated for the same length when the codec encodes.
PrimaryFits == pc = "encode4" => Len[call.field] <= codec[4].cap

\* Decoding recovers the quant-codes of every archive that can be decoded,
\* whatever state earlier calls and exceptions have left the object in.
DecodesInAnyState ==
  pc = "reconstruct" /\ Decodes(mem[call.from]) => quant = "right"

\* A call that has begun ends, by returning or by throwing.
CallReturns == pc # "idle" ~> pc = "idle"
===============================================================================
