-------------------------------- MODULE CuszApi --------------------------------
(***************************************************************************)
(* A client that uses one compressor object through core_compress() and    *)
(* core_decompress() of cuszapi.cc (or through the C API, which does the   *)
(* same): each of them initialises the object before it works, so a client *)
(* never calls a component in the state another call left it, except for   *)
(* what init() does not touch.                                             *)
(***************************************************************************)
EXTENDS Compressor

CONSTANT Outputs   \* which output arrays the client passes: TRUE, one that is
                   \* zeroed; FALSE, one that holds something else

ASSUME OutputsAssumption == Outputs \subseteq BOOLEAN

\* The checks of the arguments precede every change of state; a call they
\* refuse is a stuttering step.
CoreCompress(f, both) ==
  /\ pc = "idle"
  /\ InitDetail(f, both)
  /\ StartCompress(f, both)
  /\ UNCHANGED <<useFallback, outVars>>

CoreDecompress(b, zeroed) ==
  /\ pc = "idle" /\ b \in Exposed
  /\ InitDetail(mem[b].field, mem[b].both)
  /\ StartDecompress(b, zeroed)

ApiCall ==
  \/ \E f \in Field, both \in BOOLEAN : CoreCompress(f, both)
  \/ \E b \in Exposed, zeroed \in Outputs : CoreDecompress(b, zeroed)

ApiNext == ApiCall \/ Step
ApiSpec == Init /\ [][ApiNext]_vars /\ WF_vars(Step)

-----------------------------------------------------------------------------
\* header.byte_vle tells a decompressor which codec to use: it names the codec
\* whose codewords the VLE section holds, whatever calls were made on the object.
\* A call that handed out no archive (the fallback threw) may make it wrong, but
\* in the very next archive only, and only if the 4-byte codec encoded that one.
HeaderNamesCodec ==
  \A b \in Exposed : mem[b].name # mem[b].word =>
    /\ mem[b].word = 4
    /\ b - 1 \in Buffer /\ mem[b - 1] = Empty

\* use_fallback_codec is back at its initial value when the client has control,
\* unless the last call was a compression that ended by an exception of the
\* fallback: no compression that returned, and no decompression, leaves it set.
FlagReset ==
  pc = "idle" /\ useFallback => call.op = "compress" /\ cur \in Buffer
                              /\ mem[cur] = Empty

\* An archive made without the 4-byte codec throwing carries the codebook of
\* exactly its own histogram, nothing of an earlier input, and the metadata of
\* exactly its own chunks.
FirstTryExact ==
  \A b \in Exposed : ~mem[b].retried =>
    /\ mem[b].book = Hist[mem[b].field]
    /\ Len[mem[b].field] <= mem[b].room
    /\ mem[b].span = Len[mem[b].field]

\* A client may go on using the pointer to an archive while it makes further
\* calls on the same object.
ExposedKept == [][\A b \in Exposed : mem'[b] = mem[b]]_vars

\* Every quant-code that occurs has a codeword, however the codebook came about.
EverySymbolCoded ==
  \A b \in Exposed : Occurs(mem[b].field) \subseteq Coded(mem[b].book)

-----------------------------------------------------------------------------
(* The inductive invariant behind these properties, by phase of the call.   *)

\* The fields the 4-byte codec cannot hold, and those the fallback may not, from
\* whichever order of the frequencies.
Fragile    == {f \in Field : Unbuildable(4, Hist[f])}
Shuffled(f) == {[i \in Sym |-> Hist[f][p[i]]] : p \in Permutation}
Unstorable == {f \in Field : \E q \in Shuffled(f) : Unbuildable(8, q)}

Writing == {"construct", "histogram", "build4", "encode4", "collect4",
            "fallback", "build8", "encode8", "collect8"}
Reading == {"scatter", "decode", "reconstruct"}
OnFallback == {"build8", "encode8", "collect8"}

\* A codec that init() has allocated for the field of the call; "book" and
\* "residue" are what build_codebook() and encode() have left in it so far.
Ready(w, book, residue) ==
  codec[w] = [cap |-> Len[call.field], book |-> book, residue |-> residue]

\* The codec that encodes the field has been initialised in this call, and d_freq
\* is the histogram of this field, until the 4-byte codec has thrown.
FirstTry ==
  LET f == call.field IN
  /\ pc \in {"construct", "histogram"} =>
       /\ freq = Zero /\ Ready(4, Zero, 0) /\ ~call.retried
       /\ call.both => Ready(8, Zero, 0) /\ fbAllocated
  /\ pc = "build4"   => freq = Hist[f] /\ Ready(4, Zero, 0)
                        /\ ~call.both /\ ~call.retried
  /\ pc = "encode4"  => Ready(4, Hist[f], 0) /\ ~call.retried
  /\ pc = "collect4" => Ready(4, Hist[f], Len[f]) /\ ~call.retried
  /\ pc = "fallback" => \/ call.retried
                        \/ freq = Hist[f] /\ Ready(8, Zero, 0) /\ fbAllocated
  /\ pc \in {"fallback", "build8"} => freq \in Shuffled(f)
  /\ pc = "build8"   => call.retried \/ (freq = Hist[f] /\ Ready(8, Zero, 0))
  /\ pc = "encode8"  => call.retried \/ Ready(8, Hist[f], 0)
  /\ pc = "collect8" => call.retried \/ Ready(8, Hist[f], Len[f])

\* Where use_fallback_codec is set, and the buffer the call will fill.
Flags ==
  /\ pc \in OnFallback => useFallback
  /\ pc \in Writing \ OnFallback /\ useFallback =>
       cur - 1 \in Buffer /\ mem[cur - 1] = Empty
  /\ pc \in Writing => mem[cur] = Empty /\ call.op = "compress"
  /\ pc \in Writing \cup Reading => alloclen = derive_len(call.field)
  /\ \A b \in Buffer : b > cur => mem[b] = Empty

\* An archive that the object promises to decompress.
Sound(a) == ~a.retried /\ a.name = a.word

\* A call works on the archive it was given.
OpenArchive ==
  pc \in Reading =>
    /\ call.from \in Exposed
    /\ call.field = mem[call.from].field
    /\ useFallback = (mem[call.from].name = 8)
    /\ restored.of = call.field /\ call.zeroed \in Outputs
    /\ restored.kind = IF pc = "scatter" THEN "none"
                       ELSE IF call.zeroed THEN "outliers" ELSE "mixed"
    /\ pc = "reconstruct" /\ Sound(mem[call.from]) => quant = "right"

\* Only a fragile field makes the 4-byte codec throw.
OnlyFragileRetried ==
  /\ pc \in Writing /\ call.retried => call.field \in Fragile
  /\ \A b \in Exposed : mem[b].retried => mem[b].field \in Fragile

IInv == /\ TypeOK /\ HeaderNamesCodec /\ FlagReset /\ FirstTryExact
        /\ FirstTry /\ Flags /\ OpenArchive /\ OnlyFragileRetried

-----------------------------------------------------------------------------
(* The promise to the client.  An archive made after the 4-byte codec threw *)
(* counts as damaged, so only a field the 4-byte codec cannot hold may be,  *)
(* and one whose header names the wrong codec, which is the next after the  *)
(* fallback threw too.                                                      *)
CONSTANTS Nothing, Damaged

ASSUME PromiseAssumption ==
  Nothing # Damaged /\ {Nothing, Damaged} \cap Field = {}

store  == [b \in Buffer |-> IF mem[b] = Empty THEN Nothing
                            ELSE IF Sound(mem[b]) THEN mem[b].field
                            ELSE Damaged]
result == IF restored.kind = "field" THEN restored.of
          ELSE IF restored.kind = "garbage" THEN Damaged ELSE Nothing
shaken == useFallback /\ pc \in {"idle"} \cup (Writing \ OnFallback)

Promise == INSTANCE LossyStore WITH Handle <- Buffer
KeepsPromise == Promise!Spec
================================================================================
