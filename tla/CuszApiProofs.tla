----------------------------- MODULE CuszApiProofs -----------------------------
(***************************************************************************)
(* Theorems about every client of CuszApi: for any set of fields, lengths, *)
(* histograms and number of calls.                                         *)
(***************************************************************************)
EXTENDS CuszApi, TLAPS

USE DEF Width, ClearFreq, InitCodec, AllocOutput, ResetFlag, SelectCodec,
    RestoredBook

LEMMA ZeroCounts == Zero \in Counts
BY DEF Zero, Counts

LEMMA FreshCodecType ==
  ASSUME NEW n \in Nat
  PROVE  FreshCodec(n) \in [cap : Nat, book : Counts, residue : Nat]
BY ZeroCounts DEF FreshCodec

(* What sorting leaves in d_freq is again a frequency table.                *)
LEMMA SortedCounts ==
  ASSUME NEW q \in Counts, NEW p \in Sorting(q)
  PROVE  [i \in Sym |-> q[p[i]]] \in Counts
BY DEF Sorting, Permutation, Counts

LEMMA DerivedLengths ==
  /\ NoLength \in Lengths
  /\ \A f \in Field : derive_len(f) \in Lengths /\ ~Exceeds(derive_len(f), derive_len(f))
BY ConstantsAssumption DEF NoLength, Lengths, derive_len, Exceeds

LEMMA TypeStart == Init => TypeOK
<1> SUFFICES ASSUME Init PROVE TypeOK
  OBVIOUS
<1>1. call \in CallArgs
  BY ConstantsAssumption DEF Init, CallArgs
<1>2. codec \in [Width -> [cap : Nat, book : Counts, residue : Nat]]
  BY FreshCodecType DEF Init
<1>2a. codec[4].cap = alloclen.serialized
  BY DEF Init, FreshCodec, NoLength
<1>3. restored \in [kind : {"none", "outliers", "mixed", "field", "garbage"},
                    of : Field]
  BY <1>1 DEF Init, CallArgs
<1>4. mem \in [Buffer -> Archive \cup {Empty}] /\ cur \in 0 .. MaxInit
  BY ConstantsAssumption DEF Init
<1>5. pc \in PcSet /\ pc = "idle" /\ quant \in {"none", "right", "wrong"}
  BY DEF Init, PcSet
<1>6. freq \in Counts /\ alloclen \in Lengths /\ rtlen \in Lengths
  BY ZeroCounts, DerivedLengths DEF Init
<1> QED
  BY <1>1, <1>2, <1>2a, <1>3, <1>4, <1>5, <1>6 DEF Init, TypeOK

(* The calls: init() allocates for the field of the call, the predictor and *)
(* the 4-byte codec alike.                                                  *)
LEMMA InitLengths ==
  ASSUME TypeOK, NEW f \in Field, NEW both \in BOOLEAN, InitDetail(f, both)
  PROVE  /\ codec' \in [Width -> [cap : Nat, book : Counts, residue : Nat]]
         /\ codec'[4] = FreshCodec(Len[f])
         /\ codec'[4].cap = alloclen'.serialized
<1>1. /\ codec' \in [Width -> [cap : Nat, book : Counts, residue : Nat]]
      /\ codec'[4] = FreshCodec(Len[f])
  BY FreshCodecType, ConstantsAssumption DEF InitDetail, TypeOK
<1> QED
  BY <1>1 DEF InitDetail, derive_len, FreshCodec

LEMMA TypeCompress ==
  ASSUME TypeOK, NEW f \in Field, NEW both \in BOOLEAN, CoreCompress(f, both)
  PROVE  TypeOK'
<1> USE ConstantsAssumption DEF CoreCompress, InitDetail, StartCompress, outVars
<1>1. pc' \in PcSet /\ call' \in CallArgs /\ cur' \in 0 .. MaxInit /\ cur' > 0
  BY DEF TypeOK, PcSet, CallArgs
<1> QED
  BY <1>1, InitLengths, ZeroCounts, DerivedLengths DEF TypeOK

LEMMA TypeDecompress ==
  ASSUME TypeOK, NEW b \in Exposed, NEW zeroed \in Outputs,
         CoreDecompress(b, zeroed)
  PROVE  TypeOK'
<1> USE ConstantsAssumption, OutputsAssumption
    DEF CoreDecompress, InitDetail, StartDecompress
<1>1. b \in Buffer /\ mem[b] \in Archive
  BY DEF TypeOK, Exposed
<1>2. mem[b].field \in Field /\ mem[b].both \in BOOLEAN
  BY <1>1 DEF Archive
<1>3. pc' \in PcSet /\ call' \in CallArgs /\ cur' \in 0 .. MaxInit /\ cur' > 0
  BY <1>1, <1>2 DEF TypeOK, PcSet, CallArgs, Buffer
<1>4. /\ codec' \in [Width -> [cap : Nat, book : Counts, residue : Nat]]
      /\ codec'[4].cap = alloclen'.serialized
  BY <1>2, InitLengths
<1>5. restored' \in [kind : {"none", "outliers", "mixed", "field", "garbage"},
                     of : Field]
  BY <1>2
<1> QED
  BY <1>1, <1>2, <1>3, <1>4, <1>5, ZeroCounts, DerivedLengths DEF TypeOK

(* The steps of a call.                                                     *)
LEMMA TypeStep ==
  ASSUME TypeOK, Step
  PROVE  TypeOK'
<1> USE ConstantsAssumption DEF outVars
<1>0. call.field \in Field /\ Len[call.field] \in Nat
      /\ Hist[call.field] \in Counts
  BY DEF TypeOK, CallArgs
<1>1. CASE Construct
  BY <1>0, <1>1, DerivedLengths DEF TypeOK, PcSet, Construct, Escape
<1>2. CASE Histogram
  <2>1. freq' \in Counts
    BY <1>0, <1>2 DEF Histogram, TypeOK, Counts
  <2> QED
    BY <1>2, <2>1 DEF TypeOK, PcSet, Histogram
<1>3. CASE BuildPrimary
  <2>1. freq' \in Counts
    BY <1>3, SortedCounts DEF BuildPrimary, BuildBook, TypeOK
  <2>2. codec' \in [Width -> [cap : Nat, book : Counts, residue : Nat]]
        /\ codec'[4].cap = codec[4].cap
    BY <1>3 DEF BuildPrimary, BuildBook, TypeOK
  <2>3. call' \in CallArgs /\ pc' \in PcSet
    BY <1>3 DEF BuildPrimary, BuildBook, TypeOK, CallArgs, PcSet
  <2> QED
    BY <1>3, <2>1, <2>2, <2>3 DEF BuildPrimary, TypeOK
<1>4. CASE AllocFallback
  <2>1. codec' \in [Width -> [cap : Nat, book : Counts, residue : Nat]]
        /\ codec'[4].cap = codec[4].cap
    BY <1>0, <1>4, FreshCodecType DEF AllocFallback, TypeOK
  <2> QED
    BY <1>4, <2>1 DEF AllocFallback, TypeOK, PcSet
<1>5. CASE BuildFallback
  <2>1. freq' \in Counts
    BY <1>5, SortedCounts DEF BuildFallback, BuildBook, TypeOK
  <2>2. codec' \in [Width -> [cap : Nat, book : Counts, residue : Nat]]
        /\ codec'[4].cap = codec[4].cap
    BY <1>5 DEF BuildFallback, BuildBook, TypeOK
  <2>3. pc' \in PcSet
    BY <1>5 DEF BuildFallback, BuildBook, PcSet
  <2> QED
    BY <1>5, <2>1, <2>2, <2>3 DEF BuildFallback, TypeOK
<1>6. ASSUME NEW w \in Width, Encode(w)
      PROVE  TypeOK'
  <2>1. codec' \in [Width -> [cap : Nat, book : Counts, residue : Nat]]
        /\ codec'[4].cap = codec[4].cap
    BY <1>0, <1>6 DEF Encode, TypeOK, Longer
  <2> QED
    BY <1>6, <2>1 DEF Encode, TypeOK, PcSet
<1>7. ASSUME NEW w \in Width, Collect(w)
      PROVE  TypeOK'
  <2>1. [kind |-> "archive", field |-> call.field,
         name |-> IF useFallback THEN 8 ELSE 4, word |-> w,
         both |-> call.both, book |-> codec[w].book,
         span |-> codec[w].residue, room |-> codec[w].cap,
         retried |-> call.retried] \in Archive
    BY <1>0 DEF TypeOK, Archive, CallArgs
  <2>2. mem' \in [Buffer -> Archive \cup {Empty}]
    BY <1>7, <2>1 DEF Collect, TypeOK
  <2> QED
    BY <1>7, <2>2 DEF Collect, TypeOK, PcSet
<1>8. CASE Scatter
  BY <1>8 DEF Scatter, TypeOK, PcSet, objVars
<1>9. CASE Decode
  <2>1. LastLen \subseteq Nat
    BY DEF LastLen, TypeOK, Lengths
  <2>2. \A n \in LastLen : [codec EXCEPT ![8] = FreshCodec(n)]
                              \in [Width -> [cap : Nat, book : Counts, residue : Nat]]
    <3> SUFFICES ASSUME NEW n \in LastLen
                 PROVE  [codec EXCEPT ![8] = FreshCodec(n)]
                          \in [Width -> [cap : Nat, book : Counts, residue : Nat]]
      OBVIOUS
    <3>1. FreshCodec(n) \in [cap : Nat, book : Counts, residue : Nat]
      BY <2>1, FreshCodecType
    <3> QED
      BY <3>1 DEF TypeOK
  <2>3. codec' = codec \/ \E n \in LastLen : codec' = [codec EXCEPT ![8] = FreshCodec(n)]
    BY <1>9 DEF Decode
  <2>4. codec' \in [Width -> [cap : Nat, book : Counts, residue : Nat]]
        /\ codec'[4].cap = codec[4].cap
    BY <2>2, <2>3 DEF TypeOK
  <2> QED
    BY <1>9, <2>4 DEF Decode, TypeOK, PcSet
<1>10. CASE Reconstruct
  <2>1. restored' \in [kind : {"none", "outliers", "mixed", "field", "garbage"},
                       of : Field]
    BY <1>10 DEF Reconstruct, TypeOK
  <2> QED
    BY <1>0, <1>10, <2>1, DerivedLengths DEF Reconstruct, TypeOK, PcSet
<1> QED
  BY <1>1, <1>2, <1>3, <1>4, <1>5, <1>6, <1>7, <1>8, <1>9, <1>10 DEF Step

(* Whatever calls its client makes, the object's state stays well formed,   *)
(* through every exception compress() and decompress() may throw.           *)
THEOREM TypeCorrect == ApiSpec => []TypeOK
<1>1. TypeOK /\ [ApiNext]_vars => TypeOK'
  <2> SUFFICES ASSUME TypeOK, [ApiNext]_vars PROVE TypeOK'
    OBVIOUS
  <2>1. CASE ApiCall
    BY <2>1, TypeCompress, TypeDecompress DEF ApiCall
  <2>2. CASE Step
    BY <2>2, TypeStep
  <2>3. CASE UNCHANGED vars
    BY <2>3 DEF vars, objVars, outVars, TypeOK
  <2> QED
    BY <2>1, <2>2, <2>3 DEF ApiNext
<1> QED
  BY <1>1, TypeStart, PTL DEF ApiSpec
-----------------------------------------------------------------------------
(***************************************************************************)
(* The archives, and what is left behind by a compression that hands out   *)
(* none: nothing is assumed of the frequencies either codebook generation  *)
(* throws for.                                                             *)
(***************************************************************************)
LEMMA NotShuffled == \A f \in Field : Hist[f] \in Shuffled(f)
<1> SUFFICES ASSUME NEW f \in Field PROVE Hist[f] \in Shuffled(f)
  OBVIOUS
<1> DEFINE id == [i \in Sym |-> i]
<1>1. id \in Permutation
  BY DEF Permutation
<1>2. Hist[f] = [i \in Sym |-> Hist[f][id[i]]]
  BY ConstantsAssumption DEF Counts
<1> HIDE DEF id
<1> QED
  BY <1>1, <1>2 DEF Shuffled

LEMMA SortedShuffled ==
  ASSUME NEW f \in Field, NEW p \in Sorting(Hist[f])
  PROVE  [i \in Sym |-> Hist[f][p[i]]] \in Shuffled(f)
BY DEF Sorting, Shuffled

(* What is said of the archives alone outlives a step that collects none.   *)
LEMMA ExposedSame ==
  ASSUME UNCHANGED mem, HeaderNamesCodec, FirstTryExact,
         \A b \in Exposed : mem[b].retried => mem[b].field \in Fragile
  PROVE  /\ Exposed' = Exposed
         /\ HeaderNamesCodec' /\ FirstTryExact'
         /\ (\A b \in Exposed : mem[b].retried => mem[b].field \in Fragile)'
BY DEF Exposed, HeaderNamesCodec, FirstTryExact, Fragile

LEMMA SoundStart == Init => IInv
<1> SUFFICES ASSUME Init PROVE IInv
  OBVIOUS
<1>1. Exposed = {}
  BY DEF Init, Exposed
<1>2. pc = "idle" /\ ~useFallback
  BY DEF Init
<1>3. \A b \in Buffer : mem[b] = Empty
  BY DEF Init
<1> QED
  BY <1>1, <1>2, <1>3, TypeStart
  DEF IInv, HeaderNamesCodec, FlagReset, FirstTryExact, FirstTry, Flags,
      OpenArchive, OnlyFragileRetried, Writing, Reading, OnFallback

LEMMA SoundCompress ==
  ASSUME IInv, NEW f \in Field, NEW both \in BOOLEAN, CoreCompress(f, both)
  PROVE  IInv'
<1> USE DEF CoreCompress, InitDetail, StartCompress, outVars
<1>1. TypeOK'
  BY TypeCompress DEF IInv
<1>2. /\ Exposed' = Exposed /\ HeaderNamesCodec' /\ FirstTryExact'
      /\ (\A b \in Exposed : mem[b].retried => mem[b].field \in Fragile)'
  BY ExposedSame DEF IInv, OnlyFragileRetried
<1>3. pc' = "construct" /\ call'.field = f /\ ~call'.retried /\ call'.both = both
  OBVIOUS
<1>4. FlagReset' /\ OnlyFragileRetried' /\ OpenArchive'
  BY <1>2, <1>3 DEF FlagReset, OnlyFragileRetried, OpenArchive, Reading
<1>5. FirstTry'
  BY <1>3 DEF FirstTry, Ready, FreshCodec
<1>6. Flags'
  <2>1. useFallback' = useFallback /\ call'.op = "compress" /\ mem' = mem
    OBVIOUS
  <2>2. cur' = cur + 1 /\ cur' \in Buffer /\ cur \in Nat /\ cur' - 1 = cur
    BY ConstantsAssumption DEF IInv, TypeOK, Buffer
  <2>5. useFallback' => cur' - 1 \in Buffer /\ mem'[cur' - 1] = Empty
    BY <2>1, <2>2 DEF IInv, FlagReset
  <2>3. mem'[cur'] = Empty
    BY <2>2 DEF IInv, Flags, Buffer
  <2>4. \A b \in Buffer : b > cur' => mem'[b] = Empty
    BY <2>2 DEF IInv, Flags, Buffer
  <2> QED
    BY <1>3, <2>1, <2>3, <2>4, <2>5 DEF Flags, Writing, Reading, OnFallback
<1> QED
  BY <1>1, <1>2, <1>4, <1>5, <1>6 DEF IInv

LEMMA SoundDecompress ==
  ASSUME IInv, NEW b \in Exposed, NEW zeroed \in Outputs,
         CoreDecompress(b, zeroed)
  PROVE  IInv'
<1> USE DEF CoreDecompress, InitDetail, StartDecompress
<1>1. TypeOK'
  BY TypeDecompress DEF IInv
<1>2. /\ Exposed' = Exposed /\ HeaderNamesCodec' /\ FirstTryExact'
      /\ (\A c \in Exposed : mem[c].retried => mem[c].field \in Fragile)'
  BY ExposedSame DEF IInv, OnlyFragileRetried
<1>3. pc' = "scatter" /\ call'.from = b /\ call'.field = mem[b].field
      /\ call'.zeroed = zeroed /\ ~call'.retried
  OBVIOUS
<1>4. FlagReset' /\ FirstTry' /\ OnlyFragileRetried'
  BY <1>2, <1>3 DEF FlagReset, FirstTry, OnlyFragileRetried, Writing
<1>5. OpenArchive'
  BY <1>2, <1>3 DEF OpenArchive, Reading
<1>6. Flags'
  <2>1. cur' = cur + 1 /\ cur \in Nat
    BY ConstantsAssumption DEF IInv, TypeOK
  <2>2. \A c \in Buffer : c > cur' => mem'[c] = Empty
    BY <2>1 DEF IInv, Flags, Buffer
  <2> QED
    BY <1>3, <2>2 DEF Flags, Writing, Reading, OnFallback
<1> QED
  BY <1>1, <1>2, <1>4, <1>5, <1>6 DEF IInv

(* One case per component call; a step that collects no archive keeps what  *)
(* was said of the archives by ExposedSame.                                 *)
LEMMA SoundStep ==
  ASSUME IInv, Step
  PROVE  IInv'
<1> USE DEF outVars, objVars
<1>0. TypeOK' /\ TypeOK
  BY TypeStep DEF IInv
<1>1. call.field \in Field /\ Hist[call.field] \in Counts /\ freq \in Counts
  BY <1>0, ConstantsAssumption DEF TypeOK, CallArgs
<1>2. ASSUME UNCHANGED mem
      PROVE  /\ Exposed' = Exposed /\ HeaderNamesCodec' /\ FirstTryExact'
             /\ (\A b \in Exposed : mem[b].retried => mem[b].field \in Fragile)'
  BY <1>2, ExposedSame DEF IInv, OnlyFragileRetried
<1>3. CASE Construct
  <2> USE <1>3 DEF Construct, Escape
  <2>1. pc' = "histogram"
    BY <1>1, DerivedLengths DEF IInv, Flags, Writing
  <2>2. FlagReset' /\ FirstTry' /\ Flags' /\ OpenArchive' /\ OnlyFragileRetried'
    BY <1>2, <2>1 DEF IInv, FlagReset, FirstTry, Ready, Flags, OpenArchive,
       OnlyFragileRetried, Writing, Reading, OnFallback
  <2> QED
    BY <1>0, <1>2, <2>2 DEF IInv
<1>4. CASE Histogram
  <2> USE <1>4 DEF Histogram
  <2>1. freq' = Hist[call.field] /\ freq' \in Shuffled(call.field)
    BY <1>1, NotShuffled DEF IInv, FirstTry, Zero, Counts
  <2>2. FirstTry'
    BY <2>1 DEF IInv, FirstTry, Ready
  <2>3. FlagReset' /\ Flags' /\ OpenArchive' /\ OnlyFragileRetried'
    BY <1>2 DEF IInv, FlagReset, Flags, OpenArchive,
       OnlyFragileRetried, Writing, Reading, OnFallback
  <2> QED
    BY <1>0, <1>2, <2>2, <2>3 DEF IInv
<1>5. CASE BuildPrimary
  <2> USE <1>5 DEF BuildPrimary, BuildBook
  <2>1. CASE Unbuildable(4, freq)
    <3>1. pc' = "fallback" /\ call'.retried /\ call'.field = call.field
      BY <2>1, <1>0 DEF TypeOK, CallArgs
    <3>2. call.field \in Fragile
      BY <1>1, <2>1 DEF IInv, FirstTry, Fragile
    <3>3. freq' \in Shuffled(call.field)
      BY <1>1, SortedShuffled DEF IInv, FirstTry
    <3>4. call'.op = call.op
      BY <1>0 DEF TypeOK, CallArgs
    <3> QED
      BY <1>0, <1>2, <3>1, <3>2, <3>3, <3>4 DEF IInv, FlagReset, FirstTry,
         Flags, OpenArchive, OnlyFragileRetried, Writing, Reading, OnFallback
  <2>2. CASE ~Unbuildable(4, freq)
    <3>1. pc' = "encode4" /\ call' = call
          /\ codec' = [codec EXCEPT ![4].book = freq]
      BY <2>2
    <3>2. FirstTry'
      BY <1>0, <3>1 DEF IInv, FirstTry, Ready, TypeOK
    <3> QED
      BY <1>0, <1>2, <3>1, <3>2 DEF IInv, FlagReset, Flags,
         OpenArchive, OnlyFragileRetried, Writing, Reading, OnFallback
  <2> QED
    BY <2>1, <2>2
<1>6. CASE AllocFallback
  <2> USE <1>6 DEF AllocFallback
  <2>1. FirstTry'
    BY DEF IInv, FirstTry, Ready
  <2> QED
    BY <1>0, <1>2, <2>1 DEF IInv, FlagReset, Flags, OpenArchive,
       OnlyFragileRetried, Writing, Reading, OnFallback
<1>7. CASE BuildFallback
  <2> USE <1>7 DEF BuildFallback, BuildBook
  <2>1. CASE Unbuildable(8, freq)
    <3>1. pc' = "idle" /\ UNCHANGED <<call, mem, cur, useFallback, alloclen>>
      BY <2>1
    <3>2. mem[cur] = Empty /\ call.op = "compress"
      BY DEF IInv, Flags, Writing
    <3>3. cur \in Buffer
      <4>1. cur \in 0 .. MaxInit /\ cur > 0
        BY <1>0 DEF TypeOK
      <4> QED
        BY <4>1, ConstantsAssumption, SMT DEF Buffer
    <3>4. FirstTry' /\ OpenArchive'
      BY <3>1 DEF FirstTry, OpenArchive, Reading
    <3>5. FlagReset'
      BY <3>1, <3>2, <3>3 DEF FlagReset
    <3>6. Flags'
      BY <3>1 DEF IInv, Flags, Writing, Reading, OnFallback
    <3>7. OnlyFragileRetried'
      BY <1>2, <3>1 DEF OnlyFragileRetried, Writing
    <3> QED
      BY <1>0, <1>2, <3>1, <3>4, <3>5, <3>6, <3>7 DEF IInv
  <2>2. CASE ~Unbuildable(8, freq)
    <3>1. pc' = "encode8" /\ codec' = [codec EXCEPT ![8].book = freq]
      BY <2>2
    <3>2. FirstTry'
      BY <1>0, <3>1 DEF IInv, FirstTry, Ready, TypeOK
    <3> QED
      BY <1>0, <1>2, <3>1, <3>2 DEF IInv, FlagReset, Flags, OpenArchive,
         OnlyFragileRetried, Writing, Reading, OnFallback
  <2> QED
    BY <2>1, <2>2
<1>8. ASSUME NEW w \in Width, Encode(w)
      PROVE  IInv'
  <2> USE <1>8 DEF Encode
  <2>1. codec[w] \in [cap : Nat, book : Counts, residue : Nat]
        /\ Len[call.field] \in Nat \ {0}
    BY <1>0, <1>1, ConstantsAssumption DEF TypeOK
  <2>2. FirstTry'
    BY <1>0, <2>1 DEF IInv, FirstTry, Ready, TypeOK, Longer
  <2> QED
    BY <1>0, <1>2, <2>2 DEF IInv, FlagReset, Flags, OpenArchive,
       OnlyFragileRetried, Writing, Reading, OnFallback
<1>9. ASSUME NEW w \in Width, Collect(w)
      PROVE  IInv'
  <2> USE <1>9 DEF Collect
  <2>1. pc \in Writing /\ pc' = "idle" /\ ~useFallback'
    BY DEF Writing
  <2>2. cur \in Buffer
    BY <1>0, <2>1, ConstantsAssumption DEF TypeOK, Writing, Buffer
  <2>3. /\ mem'[cur].word = w /\ (w = 8 => mem'[cur].name = 8)
        /\ mem'[cur].name = IF useFallback THEN 8 ELSE 4
        /\ mem'[cur].field = call.field
        /\ mem'[cur].retried = call.retried
        /\ mem'[cur].book = codec[w].book
        /\ mem'[cur].span = codec[w].residue
        /\ mem'[cur].room = codec[w].cap
    <3>1. w = 8 => useFallback
      BY DEF IInv, Flags, OnFallback
    <3> QED
      BY <1>0, <2>2, <3>1 DEF TypeOK
  <2>4. \A b \in Buffer \ {cur} : mem'[b] = mem[b]
    BY <1>0 DEF TypeOK
  <2>5. Exposed' \subseteq Exposed \cup {cur}
    BY <2>4 DEF Exposed
  <2>6. HeaderNamesCodec'
    <3> SUFFICES ASSUME NEW b \in Exposed', mem'[b].name # mem'[b].word
                 PROVE  /\ mem'[b].word = 4
                        /\ b - 1 \in Buffer /\ mem'[b - 1] = Empty
      BY DEF HeaderNamesCodec
    <3>1. CASE b = cur
      <4>1. w = 4 /\ useFallback /\ pc \in Writing \ OnFallback
        BY <2>1, <2>3, <3>1 DEF OnFallback
      <4>2. cur - 1 \in Buffer /\ mem[cur - 1] = Empty /\ cur - 1 # cur
        BY <2>2, <4>1 DEF IInv, Flags, Buffer
      <4> QED
        BY <2>3, <2>4, <3>1, <4>1, <4>2
    <3>2. CASE b # cur
      <4>1. b \in Exposed /\ mem'[b] = mem[b]
        BY <2>4, <2>5, <3>2 DEF Exposed
      <4>2. mem[b].word = 4 /\ b - 1 \in Buffer /\ mem[b - 1] = Empty
        BY <4>1 DEF IInv, HeaderNamesCodec
      <4>3. b - 1 # cur
        BY <2>2, <4>1, ConstantsAssumption DEF IInv, Flags, Buffer, Exposed
      <4> QED
        BY <2>4, <4>1, <4>2, <4>3
    <3> QED
      BY <3>1, <3>2
  <2>7. FirstTryExact'
    <3>1. ~call.retried => /\ codec[w].book = Hist[call.field]
                           /\ codec[w].residue = Len[call.field]
                           /\ codec[w].cap = Len[call.field]
      BY DEF IInv, FirstTry, Ready
    <3>2. Len[call.field] \in Nat
      BY <1>1, ConstantsAssumption
    <3> QED
      BY <2>3, <2>4, <2>5, <3>1, <3>2 DEF IInv, FirstTryExact, Exposed
  <2>8. OnlyFragileRetried'
    BY <2>1, <2>3, <2>4, <2>5
    DEF IInv, OnlyFragileRetried, Exposed, Writing, Fragile
  <2>9. Flags'
    <3>1. \A b \in Buffer : b > cur => mem'[b] = mem[b]
      BY <1>0, <2>2 DEF TypeOK, Buffer
    <3>2. cur' = cur
      OBVIOUS
    <3> QED
      BY <2>1, <3>1, <3>2 DEF IInv, Flags, Writing, Reading, OnFallback
  <2>10. FlagReset' /\ FirstTry' /\ OpenArchive'
    BY <2>1 DEF FlagReset, FirstTry, OpenArchive, Reading
  <2> QED
    BY <1>0, <2>6, <2>7, <2>8, <2>9, <2>10 DEF IInv
<1>10. CASE Scatter
  <2> USE <1>10 DEF Scatter
  <2>1. OpenArchive'
    BY <1>0, <1>2 DEF IInv, OpenArchive, Reading, TypeOK
  <2> QED
    BY <1>0, <1>2, <2>1 DEF IInv, FlagReset, FirstTry, Flags,
       OnlyFragileRetried, Writing, Reading, OnFallback
<1>11. CASE Decode
  <2> USE <1>11 DEF Decode
  <2>1. call.from \in Exposed /\ useFallback = (mem[call.from].name = 8)
    BY DEF IInv, OpenArchive, Reading
  <2>2. mem[call.from] \in Archive
    BY <1>0, <2>1 DEF TypeOK, Exposed
  <2>3. mem[call.from].name = IF useFallback THEN 8 ELSE 4
    BY <2>1, <2>2 DEF Archive
  <2>4. Sound(mem[call.from]) => Decodes(mem[call.from])
    BY <2>1 DEF IInv, FirstTryExact, Decodes, Occurs, Coded, Sound
  <2>5. Sound(mem[call.from]) => quant' = "right"
    BY <2>3, <2>4 DEF Sound
  <2>6. OpenArchive'
    BY <1>2, <2>1, <2>5 DEF IInv, OpenArchive, Reading
  <2> QED
    BY <1>0, <1>2, <2>6 DEF IInv, FlagReset, FirstTry, Flags,
       OnlyFragileRetried, Writing, Reading, OnFallback
<1>12. CASE Reconstruct
  <2> USE <1>12 DEF Reconstruct
  <2>1. ~useFallback'
    BY <1>1, DerivedLengths DEF IInv, Flags, Reading
  <2> QED
    BY <1>0, <1>2, <2>1 DEF IInv, FlagReset, FirstTry, Flags, OpenArchive,
       OnlyFragileRetried, Writing, Reading, OnFallback
<1> QED
  BY <1>3, <1>4, <1>5, <1>6, <1>7, <1>8, <1>9, <1>10, <1>11, <1>12 DEF Step

LEMMA SoundStutter ==
  ASSUME IInv, UNCHANGED vars
  PROVE  IInv'
<1> USE DEF vars, objVars, outVars
<1>1. TypeOK'
  BY DEF IInv, TypeOK
<1>2. /\ Exposed' = Exposed /\ HeaderNamesCodec' /\ FirstTryExact'
      /\ (\A c \in Exposed : mem[c].retried => mem[c].field \in Fragile)'
  BY ExposedSame DEF IInv, OnlyFragileRetried
<1> QED
  BY <1>1, <1>2 DEF IInv, FlagReset, FirstTry, Ready, Flags, OpenArchive,
     OnlyFragileRetried, Writing, Reading, OnFallback

LEMMA Soundness == ApiSpec => []IInv
<1>1. IInv /\ [ApiNext]_vars => IInv'
  BY SoundCompress, SoundDecompress, SoundStep, SoundStutter
  DEF ApiNext, ApiCall
<1> QED
  BY <1>1, SoundStart, PTL DEF ApiSpec

(* header.byte_vle names the codec that encoded the VLE section, after any  *)
(* number of failed codebooks, except in an archive the 4-byte codec        *)
(* encoded right after a call that handed out none.                         *)
THEOREM HeaderCorrect == ApiSpec => []HeaderNamesCodec
BY Soundness, PTL DEF IInv

(* use_fallback_codec is reset on every way out of a call but one: a        *)
(* compression from which the exception of the fallback escapes.            *)
THEOREM FlagCorrect == ApiSpec => []FlagReset
BY Soundness, PTL DEF IInv

(* An archive made without the 4-byte codec throwing is of its own input    *)
(* only, whatever the object was used for before.                           *)
THEOREM ArchiveExact == ApiSpec => []FirstTryExact
BY Soundness, PTL DEF IInv
-----------------------------------------------------------------------------
(* The only step that writes an archive writes one nobody has yet.          *)
LEMMA CollectFresh ==
  ASSUME IInv, NEW w \in Width, Collect(w)
  PROVE  cur \in Buffer /\ mem[cur] = Empty
<1>1. pc \in Writing
  BY DEF Collect, Writing
<1> QED
  BY <1>1, ConstantsAssumption DEF IInv, TypeOK, Flags, Buffer, Writing

LEMMA MemSame ==
  ASSUME IInv, [ApiNext]_vars, \A w \in Width : ~Collect(w)
  PROVE  UNCHANGED mem
BY DEF ApiNext, ApiCall, Step, CoreCompress, CoreDecompress, InitDetail,
   Construct, Histogram, BuildPrimary, AllocFallback, BuildFallback, Encode,
   Scatter, Decode, Reconstruct, vars, objVars

(* A pointer handed out by one call stays good during all later ones.       *)
THEOREM ArchivesKept == ApiSpec => ExposedKept
<1>1. IInv /\ [ApiNext]_vars => [\A b \in Exposed : mem'[b] = mem[b]]_vars
  <2> SUFFICES ASSUME IInv, [ApiNext]_vars, NEW b \in Exposed
               PROVE  mem'[b] = mem[b]
    OBVIOUS
  <2>1. CASE \E w \in Width : Collect(w)
    <3>1. PICK w \in Width : Collect(w)
      BY <2>1
    <3>2. b # cur
      BY <3>1, CollectFresh DEF Exposed
    <3> QED
      BY <3>1, <3>2 DEF Collect, IInv, TypeOK, Exposed
  <2> QED
    BY <2>1, MemSame
<1> QED
  BY <1>1, Soundness, PTL DEF ApiSpec, ExposedKept
-----------------------------------------------------------------------------
(***************************************************************************)
(* The object implements LossyStore: collecting an archive is Put, the end *)
(* of a decompression is Get, its start is Reuse, an exception of the      *)
(* fallback is Fail, going over to the fallback is Recover, and the rest   *)
(* stutters.                                                               *)
(***************************************************************************)
LEMMA PromiseStart == Init => Promise!Init
BY DEF Init, Promise!Init, store, result, shaken

LEMMA ExposedArchive ==
  ASSUME TypeOK, NEW b \in Exposed
  PROVE  /\ b \in Buffer /\ mem[b] \in Archive /\ mem[b].field \in Field
         /\ store[b] = IF Sound(mem[b]) THEN mem[b].field ELSE Damaged
<1>1. b \in Buffer /\ mem[b] # Empty /\ mem[b] \in Archive
  BY DEF TypeOK, Exposed
<1> QED
  BY <1>1 DEF Archive, store

LEMMA PromiseCollect ==
  ASSUME IInv, NEW w \in Width, Collect(w)
  PROVE  Promise!Next
<1> DEFINE new == [kind |-> "archive", field |-> call.field,
                   name |-> IF useFallback THEN 8 ELSE 4, word |-> w,
                   both |-> call.both, book |-> codec[w].book,
                   span |-> codec[w].residue, room |-> codec[w].cap,
                   retried |-> call.retried]
<1>1. cur \in Buffer /\ mem[cur] = Empty
  BY CollectFresh
<1>2. mem' = [mem EXCEPT ![cur] = new] /\ restored' = restored
  BY DEF Collect, outVars
<1>3. new # Empty
  <2>1. new.kind = "archive" /\ Empty.kind = "empty"
    BY DEF Empty
  <2> QED
    BY <2>1
<1>4. new.field = call.field /\ (Sound(new) = (~call.retried /\ (useFallback => w = 8)))
      /\ call.field \in Field /\ call.retried \in BOOLEAN
  <2>1. w = 8 => useFallback
    BY DEF IInv, Flags, OnFallback, Collect
  <2> QED
    BY <2>1 DEF IInv, TypeOK, CallArgs, Sound
<1> HIDE DEF new
<1>5. store[cur] = Nothing
  BY <1>1 DEF store
<1>6. mem \in [Buffer -> Archive \cup {Empty}]
  BY DEF IInv, TypeOK
<1>7. store' = [store EXCEPT ![cur] = IF Sound(new) THEN call.field
                                                    ELSE Damaged]
  BY <1>1, <1>2, <1>3, <1>4, <1>6 DEF store
<1>8. ~Sound(new) => call.field \in Fragile \/ shaken
  <2>1. call.retried => call.field \in Fragile
    BY DEF IInv, OnlyFragileRetried, Collect, Writing
  <2>2. useFallback /\ w # 8 => shaken
    BY DEF shaken, Collect, Writing, OnFallback
  <2> QED
    BY <1>4, <2>1, <2>2
<1>9. UNCHANGED result /\ shaken' = FALSE
  BY <1>2 DEF result, shaken, Collect
<1>10. Promise!Put(cur, call.field)
  BY <1>4, <1>5, <1>7, <1>8, <1>9 DEF Promise!Put
<1> QED
  BY <1>1, <1>4, <1>10 DEF Promise!Next

LEMMA PromiseReconstruct ==
  ASSUME IInv, Outputs = {TRUE}, Reconstruct
  PROVE  Promise!Next
<1> DEFINE b == call.from
<1>1. b \in Exposed /\ call.field = mem[b].field /\ restored.of = call.field
      /\ restored.kind = "outliers"
      /\ (Sound(mem[b]) => quant = "right")
  BY DEF IInv, OpenArchive, Reading, Reconstruct
<1> HIDE DEF b
<1>2. mem' = mem /\ alloclen = derive_len(call.field) /\ call.field \in Field
  BY DEF IInv, Flags, Reading, Reconstruct, TypeOK, CallArgs
<1>3. restored' = [restored EXCEPT !.kind = IF quant = "right" THEN "field"
                                                              ELSE "garbage"]
  BY <1>1, <1>2, DerivedLengths DEF Reconstruct
<1>4. restored'.of = mem[b].field
      /\ restored'.kind = IF quant = "right" THEN "field" ELSE "garbage"
  BY <1>1, <1>3 DEF IInv, TypeOK
<1>5. mem[b].field \in Field /\ b \in Buffer
      /\ store[b] = IF Sound(mem[b]) THEN mem[b].field ELSE Damaged
  BY <1>1, ExposedArchive DEF IInv
<1>6. result' = IF quant = "right" THEN mem[b].field ELSE Damaged
  BY <1>4 DEF result
<1>7. UNCHANGED <<store, shaken>>
  <2>1. ~useFallback' /\ pc \in Reading
    BY <1>2, DerivedLengths DEF Reconstruct, Reading
  <2> QED
    BY <1>2, <2>1 DEF store, shaken, Reading, Writing
<1>8. Promise!Get(b)
  BY <1>1, <1>5, <1>6, <1>7, PromiseAssumption DEF Promise!Get
<1> QED
  BY <1>5, <1>8 DEF Promise!Next

LEMMA PromiseStep ==
  ASSUME IInv, Outputs = {TRUE}, [ApiNext]_vars
  PROVE  [Promise!Next]_<<store, result, shaken>>
<1>1. ASSUME UNCHANGED <<mem, restored>>
      PROVE  UNCHANGED <<store, result>>
  BY <1>1 DEF store, result
<1>2. CASE UNCHANGED vars
  BY <1>1, <1>2 DEF vars, objVars, outVars, shaken
<1>3. ASSUME NEW f \in Field, NEW both \in BOOLEAN, CoreCompress(f, both)
      PROVE  UNCHANGED <<store, result, shaken>>
  <2>1. pc = "idle" /\ pc' = "construct" /\ useFallback' = useFallback
    BY <1>3 DEF CoreCompress, StartCompress
  <2>2. shaken' = shaken
    BY <2>1 DEF shaken, Writing, OnFallback
  <2> QED
    BY <1>1, <1>3, <2>2 DEF CoreCompress, InitDetail, outVars
<1>4. ASSUME NEW b \in Exposed, NEW zeroed \in Outputs,
             CoreDecompress(b, zeroed)
      PROVE  Promise!Next
  <2>1. mem' = mem /\ restored' = [kind |-> "none", of |-> mem[b].field]
    BY <1>4 DEF CoreDecompress, InitDetail, StartDecompress
  <2>2. result' = Nothing /\ UNCHANGED store
    BY <2>1 DEF result, store
  <2>3. shaken' = FALSE
    BY <1>4 DEF CoreDecompress, StartDecompress, shaken, Writing
  <2> QED
    BY <2>2, <2>3 DEF Promise!Next, Promise!Reuse
<1>5. CASE Construct
  <2>1. pc' = "histogram" /\ UNCHANGED <<mem, restored, useFallback>>
    BY <1>5, DerivedLengths
    DEF Construct, IInv, TypeOK, CallArgs, Flags, Writing, outVars
  <2>2. shaken' = shaken
    BY <1>5, <2>1 DEF Construct, shaken, Writing, OnFallback
  <2> QED
    BY <1>1, <2>1, <2>2
<1>5a. CASE Histogram \/ BuildPrimary
  <2>1. /\ pc \in {"histogram", "build4"}
        /\ pc' \in {"fallback", "build4", "encode4"}
        /\ UNCHANGED <<mem, restored, useFallback>>
    BY <1>5a DEF Histogram, BuildPrimary, BuildBook, outVars
  <2>2. shaken' = shaken
    BY <2>1 DEF shaken, Writing, OnFallback
  <2> QED
    BY <1>1, <2>1, <2>2
<1>5b. CASE AllocFallback
  <2>1. shaken' = FALSE /\ UNCHANGED <<mem, restored>>
    BY <1>5b DEF AllocFallback, outVars, shaken, OnFallback
  <2> QED
    BY <1>1, <2>1 DEF Promise!Next, Promise!Recover
<1>5c. CASE BuildFallback
  <2>1. pc = "build8" /\ useFallback /\ UNCHANGED <<mem, restored, useFallback>>
    BY <1>5c DEF BuildFallback, IInv, Flags, OnFallback, outVars
  <2>2. CASE Unbuildable(8, freq)
    <3>1. shaken'
      BY <1>5c, <2>1, <2>2 DEF BuildFallback, BuildBook, shaken
    <3>2. call.field \in Unstorable
      BY <2>1, <2>2 DEF IInv, FirstTry, Unstorable, TypeOK, CallArgs
    <3> QED
      BY <1>1, <2>1, <3>1, <3>2 DEF Promise!Next, Promise!Fail, shaken
  <2>3. CASE ~Unbuildable(8, freq)
    <3>1. shaken' = shaken
      BY <1>5c, <2>1, <2>3 DEF BuildFallback, BuildBook, shaken, OnFallback
    <3> QED
      BY <1>1, <2>1, <3>1
  <2> QED
    BY <2>2, <2>3
<1>5d. CASE Decode
  <2>1. shaken' = shaken
    BY <1>5d DEF Decode, shaken, Writing
  <2> QED
    BY <1>1, <1>5d, <2>1 DEF Decode
<1>6. ASSUME NEW w \in Width, Encode(w)
      PROVE  UNCHANGED <<store, result, shaken>>
  <2>1. shaken' = shaken
    BY <1>6 DEF Encode, shaken, Writing, OnFallback
  <2> QED
    BY <1>1, <1>6, <2>1 DEF Encode, outVars
<1>7. CASE Scatter
  <2>1. mem' = mem /\ restored.kind = "none"
        /\ restored'.kind \in {"outliers", "mixed"}
    BY <1>7 DEF Scatter, objVars, IInv, OpenArchive, Reading, TypeOK
  <2>2. shaken' = shaken
    BY <1>7 DEF Scatter, objVars, shaken, Writing
  <2> QED
    BY <2>1, <2>2 DEF store, result
<1> QED
  BY <1>2, <1>3, <1>4, <1>5, <1>5a, <1>5b, <1>5c, <1>5d, <1>6, <1>7, PromiseCollect, PromiseReconstruct
  DEF ApiNext, ApiCall, Step

(* The object keeps its promise to a client that passes zeroed output       *)
(* arrays: what it decompresses is the field that was compressed.  Only a   *)
(* field the 4-byte codec cannot hold may come back damaged, and one that   *)
(* was compressed after a compression that threw, and no other after it.    *)
THEOREM PromiseKept ==
  ASSUME Outputs = {TRUE}
  PROVE  ApiSpec => KeepsPromise
BY Soundness, PromiseStart, PromiseStep, PTL
DEF ApiSpec, KeepsPromise, Promise!Spec

-----------------------------------------------------------------------------
(* The compressor object in the hands of any client: its member functions  *)
(* called in any order, without the initialisation that CuszApi puts       *)
(* before every call.                                                      *)

\* The predictor and the 4-byte codec are allocated for the same length (TypeOK), so
\* the check of the one covers the other until it has encoded.
OneLength ==
  pc \in {"histogram", "build4", "encode4"} => Len[call.field] <= codec[4].cap

\* What the codebook in the making, or made, will have a codeword for.
Covers ==
  ~call.retried =>
    /\ pc \in {"build4", "fallback", "build8"} =>
         Occurs(call.field) \subseteq Coded(freq)
    /\ pc \in {"encode4", "collect4"} =>
         Occurs(call.field) \subseteq Coded(codec[4].book)
    /\ pc \in {"encode8", "collect8"} =>
         Occurs(call.field) \subseteq Coded(codec[8].book)

\* A decompression uses the codec the header names, on the archive it was given.
Selected ==
  pc \in {"scatter", "decode"} =>
    call.from \in Exposed /\ useFallback = (mem[call.from].name = 8)

ObjectInv == /\ TypeOK /\ OneLength /\ Covers /\ NoSymbolLost /\ Selected
             /\ DecodesInAnyState
-----------------------------------------------------------------------------
LEMMA ObjectStart == Init => ObjectInv
<1> SUFFICES ASSUME Init PROVE ObjectInv
  OBVIOUS
<1>1. Exposed = {} /\ pc = "idle"
  BY DEF Init, Exposed
<1>2. OneLength
  BY DEF Init, OneLength
<1> QED
  BY <1>1, <1>2, TypeStart
  DEF ObjectInv, Covers, NoSymbolLost, Selected, DecodesInAnyState

(* The calls a client may make of the object, one lemma each: types first.   *)
LEMMA ObjectInit ==
  ASSUME ObjectInv, NEW f \in Field, NEW both \in BOOLEAN, InitCall(f, both)
  PROVE  ObjectInv'
<1> USE ConstantsAssumption DEF InitCall, InitDetail, outVars
<1>1. /\ codec' \in [Width -> [cap : Nat, book : Counts, residue : Nat]]
      /\ codec'[4].cap = alloclen'.serialized
  BY InitLengths DEF ObjectInv
<1>2. TypeOK'
  BY <1>1, ZeroCounts, DerivedLengths DEF ObjectInv, TypeOK
<1>3. OneLength'
  BY DEF OneLength
<1> QED
  BY <1>2, <1>3 DEF ObjectInv, Covers, NoSymbolLost, Selected, DecodesInAnyState, Exposed

LEMMA ObjectCompress ==
  ASSUME ObjectInv, NEW f \in Field, NEW both \in BOOLEAN, CompressCall(f, both)
  PROVE  ObjectInv'
<1> USE DEF CompressCall, StartCompress, objVars, outVars
<1>1. TypeOK'
  BY ConstantsAssumption DEF ObjectInv, TypeOK, PcSet, CallArgs
<1> QED
  BY <1>1 DEF ObjectInv, OneLength, Covers, NoSymbolLost, Selected,
     DecodesInAnyState, Exposed

LEMMA ObjectDecompress ==
  ASSUME ObjectInv, NEW b \in Exposed, NEW zeroed \in BOOLEAN,
         DecompressCall(b, zeroed)
  PROVE  ObjectInv'
<1> USE DEF DecompressCall, StartDecompress
<1>1. b \in Buffer /\ mem[b] \in Archive /\ mem[b].field \in Field
  BY DEF ObjectInv, TypeOK, Exposed, Archive
<1>2. call' \in CallArgs /\ pc' \in PcSet
  BY <1>1, ConstantsAssumption DEF CallArgs, PcSet, Buffer
<1>3. restored' \in [kind : {"none", "outliers", "mixed", "field", "garbage"},
                     of : Field]
  BY <1>1
<1>4. TypeOK'
  BY <1>2, <1>3 DEF ObjectInv, TypeOK
<1>5. Exposed' = Exposed
  BY DEF Exposed
<1> QED
  BY <1>4, <1>5 DEF ObjectInv, OneLength, Covers, NoSymbolLost, Selected,
     DecodesInAnyState

LEMMA ObjectClear ==
  ASSUME ObjectInv, ClearBuffer
  PROVE  ObjectInv'
<1> USE DEF ClearBuffer, outVars
<1>1. codec' \in [Width -> [cap : Nat, book : Counts, residue : Nat]]
      /\ codec'[4].cap = codec[4].cap
  BY FreshCodecType DEF ObjectInv, TypeOK, FreshCodec
<1> QED
  BY <1>1 DEF ObjectInv, TypeOK, OneLength, Covers, NoSymbolLost, Selected,
     DecodesInAnyState, Exposed

(* The steps of a call.                                                      *)
LEMMA ObjectStep ==
  ASSUME ObjectInv, Step
  PROVE  ObjectInv'
<1> USE ConstantsAssumption DEF outVars
<1>0. TypeOK /\ TypeOK' /\ call.field \in Field
  BY TypeStep DEF ObjectInv, TypeOK, CallArgs
<1>1. ASSUME UNCHANGED mem
      PROVE  Exposed' = Exposed /\ NoSymbolLost'
  BY <1>1 DEF ObjectInv, Exposed, NoSymbolLost
<1>2. CASE Construct
  <2>1. OneLength'
    BY <1>0, <1>2 DEF ObjectInv, OneLength, Construct, Escape, derive_len, Exceeds, TypeOK, Lengths
  <2>2. Covers' /\ Selected' /\ DecodesInAnyState'
    BY <1>2 DEF Construct, Escape, Covers, Selected, DecodesInAnyState
  <2> QED
    BY <1>0, <1>1, <1>2, <2>1, <2>2 DEF ObjectInv, Construct
<1>3. CASE Histogram
  <2>1. Occurs(call.field) \subseteq Coded(freq')
    BY <1>0, <1>3 DEF Histogram, Occurs, Coded, TypeOK, Counts
  <2>2. OneLength' /\ Covers'
    BY <1>3, <2>1 DEF ObjectInv, OneLength, Histogram, Covers
  <2>3. Selected' /\ DecodesInAnyState'
    BY <1>3 DEF Histogram, Selected, DecodesInAnyState
  <2> QED
    BY <1>0, <1>1, <1>3, <2>2, <2>3 DEF ObjectInv, Histogram
<1>4. CASE BuildPrimary
  <2>1. OneLength' /\ Covers'
    <3>1. CASE Unbuildable(4, freq)
      <4>1. pc' = "fallback" /\ call'.retried /\ codec' = codec
        BY <1>0, <1>4, <3>1 DEF BuildPrimary, BuildBook, TypeOK, CallArgs
      <4> QED
        BY <1>4, <4>1 DEF ObjectInv, OneLength, Covers, BuildPrimary
    <3>2. CASE ~Unbuildable(4, freq)
      <4>1. pc = "build4" /\ pc' = "encode4" /\ call' = call
            /\ codec' = [codec EXCEPT ![4].book = freq]
        BY <1>4, <3>2 DEF BuildPrimary, BuildBook
      <4>2. codec'[4].cap = codec[4].cap /\ codec'[4].book = freq
        BY <1>0, <4>1 DEF TypeOK
      <4> QED
        BY <1>4, <4>1, <4>2 DEF ObjectInv, OneLength, Covers, BuildPrimary
    <3> QED
      BY <3>1, <3>2
  <2>2. Selected' /\ DecodesInAnyState'
    BY <1>4 DEF BuildPrimary, BuildBook, Selected, DecodesInAnyState
  <2> QED
    BY <1>0, <1>1, <1>4, <2>1, <2>2 DEF ObjectInv, BuildPrimary
<1>5. CASE AllocFallback
  <2>1. codec'[4] = codec[4]
    BY <1>0, <1>5 DEF AllocFallback, TypeOK
  <2>2. OneLength' /\ Covers'
    BY <1>5, <2>1 DEF ObjectInv, OneLength, Covers, AllocFallback
  <2>3. Selected' /\ DecodesInAnyState'
    BY <1>5 DEF AllocFallback, Selected, DecodesInAnyState
  <2> QED
    BY <1>0, <1>1, <1>5, <2>2, <2>3 DEF ObjectInv, AllocFallback
<1>6. CASE BuildFallback
  <2>1. codec'[4] = codec[4] /\ (pc' # "idle" => codec'[8].book = freq)
    BY <1>0, <1>6 DEF BuildFallback, BuildBook, TypeOK
  <2>2. pc = "build8" /\ pc' \in {"idle", "encode8"}
    BY <1>6 DEF BuildFallback, BuildBook
  <2>3. OneLength' /\ Covers'
    BY <1>6, <2>1, <2>2 DEF ObjectInv, OneLength, Covers, BuildFallback
  <2>4. Selected' /\ DecodesInAnyState'
    BY <2>2 DEF Selected, DecodesInAnyState
  <2> QED
    BY <1>0, <1>1, <1>6, <2>3, <2>4 DEF ObjectInv, BuildFallback
<1>7. ASSUME NEW w \in Width, Encode(w)
      PROVE  ObjectInv'
  <2>1. \A v \in Width : codec'[v].cap = codec[v].cap /\ codec'[v].book = codec[v].book
    BY <1>0, <1>7 DEF Encode, TypeOK
  <2>2. OneLength' /\ Covers'
    BY <1>7, <2>1 DEF ObjectInv, OneLength, Covers, Encode
  <2>3. Selected' /\ DecodesInAnyState'
    BY <1>7 DEF Encode, Selected, DecodesInAnyState
  <2> QED
    BY <1>0, <1>1, <1>7, <2>2, <2>3 DEF ObjectInv, Encode
<1>8. ASSUME NEW w \in Width, Collect(w)
      PROVE  ObjectInv'
  <2>1. ~call.retried => Occurs(call.field) \subseteq Coded(codec[w].book)
    BY <1>8 DEF ObjectInv, Covers, Collect
  <2>2. cur \in Buffer
    BY <1>0, <1>8 DEF TypeOK, Buffer, Collect
  <2>3. \A b \in Exposed' :
          \/ b \in Exposed /\ mem'[b] = mem[b]
          \/ /\ mem'[b].field = call.field /\ mem'[b].retried = call.retried
             /\ mem'[b].book = codec[w].book
    BY <1>0, <1>8, <2>2 DEF TypeOK, Exposed, Collect
  <2>4. NoSymbolLost'
    BY <2>1, <2>3 DEF ObjectInv, NoSymbolLost
  <2>5. pc' = "idle" /\ UNCHANGED <<call, codec, alloclen>>
    BY <1>8 DEF Collect
  <2>6. OneLength' /\ Covers' /\ Selected' /\ DecodesInAnyState'
    BY <2>5 DEF ObjectInv, OneLength, Covers, Selected, DecodesInAnyState
  <2> QED
    BY <1>0, <2>4, <2>6 DEF ObjectInv
<1>9. CASE Scatter
  BY <1>0, <1>1, <1>9 DEF ObjectInv, Scatter, objVars, OneLength, Covers, Selected,
     DecodesInAnyState
<1>10. CASE Decode
  <2>1. codec'[4] = codec[4]
    BY <1>0, <1>10 DEF Decode, TypeOK
  <2>2. OneLength' /\ Covers' /\ Selected'
    BY <1>10, <2>1 DEF ObjectInv, OneLength, Covers, Selected, Decode
  <2>3. mem[call.from] \in Archive /\ useFallback = (mem[call.from].name = 8)
    BY <1>0, <1>10 DEF ObjectInv, Selected, Decode, TypeOK, Exposed
  <2>4. DecodesInAnyState'
    BY <1>10, <2>3 DEF DecodesInAnyState, Decode, Decodes, Archive
  <2> QED
    BY <1>0, <1>1, <1>10, <2>2, <2>4 DEF ObjectInv, Decode
<1>11. CASE Reconstruct
  BY <1>0, <1>1, <1>11 DEF ObjectInv, Reconstruct, OneLength, Covers, Selected,
     DecodesInAnyState
<1> QED
  BY <1>2, <1>3, <1>4, <1>5, <1>6, <1>7, <1>8, <1>9, <1>10, <1>11 DEF Step

LEMMA ObjectSound == Spec => []ObjectInv
<1>1. ObjectInv /\ [Next]_vars => ObjectInv'
  <2> SUFFICES ASSUME ObjectInv, [Next]_vars PROVE ObjectInv'
    OBVIOUS
  <2>1. CASE Call
    BY <2>1, ObjectInit, ObjectCompress, ObjectDecompress, ObjectClear DEF Call
  <2>2. CASE Step
    BY <2>2, ObjectStep
  <2>3. CASE UNCHANGED vars
    BY <2>3 DEF vars, objVars, outVars, ObjectInv, TypeOK, OneLength, Covers, NoSymbolLost,
       Selected, DecodesInAnyState, Exposed
  <2> QED
    BY <2>1, <2>2, <2>3 DEF Next
<1> QED
  BY <1>1, ObjectStart, PTL DEF Spec

(* init(), clear_buffer(), compress() and decompress() in any order, with    *)
(* every exception of theirs: no archive of a first try lacks the codeword   *)
(* of a quant-code of its field, although nothing but init() clears d_freq.  *)
THEOREM NothingLost == Spec => []NoSymbolLost
<1>1. ObjectInv => NoSymbolLost
  BY DEF ObjectInv
<1> QED
  BY <1>1, ObjectSound, PTL

(* The predictor's check of the length protects the 4-byte codec, whatever   *)
(* init() was called for and whichever codecs it allocated.                  *)
THEOREM CheckProtects == Spec => []PrimaryFits
<1>1. ObjectInv => PrimaryFits
  BY DEF ObjectInv, OneLength, PrimaryFits
<1> QED
  BY <1>1, ObjectSound, PTL

(* What an archive can be decoded to does not depend on what the object has  *)
(* been through, including exceptions that left its fallback flag set.       *)
THEOREM AlwaysDecodes == Spec => []DecodesInAnyState
<1>1. ObjectInv => DecodesInAnyState
  BY DEF ObjectInv
<1> QED
  BY <1>1, ObjectSound, PTL
================================================================================
