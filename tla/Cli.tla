---------------------------------- MODULE Cli ----------------------------------
(***************************************************************************)
(* The cusz command and the files it works on.  A process reads its        *)
(* command line (Context), compresses a field into NAME.cusza, decompresses*)
(* that into NAME.cuszx, or both, or only tries the predictor (dry run).   *)
(* It may be killed at any moment; opening a file for writing empties it.  *)
(* A program that uses the C API instead keeps everything in memory.       *)
(*                                                                         *)
(* What compression and decompression do to values is the subject of other *)
(* modules: here a result is the content it is of, its extents and its     *)
(* error.  Where the code's behaviour is undefined the process dies, or    *)
(* goes on with an archive that is "damaged" or a result of "garbage".     *)
(***************************************************************************)
EXTENDS Context, Archive

Cap == INSTANCE Capsule

CONSTANTS
  Fields,       \* the files there are to begin with, by path
  ReadOnly,     \* paths that cannot be opened for writing
  Commands,     \* command lines: [argv, asks, writes]
  ApiCalls,     \* uses of the C API: [from, len, eb]
  Spread(_),    \* the value range of a content
  Yields,       \* what encoding may come to: [ncell, nnz]
  NThread,      \* the threads the device runs at once, for autotuning
  MaxCommands   \* bound on the processes

ASSUME CliAssumption ==
  /\ NThread \in Nat \ {0} /\ MaxCommands \in Nat
  /\ \A n \in DOMAIN Fields : n \in Seq(STRING) /\ Fields[n].kind = "field"
  /\ \A y \in Yields : y.ncell \in Nat /\ y.nnz \in Nat
  /\ \A c \in ApiCalls : {c.len.x, c.len.y, c.len.z, c.len.w} \subseteq Int

VARIABLES
  disk,    \* the files, by path
  pc,      \* what the process is about to do, "idle" when there is none
  cmd,     \* its command line, and what that asks for
  i,       \* the token it has come to
  ctx,     \* its cuszCTX
  held,    \* the data in its memory: a field, an archive or a result
  asked,   \* the compressions asked for so far
  count    \* processes so far

vars == <<disk, pc, cmd, i, ctx, held, asked, count>>

Nothing == Cap!NoFile
Cut     == [kind |-> "cut"]             \* opened for writing, written in part at most
Garbage == [kind |-> "garbage"]
NoCmd   == [argv |-> <<>>, api |-> FALSE, writes |-> {}]

ToCusza(name) == name \o <<".", "cusza">>
ToCuszx(name) == name \o <<".", "cuszx">>
File(name)    == IF name \in DOMAIN disk THEN disk[name] ELSE Nothing
Put(name, c)  == [n \in DOMAIN disk \cup {name} |-> IF n = name THEN c ELSE disk[n]]

\* The process ends, whether it returns, exits, throws or is killed.
Gone == pc' = "idle" /\ cmd' = NoCmd /\ i' = 1 /\ ctx' = Fresh /\ held' = Nothing
Die  == Gone /\ UNCHANGED <<disk, asked, count>>

-----------------------------------------------------------------------------
(* The command line.                                                       *)

Asked(from, ext, bound) == IF from \in DOMAIN disk
                           THEN {[name |-> from, of |-> disk[from], ext |-> ext, bound |-> bound]} ELSE {}
Invoke(c) ==
  /\ pc = "idle" /\ count < MaxCommands
  /\ cmd' = [argv |-> c.argv, api |-> FALSE, writes |-> c.writes]
  /\ asked' = asked \cup UNION {Asked(q.from, q.ext, IF q.rel /\ q.from \in DOMAIN disk THEN q.eb * Spread(disk[q.from])
                                                     ELSE q.eb) : q \in c.asks}
  /\ pc' = "parse" /\ count' = count + 1
  /\ UNCHANGED <<disk, i, ctx, held>>

IsOption(tok)  == "opt" \in DOMAIN tok
OptAt(argv, k) == IF k <= Len(argv) /\ IsOption(argv[k]) THEN argv[k].opt ELSE ""
Opt == OptAt(cmd.argv, i)
Parsing(Options) == pc = "parse" /\ Opt \in Options

ParseFlag ==
  /\ Parsing(Flag)
  /\ ctx' = Flagged(ctx, Opt) /\ i' = i + 1
  /\ UNCHANGED <<disk, pc, cmd, held, asked, count>>

\* An option that is the last token has nothing to take, and throws.
ParseValued ==
  /\ Parsing(Valued)
  /\ IF i = Len(cmd.argv) THEN Die
     ELSE \E c \in Takes(ctx, Opt, cmd.argv[i + 1]) :
            IF c.thrown THEN Die
            ELSE ctx' = c /\ i' = i + 2 /\ UNCHANGED <<disk, pc, cmd, held, asked, count>>

ParsePlaceholder ==
  /\ Parsing(Placeholder)
  /\ IF i = Len(cmd.argv) THEN Die
     ELSE i' = i + 1 /\ UNCHANGED <<disk, pc, cmd, ctx, held, asked, count>>

\* An invalid token is reported, and parsing goes on.
ParseInvalid ==
  /\ pc = "parse" /\ i <= Len(cmd.argv)
  /\ Opt \notin Flag \cup Valued \cup Placeholder \cup Leaves
  /\ ctx' = Trapped(ctx) /\ i' = i + 1
  /\ UNCHANGED <<disk, pc, cmd, held, asked, count>>

PrintHelp == Parsing(Leaves) /\ Die

\* The rest of the constructor.  A dictionary that is too large is left to an
\* assertion, which the build may have compiled out.
Rejected(argv, c) == argv = <<>> \/ c.status # 0 \/ Illegal(c)
Settled(c) == derive_fnames(DryrunOnly(IF c.predictor = "spline3" THEN [c EXCEPT !.anchor = TRUE] ELSE c))
Check ==
  /\ pc = "parse" /\ i > Len(cmd.argv)
  /\ \/ /\ ~Rejected(cmd.argv, ctx)
        /\ ctx' = Settled(ctx) /\ pc' = "dispatch"
        /\ UNCHANGED <<disk, cmd, i, held, asked, count>>
     \/ (Rejected(cmd.argv, ctx) \/ DictTooLarge(ctx)) /\ Die

-----------------------------------------------------------------------------
(* The tasks.                                                              *)

FirstTask(c) == IF c.construct THEN "load" ELSE "load_compressed"
Dispatch ==
  /\ pc = "dispatch"
  /\ IF ctx.predictor = "spline3" THEN Die
     ELSE /\ pc' = IF ctx.dryrun THEN "dryrun" ELSE FirstTask(ctx)
          /\ UNCHANGED <<disk, cmd, i, ctx, held, asked, count>>

\* A capsule with room for len elements on both sides; with a file read into it.
Room(len) == Cap!alloc(Cap!set_len(Cap!Capsule, len), Cap!HOST_DEVICE)
Loaded(c, name) == Cap!host2device(Cap!from_file(c, File(name)))

\* The dry run has room for a predictor's arrays, of which it fills the first: the
\* prediction is commented out.  Its anchors are none, which may come to no pointer.
\* It also reads a context that was never set.
init_generic_dryrun ==
  {[n \in {"original", "outlier", "errctrl", "anchor", "reconst"} |->
     IF n = "anchor" THEN anchor ELSE Room(ctx.x * ctx.y * ctx.z)] : anchor \in {Room(0), Cap!set_len(Cap!Capsule, 0)}}
generic_dryrun(nc) == [nc EXCEPT !.original = Loaded(@, ctx.fname), !.reconst = Cap!device2host(@)]
destroy_generic_dryrun(nc) == [n \in DOMAIN nc |-> Cap!free(nc[n], Cap!HOST_DEVICE)]
Dryrun ==
  /\ pc = "dryrun"
  /\ \/ Die
     \/ \E nc \in init_generic_dryrun :
          LET end == destroy_generic_dryrun(generic_dryrun(nc))
          IN  IF ~(ctx.construct \/ ctx.reconstruct) \/ \E n \in DOMAIN end : end[n].threw THEN Die
              ELSE pc' = FirstTask(ctx) /\ UNCHANGED <<disk, cmd, i, ctx, held, asked, count>>

load_uncompressed ==
  /\ pc = "load"
  /\ LET input == Loaded(Room(ctx.data_len), ctx.fname)
     IN  IF input.threw THEN Die
         ELSE held' = Cap!dptr(input) /\ pc' = "adjust" /\ UNCHANGED <<disk, cmd, i, ctx, asked, count>>

AdjustsAlways(c) == [c EXCEPT !.eb = @ * Spread(held)]                              \* mutant
adjust_eb(c)     == IF c.mode = "r2r" THEN [c EXCEPT !.eb = @ * Spread(held)] ELSE c
Adjust ==
  /\ pc = "adjust"
  /\ ctx' = adjust_eb(ctx) /\ pc' = "compress"
  /\ UNCHANGED <<disk, cmd, i, held, asked, count>>

\* What the compressor makes of the field it holds.  The predictor knows three
\* extents; it divides by the error bound, and counts into 2 * radius bins.
Shape(w, yield) ==
  [w |-> w, len |-> ctx.data_len, booklen |-> 2 * ctx.radius, pardeg |-> autotune_coarse_parvle(ctx, NThread).pardeg,
   ncell |-> yield.ncell, nnz |-> yield.nnz, density |-> ctx.nz_density_factor]
Undefined(a) == ctx.eb = 0 \/ ctx.radius < 0 \/ ctx.x * ctx.y * ctx.z # ctx.data_len \/ Overrun(a) # {}
Compressed(a) ==
  [kind |-> "archive", of |-> held, ext |-> <<ctx.x, ctx.y, ctx.z>>, eb |-> ctx.eb, shape |-> a,
   buf |-> subfile_collect(a), damaged |-> Undefined(a)]

\* The caller's len * 1.03, cut to an integer, is compared with 1.0299 * len: of the
\* fields below 10000 values many do not pass.
Roomy(len) == ((103 * len) \div 100) * 10000 > 10299 * len

\* The fallback codec takes over when the 4-byte one throws, and may throw itself;
\* a chunk length or density factor of 0 is divided by.
Compress ==
  /\ pc = "compress"
  /\ \/ Die
     \/ /\ cmd.api \/ Roomy(ctx.data_len)
        /\ ctx.nz_density_factor > 0 /\ (ctx.autotune \/ ctx.vle_sublen > 0)
        /\ \E yield \in Yields, w \in IF ctx.huff_bytewidth = 8 THEN {8} ELSE {4, 8} :
             held' = Compressed(Shape(w, yield))
        /\ pc' = IF cmd.api THEN "decompress" ELSE "save"
        /\ UNCHANGED <<disk, cmd, i, ctx, asked, count>>

\* What is to be written is brought to the host, out of an array that is lent by the
\* compressor, and freed here, or of the capsule's own.  A file that does not open is
\* passed over in silence.
Archived == Cap!to_file(Cap!device2host(Cap!alloc(Cap!set(Cap!set_len(Cap!Capsule, 1), Cap!DEVICE, held), Cap!HOST)))
Restored == Cap!to_file(Cap!device2host(Cap!Held(Room(1), Cap!DEVICE, held)))
Open(name) == disk' = IF name \in ReadOnly THEN disk ELSE Put(name, Cut)
Data(name, c) == disk' = IF name \in ReadOnly THEN disk ELSE Put(name, Cap!hptr(c))

OpenCompressed ==
  /\ pc = "save" /\ ~Archived.threw
  /\ Open(ToCusza(ctx.fname)) /\ pc' = "save_data"
  /\ UNCHANGED <<cmd, i, ctx, held, asked, count>>
write_compressed_to_disk ==
  /\ pc = "save_data"
  /\ Data(ToCusza(ctx.fname), Archived)
  /\ IF ctx.reconstruct /\ ~Cap!free(Archived, Cap!HOST_DEVICE).threw
       THEN pc' = "load_compressed" /\ held' = Nothing /\ UNCHANGED <<cmd, i, ctx>> ELSE Gone
  /\ UNCHANGED <<asked, count>>

\* The header is taken from whatever the file begins with, and so are the lengths
\* it is checked against.
get_filesize(file) == IF file = Cut THEN {0, 1} ELSE {1}
load_compressed ==
  /\ pc = "load_compressed"
  /\ \E len \in get_filesize(File(ToCusza(ctx.fname))) :
       LET compressed == Loaded(Room(len), ToCusza(ctx.fname))
           IsArchive  == Cap!hptr(compressed).kind = "archive"
       IN  \/ (compressed.threw \/ ~IsArchive) /\ Die
           \/ /\ ~compressed.threw
              /\ held' = IF IsArchive THEN Cap!dptr(compressed) ELSE Garbage
              /\ pc' = "decompress"
              /\ UNCHANGED <<disk, cmd, i, ctx, asked, count>>

Readable(a) == a.kind = "archive" /\ ~a.damaged
Decompressed(a) ==
  IF Readable(a) /\ HfDecoderReads(a.shape, a.buf) /\ SpDecoderReads(a.shape, a.buf)
  THEN [kind |-> "result", of |-> a.of, ext |-> a.ext, err |-> a.eb] ELSE Garbage
Decompress ==
  /\ pc = "decompress"
  /\ \/ ~Readable(held) /\ Die
     \/ held' = Decompressed(held) /\ pc' = "view" /\ UNCHANGED <<disk, cmd, i, ctx, asked, count>>

StoresFirst ==                                                                    \* mutant
  /\ pc = "view"
  /\ IF cmd.api THEN Die ELSE pc' = "store" /\ UNCHANGED <<disk, cmd, i, ctx, held, asked, count>>
\* Quality is shown before the result is stored; without the original, nothing is.
View ==
  /\ pc = "view"
  /\ IF cmd.api \/ (ctx.origin_cmp # <<>> /\ Cap!free(Loaded(Room(1), ctx.origin_cmp), Cap!HOST_DEVICE).threw) THEN Die
     ELSE pc' = "store" /\ UNCHANGED <<disk, cmd, i, ctx, held, asked, count>>

OpenDecompressed ==
  /\ pc = "store"
  /\ IF ctx.skip_write2disk \/ Restored.threw THEN Die
     ELSE Open(ToCuszx(ctx.fname)) /\ pc' = "store_data" /\ UNCHANGED <<cmd, i, ctx, held, asked, count>>
try_write_decompressed_to_disk ==
  /\ pc = "store_data"
  /\ Data(ToCuszx(ctx.fname), Restored) /\ Gone /\ UNCHANGED <<asked, count>>

Kill == pc # "idle" /\ Die

-----------------------------------------------------------------------------
(* A program that compresses and decompresses through the C API.           *)

CallApi(c) ==
  /\ pc = "idle" /\ count < MaxCommands /\ c.from \in DOMAIN disk
  /\ count' = count + 1
  /\ \E d \in ApiContext(c.len, c.eb) :
       IF d.thrown THEN UNCHANGED <<disk, pc, cmd, i, ctx, held, asked>>
       ELSE /\ ctx' = d /\ pc' = "compress" /\ held' = disk[c.from]
            /\ cmd' = [NoCmd EXCEPT !.api = TRUE]
            /\ asked' = asked \cup Asked(c.from, <<c.len.x, c.len.y, c.len.z>>, c.eb)
            /\ UNCHANGED <<disk, i>>

-----------------------------------------------------------------------------
(* What the options of a command line ask for.                             *)

\* The contexts there may be before each token, and after the last.
Alone(argv, k, c) ==
  LET opt == OptAt(argv, k)
  IN  IF opt \in Flag THEN {Flagged(c, opt)} ELSE IF opt \in Placeholder /\ k < Len(argv) THEN {c}
      ELSE IF opt \in Placeholder \cup Valued \cup Leaves THEN {} ELSE {Trapped(c)}
WithNext(argv, k, c) ==
  IF OptAt(argv, k) \in Valued THEN {d \in Takes(c, OptAt(argv, k), argv[k + 1]) : ~d.thrown} ELSE {}
Contexts(argv) ==
  LET C[k \in 1 .. Len(argv) + 1] ==
        IF k = 1 THEN {Fresh}
        ELSE (UNION {Alone(argv, k - 1, c) : c \in C[k - 1]})
               \cup (IF k = 2 THEN {} ELSE UNION {WithNext(argv, k - 2, c) : c \in C[k - 2]})
  IN  C
Meant(argv) == {Settled(c) : c \in {d \in Contexts(argv)[Len(argv) + 1] : ~Rejected(argv, d)}}

\* asks and writes are what the options mean: a compression, where there is what it
\* needs, and the archive and the result, where they can be written.
Names == DOMAIN Fields \cup UNION {c.writes : c \in Commands}
Asks(c, d) ==
  d.construct /\ Roomy(d.data_len) /\ d.fname \in Names =>
    /\ ToCusza(d.fname) \in c.writes \cup ReadOnly
    /\ d.x * d.y * d.z = d.data_len =>
         [from |-> d.fname, ext |-> <<d.x, d.y, d.z>>, eb |-> d.eb, rel |-> d.mode = "r2r"] \in c.asks
Stores(c, d) ==
  d.reconstruct /\ ~d.skip_write2disk /\ ToCusza(d.fname) \in Names /\ d.origin_cmp \in Names \cup {<<>>} =>
    ToCuszx(d.fname) \in c.writes \cup ReadOnly
ASSUME CommandsAssumption ==
  \A c \in Commands :
    /\ c.argv \in Seq({c.argv[k] : k \in DOMAIN c.argv})
    /\ \A k \in 1 .. Len(c.argv) - 1 : IsOption(c.argv[k]) => IsReadable(c.argv[k].opt, c.argv[k + 1])
    /\ \A d \in Meant(c.argv) : d.predictor # "spline3" => Asks(c, d) /\ Stores(c, d)

-----------------------------------------------------------------------------
Init ==
  /\ disk = Fields
  /\ pc = "idle" /\ cmd = NoCmd /\ i = 1 /\ ctx = Fresh /\ held = Nothing
  /\ asked = {} /\ count = 0

Step ==
  \/ ParseFlag \/ ParseValued \/ ParsePlaceholder \/ ParseInvalid \/ PrintHelp \/ Check
  \/ Dispatch \/ Dryrun
  \/ load_uncompressed \/ Adjust \/ Compress \/ OpenCompressed \/ write_compressed_to_disk
  \/ load_compressed \/ Decompress \/ View \/ OpenDecompressed \/ try_write_decompressed_to_disk
  \/ Kill

Next == \/ \E c \in Commands : Invoke(c)
        \/ \E c \in ApiCalls : CallApi(c)
        \/ Step
Spec == Init /\ [][Next]_vars

-----------------------------------------------------------------------------
(* Properties.                                                             *)

Kinds == {"field", "archive", "result", "cut", "garbage"}

\* Types: lengths stay within an unsigned int, whatever extents are given, and the
\* process works on what its step needs.
TypeOK ==
  /\ \A n \in DOMAIN disk : disk[n].kind \in Kinds
  /\ held.kind \in Kinds \cup {"nothing"}
  /\ i \in 1 .. Len(cmd.argv) + 1
  /\ ctx.data_len \in 0 .. UINT - 1 /\ ~ctx.thrown
  /\ pc \in {"save", "save_data"} => held.kind = "archive"
  /\ pc \in {"view", "store", "store_data"} => held.kind \in {"result", "garbage"}

\* A result is of the field that a compression of this name was asked for, in the
\* extents asked for, and within the bound asked for (in r2r mode times the field's
\* value range): through the command line, the context, two processes and the file
\* between them.
Faithful ==
  LET Kept(r, q) == r.of = q.of /\ r.ext = q.ext /\ r.err = q.bound
  IN  /\ \A n \in DOMAIN disk : disk[n].kind = "result" =>
           \E q \in asked : n = ToCuszx(q.name) /\ Kept(disk[n], q)
      /\ held.kind = "result" => \E q \in asked : Kept(held, q)

\* The decoders find exactly the parts the encoders wrote in every archive on disk
\* that no buffer was too small for, although each part is placed by the sums of
\* sizes three writers computed on their own.
Intact ==
  \A n \in DOMAIN disk : disk[n].kind = "archive" /\ ~disk[n].damaged =>
    HfDecoderReads(disk[n].shape, disk[n].buf) /\ SpDecoderReads(disk[n].shape, disk[n].buf)

\* The files a command writes are those its options call for: a command line with an
\* error in it, a dry run or a failure before it writes nothing, however much of it
\* had been accepted before.
WritesOnlyAsked ==
  [][\A n \in DOMAIN disk' : (n \in DOMAIN disk /\ disk'[n] = disk[n]) \/ n \in cmd.writes]_vars

\* The context does not depend on the order in which the hash table hands out the
\* pairs of a configuration string, as long as no two of its keys set one thing:
\* except for the anchor, which a predictor of spline3 turns on with whatever pair
\* comes first, when one of the pairs replaces that predictor.
Setting(k) ==
  CASE k \in {"type", "dtype"} -> "dtype" [] k \in {"eb", "errorbound"} -> "eb"
    [] k \in {"len", "length", "demo"} -> "len"
    [] k \in {"cap", "booklen", "dictsize", "radius"} -> "dict"
    [] k \in {"density", "densityfactor"} -> "density" [] OTHER -> k
Configs == {cmd.argv[k + 1].kvs : k \in {j \in 1 .. Len(cmd.argv) - 1 : cmd.argv[j] \in {[opt |-> "-c"], [opt |-> "--config"]}}}
Anchored(c) == [c EXCEPT !.anchor = TRUE]
Replaces(kvs) == ctx.predictor = "spline3" /\ \E j \in DOMAIN kvs : kvs[j].k = "predictor"
OrderIrrelevant ==
  pc = "parse" => \A kvs \in Configs :
    (\A j, k \in DOMAIN kvs : Setting(kvs[j].k) = Setting(kvs[k].k) => kvs[j].k = kvs[k].k) =>
      \A c, d \in set_config(ctx, kvs) :
        \/ c = d \/ (c.thrown /\ d.thrown)
        \/ Replaces(kvs) /\ Anchored(c) = Anchored(d)
================================================================================
