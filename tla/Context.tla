-------------------------------- MODULE Context --------------------------------
(***************************************************************************)
(* The configuration of a run: cuszCTX, made from a command line, from a   *)
(* string of key-value pairs or by a program's setters.                    *)
(*                                                                         *)
(* A token of the command line is a record: an option [opt], or a value,   *)
(* whose field tells how it is written: [num], [str], [name] (a path, cut  *)
(* at each "/" and "."), [dims, by] (numbers and what parts them), [words] *)
(* or [kvs].  A number is one that strtol and strtod read whole.           *)
(***************************************************************************)
EXTENDS Integers, Sequences, FiniteSets

CONSTANTS
  UINT,        \* the numbers of an unsigned int are below it
  DemoSizes    \* of each predefined data set: <<x, y, z, w, ndim>>

ASSUME ContextAssumption ==
  /\ UINT \in Nat /\ UINT > 1
  /\ \A name \in DOMAIN DemoSizes : \A k \in 1 .. 4 : DemoSizes[name][k] \in Int

\* The members of a fresh object; "thrown" is for an exception that nobody catches.
Fresh ==
  [construct |-> FALSE, reconstruct |-> FALSE, dryrun |-> FALSE,
   binning |-> FALSE, prescan |-> FALSE, gzip |-> FALSE, nvcomp |-> FALSE,
   predefined_demo |-> FALSE, release_input |-> FALSE, anchor |-> FALSE, autotune |-> TRUE, gpu_verify |-> FALSE,
   skip_write2disk |-> FALSE, skip_huffman |-> FALSE,
   report_time |-> FALSE, report_cr |-> FALSE, report_compressibility |-> FALSE,
   fname |-> <<>>, origin_cmp |-> <<>>, basename |-> <<>>, path_basename |-> <<>>, opath |-> <<>>,
   verbose |-> FALSE, status |-> 0, dtype |-> "f32", mode |-> "r2r", predictor |-> "lorenzo", pipeline |-> "auto",
   nz_density_factor |-> 4, codecs_in_use |-> {4}, huff_bytewidth |-> 4, vle_sublen |-> 512,
   x |-> 1, y |-> 1, z |-> 1, w |-> 1, ndim |-> -1, data_len |-> 1, alloclen |-> 0,
   eb |-> 0, dict_size |-> 1024, radius |-> 512, thrown |-> FALSE]
Thrown(c) == [c EXCEPT !.thrown = TRUE]

-----------------------------------------------------------------------------
(* Setters.                                                                *)

Extents(c, n, x, y, z, w) ==
  [c EXCEPT !.ndim = n, !.x = x, !.y = y, !.z = z, !.w = w, !.data_len = (x * y * z * w) % UINT]

\* Only "x" parts the extents: of "3600,1800", strtol reads 3600.
Dims(lit) == IF lit.by = "x" THEN lit.dims ELSE <<lit.dims[1]>>
parse_input_length(c, lit) ==
  LET d == Dims(lit)
      D(k) == IF Len(d) >= k THEN d[k] ELSE 1
  IN  Extents(c, Len(d), D(1), D(2), D(3), D(4))

set_lenWide(c, x, y, z, w) ==                                               \* mutant
  [c EXCEPT !.ndim = 2, !.x = x, !.y = y, !.z = z, !.w = w, !.data_len = x * y * z * w]
set_len(c, x, y, z, w) ==
  LET n == CASE y = 1 -> 1 [] y # 1 /\ z = 1 -> 2 [] y # 1 /\ z # 1 /\ w = 1 -> 3 [] OTHER -> 4
      e == Extents(c, n, x, y, z, w)
  IN  IF e.data_len \in {0, 1} THEN Thrown(e) ELSE e

load_demo_sizes(c, name) ==
  IF name \notin DOMAIN DemoSizes THEN Thrown([c EXCEPT !.predefined_demo = TRUE])
  ELSE LET d == DemoSizes[name]
       IN  [Extents(c, d[5], d[1], d[2], d[3], d[4]) EXCEPT !.predefined_demo = TRUE]

set_eb(c, eb)     == [c EXCEPT !.eb = eb]
set_radius(c, r)  == [c EXCEPT !.radius = r, !.dict_size = 2 * r]
set_dict(c, n)    == [c EXCEPT !.dict_size = n, !.radius = n \div 2]
RetunesHuffbyte(c, n) == [c EXCEPT !.huff_bytewidth = n, !.autotune = TRUE]     \* mutant
set_huffbyte(c, n)  == [c EXCEPT !.huff_bytewidth = n, !.codecs_in_use = IF n = 8 THEN {4, 8} ELSE {4}]
set_huffchunk(c, n) == [c EXCEPT !.vle_sublen = n, !.autotune = FALSE]

-----------------------------------------------------------------------------
(* Key-value pairs.                                                        *)

\* A density is given by its reciprocal here.
is_kv_pair(s)  == DOMAIN s # {"k"}
separate_kv(s) == IF is_kv_pair(s) THEN {s} ELSE {}        \* throws when there is none

\* The pairs go into a map, where the first of a key stays and whose order is the
\* hash table's.
parse_strlist_as_kv(kvs) == {kvs[k] : k \in {i \in DOMAIN kvs : \A j \in 1 .. i - 1 : kvs[j].k # kvs[i].k}}

is_enabled(v) == v \in {"on", "ON"}
SetKey(c, kv) ==
  LET k == kv.k IN
  CASE k \in {"type", "dtype"}      -> [c EXCEPT !.dtype = kv.str]
    [] k \in {"eb", "errorbound"}   -> set_eb(c, kv.num)
    [] k = "mode" /\ kv.str \in {"r2r", "abs"} -> [c EXCEPT !.mode = kv.str]
    [] k = "mode" /\ kv.str \notin {"r2r", "abs"} -> Thrown(c)
    [] k \in {"len", "length"}      -> parse_input_length(c, kv)
    [] k = "alloclen"               -> [c EXCEPT !.alloclen = kv.num]
    [] k = "demo"                   -> load_demo_sizes(c, kv.str)
    [] k \in {"cap", "booklen", "dictsize"} -> set_dict(c, kv.num)
    [] k = "radius"                 -> set_radius(c, kv.num)
    [] k = "huffbyte"               -> set_huffbyte(c, kv.num)
    [] k = "huffchunk"              -> set_huffchunk(c, kv.num)
    [] k = "predictor"              -> [c EXCEPT !.predictor = kv.str]
    [] k = "anchor" /\ is_enabled(kv.str)       -> [c EXCEPT !.anchor = TRUE]
    [] k = "releaseinput" /\ is_enabled(kv.str) -> [c EXCEPT !.release_input = TRUE]
    [] k = "gpuverify" /\ is_enabled(kv.str)    -> [c EXCEPT !.gpu_verify = TRUE]
    [] k = "pipeline"               -> [c EXCEPT !.pipeline = kv.str]
    [] k \in {"density", "densityfactor"} -> [c EXCEPT !.nz_density_factor = kv.num]
    [] OTHER -> c

AfterKey(c, kv) ==
  IF c.thrown THEN c
  ELSE LET d == SetKey(c, kv) IN IF d.predictor = "spline3" THEN [d EXCEPT !.anchor = TRUE] ELSE d

\* What the pairs may make of the object, in every order of the map.  A pair with
\* no "=" throws before any is applied.
Orders(c, P) ==
  LET R[S \in SUBSET P] == IF S = {} THEN {c}
                           ELSE UNION {{AfterKey(d, kv) : d \in R[S \ {kv}]} : kv \in S}
  IN  R
set_config(c, kvs) ==
  IF \E i \in DOMAIN kvs : separate_kv(kvs[i]) = {} THEN {Thrown(c)}
  ELSE Orders(c, parse_strlist_as_kv(kvs))[parse_strlist_as_kv(kvs)]

-----------------------------------------------------------------------------
(* Options.                                                                *)

\* A report's name alone turns it on; with a value, the value decides.  Of anything
\* but on and off, nothing is made.
parse_kv_onoff(s) == IF s.str \in {"on", "ON", "off", "OFF"} THEN [o |-> s.k, on |-> is_enabled(s.str)]
                     ELSE [o |-> "", on |-> FALSE]
set_report(c, words) ==
  LET said(i) == IF is_kv_pair(words[i]) THEN parse_kv_onoff(words[i]) ELSE [o |-> words[i].k, on |-> TRUE]
      Last(name) == LET I == {i \in DOMAIN words : said(i).o = name}
                    IN  IF I = {} THEN {} ELSE {said(CHOOSE i \in I : \A j \in I : j <= i).on}
      Asked(name, was) == IF Last(name) = {} THEN was ELSE TRUE \in Last(name)
  IN  [c EXCEPT !.report_cr = Asked("cr", @), !.report_time = Asked("time", @),
                !.report_compressibility = Asked("compressibility", @)]

Flag == {"-z", "--zip", "--compress", "-x", "--unzip", "--decompress", "-r", "--dry-run", "--anchor",
         "--nondestructive", "--input-nondestructive", "--failfast", "-V", "--verbose"}
Flagged(c, opt) ==
  CASE opt \in {"-z", "--zip", "--compress"}     -> [c EXCEPT !.construct = TRUE]
    [] opt \in {"-x", "--unzip", "--decompress"} -> [c EXCEPT !.reconstruct = TRUE]
    [] opt \in {"-r", "--dry-run"}               -> [c EXCEPT !.dryrun = TRUE]
    [] opt = "--anchor"                          -> [c EXCEPT !.anchor = TRUE]
    [] opt \in {"-V", "--verbose"}               -> [c EXCEPT !.verbose = TRUE]
    [] OTHER -> c

\* Options that need something behind them and leave it to be taken for an option.
Placeholder == {"--codec", "-s", "--spcodec", "-L", "--allocation-len"}

Valued == {"-c", "--config", "-R", "--report", "-m", "--mode", "-e", "--eb", "--error-bound", "-p", "--predictor",
           "-t", "--type", "--dtype", "-i", "--input", "-l", "--len", "-P", "--pre", "--preprocess",
           "-T", "--post", "--postprocess", "--pipeline", "--demo", "-S", "-X", "--skip", "--exclude",
           "--opath", "--origin", "--compare"}
Takes(c, opt, v) ==
  CASE opt \in {"-c", "--config"} -> set_config(c, v.kvs)
    [] opt \in {"-R", "--report"} -> {set_report(c, v.words)}
    [] opt \in {"-m", "--mode"}   -> {[c EXCEPT !.mode = v.str, !.prescan = (@ \/ v.str = "r2r")]}
    [] opt \in {"-e", "--eb", "--error-bound"} -> {set_eb(c, v.num)}
    [] opt \in {"-p", "--predictor"}    -> {[c EXCEPT !.predictor = v.str]}
    [] opt \in {"-t", "--type", "--dtype"} ->
         {[c EXCEPT !.dtype = IF v.str \in {"f32", "fp4"} THEN "f32" ELSE IF v.str \in {"f64", "fp8"} THEN "f64" ELSE @]}
    [] opt \in {"-i", "--input"}  -> {[c EXCEPT !.fname = v.name]}
    [] opt \in {"-l", "--len"}    -> {parse_input_length(c, v)}
    [] opt \in {"-P", "--pre", "--preprocess"} -> {[c EXCEPT !.binning = (@ \/ "binning" \in v.words)]}
    [] opt \in {"-T", "--post", "--postprocess"} ->
         {[c EXCEPT !.gzip = (@ \/ "gzip" \in v.words), !.nvcomp = (@ \/ "nvcomp" \in v.words)]}
    [] opt = "--pipeline" -> {[c EXCEPT !.pipeline = v.str]}
    [] opt = "--demo"     -> {load_demo_sizes(c, v.str)}
    [] opt \in {"-S", "-X", "--skip", "--exclude"} ->
         {[c EXCEPT !.skip_huffman = (@ \/ "huffman" \in v.words), !.skip_write2disk = (@ \/ "write2disk" \in v.words)]}
    [] opt = "--opath"    -> {[c EXCEPT !.opath = v.name]}
    [] opt \in {"--origin", "--compare"} -> {[c EXCEPT !.origin_cmp = v.name]}

\* What is written where a number or extents are taken is a number or extents, and a
\* path where a path is.
Numeric == {"eb", "errorbound", "alloclen", "cap", "booklen", "dictsize", "radius", "huffbyte", "huffchunk",
            "density", "densityfactor"}
IsNumber(v)  == "num" \in DOMAIN v /\ v.num \in Int
IsExtents(v) == {"dims", "by"} \subseteq DOMAIN v /\ v.dims \in Seq(Int) \ {<<>>}
IsPair(kv)   == (kv.k \in Numeric => IsNumber(kv)) /\ (kv.k \in {"len", "length"} => IsExtents(kv))
IsReadable(opt, v) ==
  /\ opt \in {"-e", "--eb", "--error-bound"} => IsNumber(v)
  /\ opt \in {"-l", "--len"}   => IsExtents(v)
  /\ opt \in {"-i", "--input"} => "name" \in DOMAIN v /\ v.name \in Seq(STRING)
  /\ opt \in {"-c", "--config"} => /\ "kvs" \in DOMAIN v /\ v.kvs \in Seq({v.kvs[k] : k \in DOMAIN v.kvs})
                                  /\ \A k \in DOMAIN v.kvs : is_kv_pair(v.kvs[k]) => IsPair(v.kvs[k])

Trapped(c) == [c EXCEPT !.status = -1]
Leaves     == {"-h", "--help", "-v", "--version"}

-----------------------------------------------------------------------------
(* After the options.                                                      *)

Illegal(c) ==
  \/ c.fname = <<>>
  \/ c.data_len = 1 /\ ~c.predefined_demo /\ (c.construct \/ c.dryrun)
  \/ ~c.construct /\ ~c.reconstruct /\ ~c.dryrun
  \/ c.dtype # "f32" /\ (c.construct \/ c.dryrun)
DictTooLarge(c) == c.dict_size > 65536                  \* an assertion
DryrunOnly(c)   == IF c.dryrun THEN [c EXCEPT !.construct = FALSE, !.reconstruct = FALSE] ELSE c

LastOf(tok, path) == LET I == {i \in DOMAIN path : path[i] = tok}
                     IN  IF I = {} THEN 0 ELSE CHOOSE i \in I : \A j \in I : j <= i
\* A lone decompression is told the archive's name, and cuts it at the last dot.
derive_fnames(c) ==
  LET input_path == SubSeq(c.fname, 1, LastOf("/", c.fname))
      cut   == ~c.construct /\ c.reconstruct /\ LastOf(".", c.fname) > 0
      fname == IF cut THEN SubSeq(c.fname, 1, LastOf(".", c.fname) - 1) ELSE c.fname
      base  == SubSeq(fname, LastOf("/", fname) + 1, Len(fname))
      opath == (IF c.opath = <<>> THEN input_path ELSE c.opath) \o <<"/">>
  IN  [c EXCEPT !.fname = fname, !.basename = base, !.opath = opath, !.path_basename = opath \o base]

\* The length of a chunk and the number of chunks; nthread is what the device runs.
get_npart(size, subsize) == (size + subsize - 1) \div subsize
autotune_coarse_parvle(c, nthread) ==
  LET tuned  == get_npart(get_npart(c.data_len, nthread), 256) * 256
      sublen == IF c.autotune THEN tuned ELSE c.vle_sublen
  IN  [sublen |-> sublen, pardeg |-> get_npart(c.data_len, sublen)]

\* The C API's context.  The bound is compared with the enumerator Rel, which is 1.
Rel == 1
ApiContext(len, eb) ==
  LET c == set_len(Fresh, len.x, len.y, len.z, len.w)
  IN  IF c.thrown THEN {c} ELSE set_config(set_eb(c, eb), << [k |-> "mode", str |-> IF eb = Rel THEN "r2r" ELSE "abs"] >>)
================================================================================
