------------------------------- MODULE MCSession -------------------------------
(***************************************************************************)
(* Instance of Cli for TLC.  Three fields: "a", "d/b" in a directory that  *)
(* cannot be written to, and "c", which is constant.  Extents are 90 x 60, *)
(* the least for which an archive with 1024 quant-codes fits its buffer    *)
(* with room to spare, and an unsigned int has 16 bits.                    *)
(***************************************************************************)
EXTENDS Cli, TLC

A == <<"a">>
B == <<"d", "/", "b">>
C == <<"c">>
M == <<"missing">>
MCFields   == (A :> [kind |-> "field", of |-> "a"]) @@ (B :> [kind |-> "field", of |-> "b"])
                @@ (C :> [kind |-> "field", of |-> "c"])
MCReadOnly == {ToCusza(B), ToCuszx(B)}
MCSpread(c) == IF c.kind = "field" /\ c.of = "c" THEN 0 ELSE 5
MCYields   == {[ncell |-> 200, nnz |-> 10], [ncell |-> 30, nnz |-> 0], [ncell |-> 900, nnz |-> 700]}
MCDemo     == [tiny |-> <<90, 60, 1, 1, 2>>]

O(o)  == [opt |-> o]
N(n)  == [num |-> n]
S(s)  == [str |-> s]
P(p)  == [name |-> p]
L(d)  == [dims |-> d, by |-> "x"]
Kv(s) == [kvs |-> s]
W(w)  == [words |-> w]

D2  == <<90, 60, 1>>
Run(argv, asks, writes) == [argv |-> argv, asks |-> asks, writes |-> writes]
Ask(from, ext, eb, rel) == {[from |-> from, ext |-> ext, eb |-> eb, rel |-> rel]}

Abs3 == <<O("-m"), S("abs"), O("-e"), N(3)>>
InA  == <<O("-i"), P(A), O("-l"), L(<<90, 60>>)>>
MCCommands ==
  { Run(Abs3 \o InA \o <<O("-z"), O("-R"), W(<<[k |-> "time"], [k |-> "cr", str |-> "off"], [k |-> "compressibility", str |-> "yes"]>>)>>,
        Ask(A, D2, 3, FALSE), {ToCusza(A)}),
    Run(<<O("-c"), Kv(<<[k |-> "eb", num |-> 2], [k |-> "radius", num |-> 64], [k |-> "huffbyte", num |-> 8],
                        [k |-> "len", dims |-> <<90, 60>>, by |-> "x"]>>), O("-i"), P(A), O("--zip")>>,
        Ask(A, D2, 2, TRUE), {ToCusza(A)}),
    Run(<<O("-z"), O("-x"), O("--compare"), P(A)>> \o Abs3 \o InA \o <<O("-T"), W({"gzip"}), O("-P"), W({"binning"})>>,
        Ask(A, D2, 3, FALSE), {ToCusza(A), ToCuszx(A)}),
    Run(<<O("-i"), P(ToCusza(A)), O("-x")>>, {}, {ToCuszx(A)}),
    Run(<<O("-i"), P(ToCusza(A)), O("-x"), O("--origin"), P(M)>>, {}, {}),
    Run(<<O("-i"), P(A), O("-x"), O("-S"), W({"write2disk"})>>, {}, {}),
    Run(<<O("-i"), P(<<".", "/">> \o A), O("-x"), O("--opath"), P(<<"d">>)>>, {}, {}),
    Run(Abs3 \o InA \o <<O("-z"), O("-r"), O("-V")>>, {}, {}),
    Run(Abs3 \o InA \o <<O("-z"), O("--codec"), S("huffman-coarse")>>, {}, {}),
    Run(Abs3 \o InA \o <<O("-z"), O("--dict-size"), N(512)>>, {}, {}),
    Run(Abs3 \o InA \o <<O("-z"), O("-h")>>, {}, {}),
    Run(Abs3 \o InA \o <<O("-z"), O("-s")>>, {}, {}),
    Run(InA \o <<O("-z"), O("-e")>>, {}, {}),
    Run(Abs3 \o InA \o <<O("-z"), O("-t"), S("f64")>>, {}, {}),
    Run(Abs3 \o InA \o <<O("-z"), O("-p"), S("spline3"), O("--pipeline"), S("auto")>>, {}, {}),
    Run(<<O("-m"), S("r2r"), O("-e"), N(2), O("-i"), P(C), O("--demo"), S("tiny"), O("-z")>>,
        Ask(C, D2, 2, TRUE), {ToCusza(C)}),
    Run(Abs3 \o <<O("-i"), P(B), O("-l"), L(<<90, 60>>), O("-z"), O("-x")>>, Ask(B, D2, 3, FALSE), {}),
    Run(Abs3 \o <<O("-i"), P(A), O("-l"), L(<<600, 600>>), O("-z")>>, {}, {ToCusza(A)}),
    Run(Abs3 \o <<O("-i"), P(M), O("-l"), L(<<90, 60>>), O("-z")>>, {}, {}),
    Run(InA \o <<O("-z"), O("-c"), Kv(<<[k |-> "eb", num |-> 1], [k |-> "mode", str |-> "abs"], [k |-> "eb", num |-> 9],
                                        [k |-> "huffchunk", num |-> 300], [k |-> "huffbyte", num |-> 4]>>)>>,
        Ask(A, D2, 1, FALSE), {ToCusza(A)}),
    Run(InA \o <<O("-z"), O("-c"), Kv(<<[k |-> "mode", str |-> "rel"], [k |-> "eb", num |-> 1]>>)>>, {}, {}),
    Run(InA \o <<O("-z"), O("-c"), Kv(<<[k |-> "dictsize", num |-> 70000], [k |-> "eb", num |-> 1],
                                        [k |-> "predictor", str |-> "spline3"], [k |-> "anchor", str |-> "on"]>>)>>, {}, {}),
    Run(InA \o <<O("-z"), O("-c"), Kv(<<[k |-> "eb", num |-> 1], [k |-> "anchor"]>>)>>, {}, {}),
    Run(Abs3 \o <<O("-i"), P(A), O("-l"), L(<<5433>>), O("-z")>>, {}, {}),
    Run(InA \o <<O("-z"), O("-p"), S("spline3"), O("-c"), Kv(<<[k |-> "eb", num |-> 1], [k |-> "predictor", str |-> "lorenzo"],
                                                             [k |-> "mode", str |-> "abs"]>>)>>,
        Ask(A, D2, 1, FALSE), {ToCusza(A)}),
    Run(<<>>, {}, {}) }

MCApiCalls == {[from |-> A, len |-> [x |-> 90, y |-> 60, z |-> 1, w |-> 1], eb |-> 2],
               [from |-> A, len |-> [x |-> 600, y |-> 600, z |-> 1, w |-> 1], eb |-> 2],
               [from |-> A, len |-> [x |-> 1, y |-> 1, z |-> 1, w |-> 1], eb |-> 2]}
================================================================================
