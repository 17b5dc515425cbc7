# TLA+ models of cuSZ

cuSZ is an error-bounded lossy compressor for floating-point fields on CUDA
devices: a Lorenzo predictor turns a field into quant-codes and outliers, a
coarse-grained Huffman codec encodes the quant-codes, a sparse codec stores the
outliers, and a compressor object owns all of them and assembles one archive.
This directory holds TLA+ modules of the parts of it whose correctness depends
on order: of calls on a long-lived object, of exceptions, of thread blocks
between grid barriers, of warps between block barriers, of reads and writes in
place, of processes and files. TLC checks them on small instances; for the
compressor, the Huffman codebook, the Huffman codec and the command line with its archives,
TLAPS proofs hold for every instance. All paths below are relative to the repository (`src/...`); line numbers are those
of the modelled commit.

## The system

| Component | State it keeps | Operations | Hard behaviour |
|---|---|---|---|
| **Compressor object** (`include/detail/compressor_impl.cuh`) | the predictor, sparse codec and two Huffman codecs it owns, `d_freq`, `use_fallback_codec`, `fallback_codec_allocated`, `d_reserved_compressed` | `init`, `compress`, `clear_buffer`, `decompress`, `destroy` | every component may throw; the object keeps what the steps before left; one object serves many calls |
| **C++ and C API** (`cuszapi.cc`, `cusz/cc2c.cc`) | none; the client's compressor | `core_compress`, `core_decompress`, `cusz_*` | the client keeps pointers into the object's memory |
| **Huffman codeword lengths** (`hf/detail/hf_bookg.inl`, `par_merge.inl`) | leaves, a ring of internal nodes, iterators in global memory | `GPU_GenerateCL`, `parMerge` | a cooperative grid: block steps between grid barriers, atomics without barriers |
| **Huffman codewords** (`hf_bookg.inl`) | codebook, `first`, `entry`, `keys` in buffers that are reused | `GPU_GenerateCW`, `GPU_ReverseArray`, `GPU_ReorderByIndex` | permutations in place; what an earlier codebook left |
| **Huffman codec** (`hf/detail/hf_pimpl.inl`, `hf_codecg.inl`, `hf_codecg.cu`) | `d_tmp`, the bitstream, per-chunk bits, cells and entries on host and device | `init`, `build_codebook`, `encode`, `decode`, `clear_buffer` | in-place deflation, a host scan between kernels, stale chunk metadata |
| **Lorenzo predictor** (`kernel/lorenzo*.cu`, `kernel/detail/lorenzo*.inl`, `subroutine.inl`, `subsub.inl`, `pn.hh`, `prediction_impl.cuh`) | lengths at allocation and at run time, `d_errctrl`, anchors; shared memory and registers of a block | `construct`, `reconstruct` | warps that meet at barriers only and share memory that is used over again; blocks that the field does not fill; outliers and result in one array |
| **Spline predictor** (`kernel/detail/spline3.inl`) | anchors, codes, one scratch per block | `launch_construct_Spline3`, `launch_reconstruct_Spline3` | blocks overlap on their faces; each stage reads what the one before has written |
| **Sparse codec** (`detail/spvec.cuh`, `spv_gpu.inl`) | values and indices of the outliers, a header | `encode`, `decode` (gather, scatter) | the number of outliers depends on the data, the room for them does not |
| **Histogram** (`kernel/detail/hist.inl`, `stat/stat_g.cu`) | adds to the caller's `d_freq` | `stat::histogram` | replicated shared-memory counters; a launch fitted to the length |
| **Archive** (`header.h`, `hf/hf.hh`, `component/spcodec_vec.hh`) | header with the entry of each section | `subfile_collect`, `ACCESSOR` | three writers that sum up sizes on their own, four buffers of fixed size |
| **Context and configuration** (`context.cc`, `context.hh`, `common/configs.hh`, `utils/strhelper.hh`) | one record of options and derived sizes | option parsing, `validate`, derivation of lengths and chunk counts | integer widths, a hash table's order, options that call each other off |
| **Capsule** (`common/capsule.hh`) | a host and a device array under one length | `alloc`, `free`, `from_file`, `to_file`, copies | lent arrays that are freed, errors nobody looks at |
| **Command line** (`cli/cli.cuh`, `cli/dryrun_part.cuh`, `cli_bin.cu`) | capsules; the files | dry run, construct, reconstruct | processes that fail or are killed, files that are there from before |

Also in the tree: quality metrics and timers (floating-point statistics and
measurement, without state), examples, tests and scripts. Not part of the build, and
not modelled: `archive/`, `experimental/` and the CSR sparse codec. The spline
compressor is not built either (it is commented out, and `cli.cuh:165` throws), but its
kernels are there and are modelled.

How they interact: a client calls the API, which calls `init` and then
`compress` or `decompress` of one object on one host thread. `compress` runs
predictor, histogram, codebook, Huffman encoder and sparse encoder one after the
other; each launches kernels on one stream and waits for them, so at that level
the only nondeterminism is the client's order of calls and who throws. Data
pass through device arrays owned by one component and written by the next:
`d_freq` is filled by the histogram, *sorted in place* by the codebook
construction and never cleared except by `init`; `d_errctrl` of the predictor
is what the Huffman decoder writes; the caller's output array is where the
sparse decoder scatters before the predictor reads it. Inside a kernel, blocks
run concurrently and meet only at grid barriers; inside a block, warps do, and meet at
block barriers. The command line is the outermost layer: one process per command, which
parses its options into a context, makes one compressor, and hands a field, an archive
or a result over to the next process as a file named after the input.

What makes each correct is what the properties below say: for the object, an
archive that depends on its own field only and decompresses to it; for the
codeword lengths, a complete prefix code in frequency order whatever the
interleaving of the blocks; for the codewords, that inflate inverts them; for the
predictors, codes that do not depend on how the warps are scheduled and a result within
the error bound; for the archive, decoders that find what the encoders wrote; for the
command line, a result that is of the field, in the extents and within the bound that were
asked for, and no file touched that the options do not call for.

## Modules

| Module | Models | Extends / used by |
|---|---|---|
| `LossyStore` | the promise to a client: a store of fields by handle | abstract; `CuszApi` implements it |
| `Compressor` | the compressor object: public calls, component calls, exceptions | |
| `CuszApi` | a client that works through `core_compress` and `core_decompress` | extends `Compressor`, instantiates `LossyStore` |
| `CuszApiProofs` | theorems about `CuszApi`, and about `Compressor` under any client, and their proofs | extends `CuszApi` |
| `MCCuszApi` | instances for TLC | extends `CuszApi` |
| `ParHuffman`, `MCParHuffman` | `GPU_GenerateCL` with its parallel merge | |
| `ParHuffmanProofs` | theorems about `ParHuffman` and their proofs | extends `ParHuffman`, `NatLemmas` |
| `CodeBook`, `MCCodeBook` | `GPU_GenerateCW`, the reversals and the reordering, and how inflate uses the result | |
| `CodeBookProofs` | theorems about `CodeBook` and their proofs | extends `CodeBook`, `NatLemmas` |
| `HfCodec` | encoding and decoding by chunks, over the calls on one codec | |
| `HfCodecProofs` | theorems about the encoder of `HfCodec`, that decoding gives the field back, and their proofs | extends `HfCodec`, `NatLemmas` |
| `NatLemmas` | least numbers, division, recurrences | lemmas for the proofs |
| `MCHfCodec` | instances for TLC | extends `HfCodec` |
| `PN` | zigzag coding of differences | used by `Lorenzo` |
| `Lorenzo` | the Lorenzo kernels, launchers and tests, warp by warp | extends `PN` |
| `Predicted` | histogram, gather and scatter between the two launches | extends `Lorenzo` |
| `LorenzoProofs` | theorems about `PN`, the library's 1D kernels in `Lorenzo` and the histogram of `Predicted`, and their proofs | extends `Predicted`, `NatLemmas` |
| `MCLorenzo` | instances for TLC | extends `Predicted` |
| `Spline`, `MCSpline` | the spline kernels and their launchers, warp by warp | |
| `SplineProofs` | theorems about `Spline` and their proofs | extends `Spline`, `NatLemmas` |
| `Archive` | the layout of an archive, its writers and its readers | operators; used by `Cli` |
| `Context` | the configuration: options, key-value pairs, derived lengths and names | operators; used by `Cli` |
| `Capsule` | host and device arrays | operators; instantiated by `Cli` |
| `Cli` | the `cusz` command, its processes and files; a use of the C API | extends `Context`, `Archive` |
| `CliProofs` | theorems about `Cli`, `Archive` and `Context` and their proofs | extends `Cli`, `NatLemmas` |
| `MCSession` | the command lines and files for TLC | extends `Cli` |

### Compressor, CuszApi, LossyStore

A call in progress is `pc`, the component call about to be made; each action is
one component call with everything it changes, and the place an exception from
it leads to. `compress` goes `construct` (predictor; may throw on a length),
`histogram` (adds to `freq`), `build4` (sorts `freq` in place, then may throw),
`encode4`, `collect4`; when `build4` throws, `fallback`, `build8` (sorts again,
may throw, and then the exception leaves the call), `encode8`, `collect8`.
`decompress` reads the header at the call itself (it selects the codec), then
`scatter`, `decode`, `reconstruct` (may throw on a length). `init` and
`clear_buffer` are atomic between calls.

What is abstracted: a field is a name with its extents, a length (in Huffman chunks) and
a histogram of quant-codes; `construct` and `reconstruct` compare extents and length with
those of the allocation, axis by axis; a codebook is the histogram it was made from, as
quant-codes later find it; `Decodes(a)` says when the VLE section of an archive
can be decoded. Whether a codebook can be built is the constant
`Unbuildable(width, freq)`: it stands for the throws at `hf_bookg.inl:616-625`,
`663-672` and `678-687`. `mem` remembers every `d_reserved_compressed` ever allocated,
since `init` never frees the one before. Three history fields exist for the
properties: `retried`, `room`, and `quant`.

`Spec` lets a client call `init`, `clear_buffer`, `compress` and `decompress` in
any order; `ApiSpec` is the discipline of the API, which calls `init` every time.

A call from which an exception escapes hands out no archive, and leaves what it had set:
`compressor_impl.cuh:405` is inside the `catch`, so `use_fallback_codec` stays set when the
8-byte codebook throws. `HeaderNamesCodec` and `FlagReset` say exactly how far that
reaches: the flag is found set only after such a call, and only the very next archive can have a
header that names the wrong codec, when the 4-byte codec has encoded it. `LossyStore`
makes room for the same: `Fail` is a compression that hands out nothing and leaves the object
`shaken`, in which the next `Put` may be of a damaged archive; that archive, or a
decompression (which selects the codec anew), ends it. Fields that can fail so
are `Unstorable`, and if there are none neither can happen.

### ParHuffman

`phase` is the stretch between two grid barriers, `at[b]` where block `b` is in
it. A block is one warp and is one step per phase, except where another block's
step in between makes a difference and there is no barrier: the loop test before
`combine`, and in `select` the `atomicMax` on `curLeavesNum` before it is read.
`Candidates(flag)` carries the uninitialised `isLeaf` flag the code reads when
only one leaf exists; `Compared(v)` the word after the histogram that line 271
reads (`Beyond` is what it may hold). `Crossing(k)` has the splits of the `k`-th diagonal at
which the search of `cudaWorkloadDiagonals` can end (one, if the internal nodes are sorted),
`Serial` is what the serial merge of one block's share writes, sorted or not.

What the nodes weigh is a matter of its own. Line 271 compares with the leaf *after* the
last one taken, so a root greater than the sum just combined can be the one left out, at the
front of the ring. The next round takes the two least frequencies there are, and
joins the node in front under their sum, whichever node they belong to
(`hf_bookg.inl:225-230`). From then on a root's frequency need not be that of its leaves: with
`1 4 4 5 5 5 5 7 18` it is not, and with dozens of leaves the roots
need not even be in order, which the merge relies on. `ForestSound` therefore
speaks of depths and not of weights, `MergedWhole` is about merges of sorted nodes
(`RingSorted`), and nothing is said of the length of the code, which is not least
(for `1 1 2 2 2 3 3 5`, say).

### CodeBook

One action per stretch between two barriers of `GPU_GenerateCW`, with `CCL`,
`CDPI`, `newCDPI` as in the source; then the two `GPU_ReverseArray` launches, and
`GPU_ReorderByIndex`, where a warp reads in one step and writes in another. It is launched
with blocks of up to 1024 threads (`hf_bookg.inl:504`), and a warp can write a place that another
has yet to read; `raced` is a history variable that says it has happened. `LengthsAssigned`
and `Decodable` are about every other interleaving, because in one where it has happened the code
breaks both: without `~raced` in `LengthsAssigned` TLC finds it violated in run `codebook`, by a
warp that moves a codeword over one that another was still to move. The comment
(`hf_bookg.inl:487`) asks only that the indices be unique, and they are.
`BuildBook` starts from any lengths `GPU_GenerateCL` may give (`MCCodeBook` lists
all of up to six quant-codes) and any order of the quant-codes, over whatever the
previous codebook left. What the lengths owe to `GPU_GenerateCL` is `BookAssumption`: they
descend, they leave room for each other (`Spaces` sums up, in words of `Long` bits, what the
codewords of a prefix code take), and the two rarest quant-codes are siblings. All three are
consequences of `CompleteCode` of `ParHuffman`. `Stops`, `Taken` and `Inflated` are the inner loop of
`hf_decode_single_thread_inflate`.

### HfCodec

`phase` is where a call is: `Encode` (phase 1, the fill) leads to `deflate` (phase 2, one
thread per chunk, one step per codeword, in any interleaving; `thread[t]` holds the
kernel's local variables under their names), `scan` (phase 3 on the host, one addition a
step), `concatenate` (phase 4, one block per chunk) and, with `Collect`, back to `idle`;
`Decode` leads to `inflate` (one step per quant-code). `ClearBuffer` is `clear_buffer`.
What is not given a value by a call keeps the one it had: the metadata of chunks that a
shorter field does not reach, `h_par_entry[0]`, the bitstream beyond the field.

What is abstracted: words and cells are sequences of bits, so that shifts are `\o`
and `SubSeq`; a packed codeword is its bits, and is shorter than a cell because
part of the word is its length; the codebook is a map from quant-codes to codewords (that
`first`, `entry` and `keys` invert it is what `CodeBook` is about), and `Ahead` says that a
codeword comes next. An archive is what its subfile holds. The subfile is put together
over the scratch buffer, and what that buffer holds afterwards is arbitrary. The room in
the bitstream (`len / 2` words) and in the subfile is a matter of `Archive`: here
`bitstream` has as many cells as there are quant-codes, which always suffices.

### Lorenzo, PN, Predicted

A kernel is a *program*: a sequence of stages, one per loop or straight stretch between
two barriers, with `sync` where the source has `__syncthreads()`. The subroutines of
`subroutine.inl` and `subsub.inl` are sequences of stages under their own names, and the
programs of the kernels in `lorenzo23.inl`, `lorenzo.inl`, `lorenzo_var.inl` and
`lorenzo_proto.inl` are put together out of them as the source does it. The threads of a
warp run a stage in lockstep; warps run in any order; a barrier is passed by all. Thread
blocks of one launch write disjoint cells and read nothing that another writes (the counter
of compacted outliers apart, whose order is immaterial), so they run one after another.
`launch` gives for each pair of kernels the grid and the chunk of a thread, as
`lorenzo.cu`, `lorenzo_var.cu`, `lorenzo_proto.cu` and `t-l23-utils.hh` launch them.

`shm` and `sq` are the block's shared memory: in the 1D kernels one union is field, codes
and outliers in turn. A cell no one has written is `Undef`, and so is what is computed from
it, so a value that depends on garbage shows as a wrong one. Warp shuffles are the prefix
sums and neighbour values they compute. `pn` kernels store zigzag codes (`PN`), the `var`
kernels the sign apart, the compaction kernels outliers in a list. `overtaken` is a history
variable: in the 3D kernel with differences taken in shared memory, a warp has stored plane
`z - 1` before the one below has read plane `z`. What follows then is arbitrary, and
`NotOvertaken` stops exploration there; run `lorenzo_3d` shows what it does.

`Predicted` adds what the compressor does between the launches: `p2013Histogram`, one step
a thread block, with the launch that `optimize_launch` fits to the length; `spv_gather` and
`spv_scatter`, into the array that reconstruction then works in. The tests of
`t-l23-utils.hh` (`Tested`) launch the original pair and the one under test, each with
arrays of its own, and compare codes, outliers and results; their fields are `init_data`,
one row: `init_data_2d` and `init_data_3d` declare the extents they set as locals
(`t-l23-utils.hh:208`, `:225`), and the members stay one-dimensional. The model runs each
test on that row and on the extents meant.

Not launched by anything in the repository, and modelled all the same: the delta-only and
`pn` kernels. The delta-only 1D kernel (`lorenzo23.inl:253`) calls `write_1d` with two null
pointers for the outliers and with the template argument under which it stores through them
(`subroutine.inl:462-465`). `StripeOutNull` is that store: it faults, in phase `fault` nothing
runs any more, and what the device holds is lost, so `delta_x_1d` never gets to run.
`InBounds` names it as an exception. Left out: the `v1_pn` kernels that cannot be instantiated because they call
subroutines with the wrong number of arguments (1D, and reconstruction in 2D with outliers), and
subroutines no kernel calls.

`s[0]`, the ghost row of the 3D kernels that take differences along y through shared memory,
is never written, and row 0 of a cube subtracts 0 times what is there (`lorenzo23.inl:734`
and its copies at 790, 851, 918, 993). That is 0 if it is a number and not a number if it
is a NaN or an infinity left by another kernel: `ghost`, which `Init` chooses from `Ghosts`. In the latter case
`PredictionExact` still speaks of every cell outside the first row of its cube (`Spoilt`), and
the properties of whole results (`ErrorBounded`, `CompactionExact`, `CodesCounted`, equality
in the tests) leave the launch aside, because in the code they are false there.

### Spline

Built the same way: programs of stages for a block of `SUBS` anchors along x and one along
y and z, `2 * UNIT` cells apart.
A block's scratch is one cell wider than the block on each axis, so it includes the face it
shares with the next; anchors are every `BLOCK`-th cell of the field. One
`interpolate_stage` per axis and distance reads the mean of two neighbours and, in
compression, turns the difference into a code and puts back the value decompression will
see. Only the block's own cells are stored. `spline3d_layout2_interpolate` halves the distance down to 1, which
the code writes out as three iterations, of 4, 2 and 1. `SplineAssumption` allows
`UNIT` 1, 2 and 4, any number of anchors in a block, any width of a warp,
and fields of integers of any positive extents, of which the last is not 1: the launchers
refuse the rest.

### Archive, Context, Capsule, Cli

`Archive` keeps a buffer as the sequence of writes made to it, so that a part that covers
another's bytes shows. `HfSubfile`, `SpSubfile` and `subfile_collect` write parts where
sums of sizes say; `HfDecoderReads` and `SpDecoderReads` follow the entries as the decoders
do. `Overrun` names the buffers that got more than they have room for.

`Context` is `cuszCTX` as a record, its setters as functions on it. A command line is a
sequence of tokens, each an option or a value of the shape its text has. `set_config` gives
*every* record an order of the hash table may lead to. `thrown` is an exception nobody
catches, which ends the process.

`Capsule` is what `alloc`, `free`, `from_file` and the copies do to a pair of arrays; its
calls are chained as in C++, and after one has thrown the rest is not made. Its pointers
have no initial value in the source; the model takes them for null, which is never tested
before they are set, except for the dry run's empty anchor.

`Cli` runs one process at a time: `pc` is where it is, `ctx` its context, `held` the data
in its memory. Parsing takes one option a step, since a later one may fail what earlier ones
asked for. Opening a file (which empties it) and writing it are two steps, and `Kill` can
come between any two. What compression and decompression do to values is the subject of
the other modules: here an archive is the content it was made of, its extents, its error and
its layout; a result is content, extents and error. Undefined behaviour (a buffer overrun,
a division by 0, extents beyond three, a negative radius) makes an archive `damaged` and a
result `garbage`, or ends the process.

What a command line means is part of it: `asks`, the compressions it asks for, and `writes`,
the files it may change, are written down by hand next to each in `MCSession`. `CommandsAssumption` ties them to the options: `Meant(argv)` has the contexts that the
whole line may lead to, read at once and with every order of the hash table, and each of them
that can compress must be among `asks`, and each file it can come to among `writes`. TLC
evaluates it for the 26 command lines. That a process which reads one option a step, fails
somewhere, is killed, or finds other files than it expects does no more than that is what
`Faithful` and `WritesOnlyAsked` say.

`OrderIrrelevant` has an exception: `context.cc:164` turns the anchor on after whichever pair
comes first as long as the predictor is `spline3`, so where another pair replaces that
predictor the anchor depends on the order (nothing that is compiled uses it).

## What the runs check

| Run | Bounds | Shows |
|---|---|---|
| `api` | 5 quant-codes, 5 fields of 3 lengths, one of which neither codebook can hold; 4 API calls on one object | header and flag are right, and after an exception that escapes no longer wrong than said above; a first-try archive is exact, archives survive later calls, the object refines `LossyStore`, every call returns |
| `object` | 3 quant-codes, 3 fields of 2 lengths, two of which have one length and different extents, 2 `init` calls, `MaxFreq = 1` (a compression starts only while no count exceeds it) and any other calls | no occurring quant-code lacks a codeword on the first try although `d_freq` accumulates, lengths are checked before the encoder needs it, every decodable archive decodes in any state |
| `par_huffman` | 3 blocks of 3 threads, up to 9 leaves | the codeword lengths are those of a complete prefix code, in order of frequency; the blocks copy the right leaves and their shares of a merge join up; the ring has room; the construction ends unless a block is stranded |
| `codebook` | 6 quant-codes, words of 7 bits, 2 codebooks in one set of buffers, 3 warps that reorder | unless warps race, lengths end at their quant-codes and inflate inverts; the construction ends |
| `hf_codec` | 4 quant-codes, 2 codebooks, cells of 4 bits, a codec for 7 quant-codes in 3 chunks, 8 fields of 1 to 3 chunks, 2 encodings | deflating in place is safe in every interleaving, chunks tile the bitstream, decoding inverts encoding, every call returns |
| `lorenzo` | 26 pairs of kernels: 16 on their own, 7 as tests against the 3 originals; warps of 2, blocks of 12, 4 x 4 and 6 x 3 x 3 cells; 8 fields; a device of 2 multiprocessors and room for 40 counters; a ghost row that is a number or is not | codes and outliers are the differences of every cell in any order of the warps, the list has each outlier once, the histogram counts each code once, the result is within the error bound, nothing is written out of bounds except by three kernels |
| `spline` | blocks of 8 x 4 x 4 cells, two distances, 4 fields of 1 to 8 blocks | decompression interpolates from the values compression saw; results are within the error bound, except next to the trailing faces |
| `session` | 3 processes, 26 command lines and 3 uses of the C API, 3 fields, an `unsigned int` of 16 bits | lengths wrap and never exceed their type, results are what was asked for, decoders find every part of an archive that fits, the order of key-value pairs is immaterial, and only files asked for are written |

and four runs whose property the code breaks, each the counterexample of an entry
under "findings" of `PROJECT.json` (with the line of the repository it contradicts):

| Run | Property | What the trace shows |
|---|---|---|
| `fallback_book` | `EverySymbolCoded` | the second codebook is made from a `d_freq` the first attempt has sorted |
| `par_huffman_race` | `LeavesWithOneNode` | a late block tests the loop condition after thread 0 has taken the last leaves, and leaves the grid |
| `hf_entry` | `RoundTrip` | `h_par_entry[0]` is never written: with anything but 0 in it, the archive lacks the end of the bitstream |
| `lorenzo_3d` | `SameAsOrigin` | in 3D, a warp overwrites the differences of a plane before the row below has read them; the repository's test would see it, on a field of more than one row |

Other disagreements met while modelling, which the models contain but no run is spent on:

- The fallback codec is allocated once in the life of an object, for the field at hand
  (`compressor_impl.cuh:388`); `init` allocates it only if the configuration asks for both
  codecs. A longer field may be encoded with a codec too small for it.
- When the 8-byte codebook throws too, `use_fallback_codec` stays set
  (`compressor_impl.cuh:405`) and the header of the next archive names the wrong codec if the
  4-byte one encodes it. The properties of run `api` say that this is as far as it goes.
- `decompress` decodes before the predictor compares the archive's length with its
  allocation (`compressor_impl.cuh:257`).
- `GPU_ReorderByIndex` permutes the codebook in place (`hf_bookg.inl:504`): see *CodeBook* above.
- The ghost row (`lorenzo23.inl:734`) and the null store (`lorenzo23.inl:253`): see
  *Lorenzo* above.
- The code of `GPU_GenerateCL` is not a Huffman code, and `par_merge.inl:68` ("merges of two
  sorted pseudorandom arrays") does not hold: see *ParHuffman* above.
  With `Histograms <- Unsorted` of `MCParHuffman`, `NBlocks = 1`, `NThreads = 61` and
  `Beyond = {0}`, TLC finds `RingSorted` violated within seconds. The code stays
  complete and in order all the same (`OneBlock`).
- `spline3.inl` stores no codes for the faces behind the last block, and decompression takes
  them for 0 (`:256`), although `README.md:4` promises an error bound.
- `--opath` is parsed and documented (`document.hh:139`, `:209-215`), and outputs are put
  next to the input nevertheless. `--codec <value>` and `--dict-size` are documented and
  refused. `-l 3600,1800` is documented (`document.hh:90`, `:264`); only `x` parts extents,
  and `3600` is taken. The documented default error bound is `1e-4` (`document.hh:56`), the
  actual one `0.0`, by which the predictor divides. `session` has command lines that
  use these, as far as what they write or whether they fail is concerned.
- `core_compress` asks for 1.03 times the length and compares with 1.0299 times it, but the
  command line cuts 1.03 times the length to an integer: some lengths below 10000, 5433 for
  one, are refused (`Roomy`).
- The C API takes an error bound for relative only if it *equals* the enumerator `Rel`
  (`cc2c.cc:79`), and never scales it by the field's range.

Why the bounds are enough. The object has no counter that matters beyond "none,
one before, one after": staleness needs two calls and its consequence a third, and the
fourth sees the object after it has recovered, so four API calls reach every combination of
first use, reuse and use after an exception, escaped or not. Codeword widths are scaled down (four bytes hold codewords of two
bits) so that four quant-codes already need the fallback; five stand for more than the device has
resident threads for, for which neither codec's kernel is launched (`hf_bookg.inl:615-625`). In `ParHuffman` eight
and nine leaves give merges of up to eight nodes divided among three blocks, odd and even,
of leaves and internal nodes in turn; the frequencies that make one
long chain, those that merge all at once, and those for which a root stays behind out of
order are included. In `CodeBook` the 14
vectors of lengths have unused lengths below, between and above those used. In `HfCodec`
codewords of one to three bits in cells of four leave every residue, fill cells
exactly and lie across two; the last chunk is short, and after a longer field a shorter
one leaves one or two chunks with old metadata.

In `lorenzo` a block has several warps, several blocks cover a field and the last is
cut on every axis; the fields have differences that quantize, that do not, and of both signs;
lengths leave the histogram a rest, several blocks, one or two replicas. A block of 12
cells has three warps to add up, the code's have two or one; a block of more than eight,
for which `subsub.inl` has a branch of its own, is launched nowhere. In `spline`, values are multiples of 64 so
that means are exact integers at both distances; the third distance repeats the second. In
`session`, three processes are one that leaves an archive, one that is killed or
fails over it, and one that reads what is left; 90 x 60 are the least extents whose archive
with 1024 quant-codes fits its buffer with room to spare, 600 x 600 do not fit an `unsigned
int` of 16 bits, and half of the yields of the encoder overrun a buffer.

Deadlock is not checked (`CHECK_DEADLOCK FALSE`) where the system may stop: a
client that makes no further call, a kernel that has ended, a process that is gone.

**Fairness.** `WF_vars(Step)` in `Compressor` and `CuszApi`: one host thread, and
a component call that was begun is made; calls of the client are not fair. In
`ParHuffman`, weak fairness of the next step as a whole: a cooperative launch has all
blocks resident (`cudaLaunchCooperativeKernel` fails otherwise), so some block goes on as
long as one can; `Terminates` says that the rounds come to an end, and excepts the state in
which a block has left the loop and the others wait for it (`Stranded`, which
`par_huffman_race` leads to). In `CodeBook` and `HfCodec`, weak fairness of everything
but a new call, for the same reason. No strong fairness is assumed anywhere.

## What is proved

`CuszApiProofs` proves, for every set of fields, lengths, extents, histograms, number of
quant-codes, number of calls and every rule of when either codebook throws:

| Theorem | Says |
|---|---|
| `TypeCorrect` | `ApiSpec => []TypeOK`, with no assumption beyond those on the constants |
| `HeaderCorrect` | `[]HeaderNamesCodec` |
| `FlagCorrect` | `[]FlagReset` |
| `ArchiveExact` | `[]FirstTryExact` |
| `ArchivesKept` | the action property `ExposedKept` |
| `PromiseKept` | `ApiSpec => KeepsPromise`, the refinement of `LossyStore` |

Nothing is assumed of the 8-byte codebook: it may throw, and the exception reach the
client. `PromiseKept` alone has an assumption beyond those on the constants, that
the client passes zeroed output arrays (`Outputs = {TRUE}`): `decompress`
scatters the outliers into the array and the prediction is added to what is there, while
`cuszapi.cc:66` asks only that it be allocated. With `Outputs = {TRUE, FALSE}` the promise
is broken.

None of these invariants is inductive. `HeaderNamesCodec` at `collect4` and `collect8` needs that
the flag is set from `fallback` to `collect8`, and before that only if the call before ended by
an exception, having filled no buffer (`Flags`). `FirstTryExact`
needs that `d_freq` is zero when the histogram starts and that the codec was
initialised for this very field in this very call, at every `pc` up to the archive
(`FirstTry`), that the fallback codec is fresh too when the configuration asks for both,
and that `d_freq` counts the quant-codes of this field, in some order, when the fallback's codebook
is made (`Shuffled`): only a field that codec cannot hold, in some order, makes it throw. The promise needs that a call in
progress works on the archive it was given and that a retried field is one the 4-byte
codec cannot hold (`OpenArchive`, `OnlyFragileRetried`). `IInv` is their conjunction;
`SoundStart`, `SoundCompress`, `SoundDecompress`, `SoundStep` and `SoundStutter` prove
it inductive, `Soundness` draws the conclusion, and every theorem follows from it. The refinement
is proved action by action: `Collect` is `Put`, `Reconstruct` is `Get`, the beginning of a
decompression is `Reuse`, the exception that leaves a compression is `Fail`, and the fallback that
sets a flag already set is `Recover`; everything else stutters.

It also proves of `Spec`, where a client calls the member functions in any order,
with nothing assumed of the 8-byte codebook or of the output arrays:

| Theorem | Says |
|---|---|
| `NothingLost` | `[]NoSymbolLost` |
| `CheckProtects` | `[]PrimaryFits` |
| `AlwaysDecodes` | `[]DecodesInAnyState` |

`ObjectInv` is inductive. `PrimaryFits` needs that predictor and 4-byte codec are always
allocated for one length, before any `init` too, and that the check of `construct` holds
until the codec has encoded (`OneLength`). `NoSymbolLost` needs that whatever `d_freq` has
gathered and however it is sorted by earlier calls, it counts every quant-code of the field
from `histogram` until a codebook is made of it, and that nothing replaces that
codebook before it is collected (`Covers`). `DecodesInAnyState` needs that the flag agrees
with the header until the codewords are decoded, although it may be stale before
(`Selected`).

`HfCodecProofs` proves, for every set of fields and of codebooks with codewords shorter
than a cell, every width of a cell, length and number of chunks:

| Theorem | Says |
|---|---|
| `ChunksCover` | `pardeg` chunks of `(len - 1) / pardeg + 1` quant-codes cover the field |
| `TypeCorrect` | `[]TypeOK`: every cell a thread writes lies in its chunk, and the residue is from 1 to `CELL_BITWIDTH` |
| `InPlace` | `[]UnreadIntact`: deflating in place overwrites nothing unread |
| `Tiles` | `HostJunk = {0} => []ChunksTile`; without the assumption it is false, see run `hf_entry` |

The in-place argument is `Behind`: a thread that has read `i > 0` words has written fewer than
`i` cells. Since a codeword is shorter than a cell, the first word fills none, and every
word after it fills one at most; so the cell to be written is one whose word has been read,
and the last one, written even when the one before has just got full, is one more at most.
Other chunks are not touched because `ptr` stays below `Sublen` (`ChunksApart`). `IInv` is
`TypeOK`, `Behind` and `UnreadIntact` together, and there is one lemma per action of phase 2.
`Tiles` rests on `Scanned`: entries before `scan` are sums, the others still numbers
of cells; `h_par_entry[0]` stays 0 because nothing writes it.

It also proves, of the same instances and for every prefix code:

| Theorem | Says |
|---|---|
| `GivesBack` | `HostJunk = {0} => []RoundTrip`; without the assumption it is false, see run `hf_entry` |

Its invariant `TripInv` follows the bits of each chunk from step to step, and
is stated over positions and never over a sequence as a whole, so that a shift and a cut
are equations between bits. `Carried`: the thread that deflates a chunk has spelled the
codewords it has read into the cells before `ptr` and into the one it is filling; a chunk that is
deflated is all in its cells. `Room` and `Laid`: no chunk, not one with the metadata of an
earlier field either, has more cells than words, so their places in the bitstream are in
order, apart and within it. `Copied` and `Archived`: those places hold the cells, and the archive
reaches as far as they do. `Inflated`: a thread that inflates has written the quant-codes of the
codewords it has read and stands at the beginning of the next, the only codeword that can come
there because no other begins with it. `InPlace` and `Tiles` are what this rests on: a
codeword that is read is the one phase 1 wrote, and the host's sums are the chunks' places.

`CodeBookProofs` proves, for every size of the dictionary, every width of a word, every set
of lengths that satisfy `BookAssumption`, every order and any number of codebooks in one set of
buffers:

| Theorem | Says |
|---|---|
| `FitsItsWord` | `[]TypeOK`: no codeword overflows its word, `first` and `entry` stay in range |
| `EachItsLength` | `[]LengthsAssigned` |
| `ReadsBack` | `[]Decodable` |

All are for any number of warps. The last two are about the interleavings in which no warp of
`GPU_ReorderByIndex` overwrites what another has yet to read (`raced`); in the others both are
false, as said under *CodeBook*. The invariant is `Typed`, `Sources` (where the lengths and
the quant-codes are between their reversals), `Filling` and `Placed`. `Filling` is about the loop
of `GPU_GenerateCW`: it takes the codewords by groups of one length; the least of a group is
`Spaces` of the codewords before, in units of that length, so codewords plus one never exceed
what a word holds (`WordFits`), and the groups before `CDPI` are done for good: their
codewords are consecutive, `first` and `entry` are those of the group, and the lengths between
groups hold the maximum. Loop and packing end together only because the last group has two
codewords or is the only one. What follows from it, and is the core of the proof: bits that begin
with a codeword, complemented, are below `first` at every shorter length (`NotShorter`) and not
below it at their own (`HaltsAt`), so inflate stops where it should. `Placed`
carries that through three reversals and the reordering, warp by warp: while nothing has raced, a
place that its warp has yet to read holds what it held before the reordering, what a warp has
read it holds in its registers, and what it has written stays (`Moving`).

`ParHuffmanProofs` proves, for every set of sorted histograms of at most as many quant-codes as
the grid has threads, whose sum is below `UINT_MAX`, every number of blocks and of threads in a
block, and whatever follows the histogram in memory:

| Theorem | Says |
|---|---|
| `Complete` | `[]CompleteCode`: the lengths are those of a complete prefix code |
| `Sound` | `[]ForestSound`: so are those of every tree between two rounds |
| `NotLonger` | `[]FrequentNotLonger` |
| `Merged` | `[]MergedWhole` |
| `Copied` | `[]LeavesCopied` |
| `HasRoom` | `[]RingHasRoom` |
| `Types` | `[]TypeOK` |
| `OneBlock` | `NBlocks = 1 => (Spec => ...)` all of them |

All but `OneBlock` are of the form `Spec /\ []Joins => []P`, where `Joins` is
`NBlocks = 1 \/ RingSorted`. With several blocks each finds its share of a merge by a search that
takes both sequences to be sorted; if the internal nodes were not, the shares could overlap or
leave a node out, and nothing could be said of the forest afterwards. The leaves are
sorted, which the proof shows, but of the ring it is a hypothesis, because the code does not ensure
it (`Unsorted`). It is a hypothesis about the states a behaviour reaches and not about the
constants; every state of run `par_huffman`, which has three blocks, satisfies it. With one block
there is one share, the merge of two unsorted sequences is still each node once, and nothing is
assumed.

None of the seven is inductive. `Inv` is, and TLC finds it true of every state of `par_huffman`
as well. For a single leaf, which thread 0 takes at once together with a dummy, it is `Single`. For
more it is the conjunction `Several`, which follows a round by where thread 0 is (`AtRest`,
`Combined`, `Gathered`, `Advanced`):

- `Ring`: leaves and internal nodes taken are twice the internal nodes made, so there are
  never more than `size - 1` of these and the ring never wraps. `RingHasRoom` and the
  evenness of a merge rest on this.
- `Weights`: the roots in the ring weigh no more than the leaves taken, although a root's
  frequency may not be that of its leaves. So no sum reaches `UINT_MAX`, and thread 0 never
  combines a dummy with frequency `UINT_MAX` for want of a smaller node.
- `Copying`: the leaves no greater than `minFreq` are a run from `lNodesCur` on, and each of the
  threads that copy them writes the leaf's own place, so the copy is whole when the last
  block is at the barrier although `curLeavesNum` grows meanwhile.
- `Shares`: the merge is a walk (`Goes`): of two nodes the leaf is taken if it is no greater. On
  the `k`-th diagonal the search flags what the walk has passed and nothing else
  (`CrossingIs`), so each block starts where the walk is and its serial merge goes the same
  way (`SerialIs`); the shares tile `temp`.
- `Melding`: a pair that has been melded is under its new root, the others are not under
  any yet; the threads have different pairs and write different slots.
- `Forest`: every leaf taken has a root, directly or one step up (`Top`); the
  leaves under each root fill a tree, their units `2^(n - depth)` adding up to `2^n` (`Filled`); later
  leaves are never deeper, nor under an earlier root at one depth (`Ordered`).

The core is that a join in pairs keeps the forest so, *whichever* nodes are paired, in
whatever shuffle of leaves and roots (`JoinFull`, `JoinTops`, `Slots`). A new root's tree is half of each
of its two parts, so it is full if they are. Order is kept because a round joins leaves that have
not been in any tree before, in order, with the roots at the front of the ring, in order.
The combination of two nodes at the start of a round is the same join, with one pair. It
follows that at the end, when one root is left and every leaf taken, all leaves fill one tree.

Where these proofs need an induction over data, it is written out: take the least number for
which a fact fails (`Least` in `NatLemmas`) and look at the one before. `Recurrence` shows in the
same way that a function defined by recursion satisfies its definition.

`CliProofs` proves, for every set of files, of paths that cannot be written to, of command
lines and of uses of the C API, every number of processes, every width of `unsigned int`, and
whatever the encoders make of a field:

| Theorem | Says |
|---|---|
| `ArchiveReadable` | in an archive whose buffers had room for it, both decoders are led to the parts the encoders wrote |
| `CliTypes` | `[]TypeOK` |
| `ArchivesIntact` | `[]Intact` |
| `ConfigOrderIrrelevant` | `[]OrderIrrelevant` |
| `OnlyAskedWritten` | the action property `WritesOnlyAsked` |
| `ResultsFaithful` | `[]Faithful` |
| `TypeInvariant`, `CommandInvariant` | the inductive invariants these rest on |

The assumptions are those on the constants. `ContextAssumption`: an `unsigned int` has more than
one value, the demo sizes are numbers. `CliAssumption`: files to begin with are fields, lengths
given through the API are integers, encoders yield counts, a block has threads. `CommandsAssumption`: the text of
a value has the shape its option needs (that a number is written where one is read, since
reading numbers out of text is not modelled), and `asks` and `writes` are what the options mean,
as said under *Cli* above.

The invariant has three layers, and TLC finds all three true of every state of `session`.

- `TypeInv`. Types alone are not inductive: that a length is in range needs that every
  option, in every order, keeps the context well formed (`Typed`) and that a context in use has
  not thrown; `Intact` needs `Made`: an archive that is not damaged is what
  `subfile_collect` writes for a shape whose sizes are natural numbers. That its decoders then
  find their parts (`ArchiveReadable`) is about the ten writes in its buffer: each part lies
  where the sums of the sizes before it say (`Starts`), the copies of the two subfiles move
  their writes and drop none the header counts, and no later write begins before an earlier
  part ends (`Climbs`), except for what the codec's scratch leaves, which the Huffman header and
  parts are written over.
- `CommandInv` adds `MeansInv` and `PlaceInv`. `MeansInv`: while options are read, the context is
  one that the tokens so far lead to; afterwards it is one of `Meant`, but for the error bound
  once it has been scaled by the field's range. `PlaceInv`: where a process has come to says
  what its options are (it saves only if they ask for a compression, stores only if they ask for a
  decompression and do not skip the output) and that the file it works on exists.
  Together they give each write a line of `CommandsAssumption` to rest on.
- `FaithInv` follows a field through two processes. Every archive on disk that is not damaged
  goes back to a request for the name it lies under, with content, extents and bound; so does what
  the process has in memory, under its own name, from the moment it has compressed or loaded
  it; before that, the process has asked for what it is about to compress (`Claim`). Names matter:
  a result is stored next to the input, so that the archive `a.cusza` gives `a.cuszx`
  and no other needs that no two names have one archive (`SameName`).

`ConfigOrderIrrelevant` is proved for strings of any length, by following the recursive function
`Orders` over the subsets of the pairs: `Applied` says what the pairs of a subset have made of the
context, whatever their order; each pair sets its own members (`OverlaysApart`), and one that throws
throws whenever it comes.

`LorenzoProofs` proves `RoundTripPN`, for every width: the zigzag code of an integer of `w` bits has
`w` bits and decodes to it, so the `pn` kernels lose nothing of a difference that fits; and
`InjectivePN`, which follows.

Otherwise it is about the pair the library launches on a row, `v0_c_1d` and `v0_x_1d`
(`OnARow` says that the behaviour begins with it and is not a test, so no ghost row is read), in `Predicted`, so with
the outliers gathered and scattered in between. For every row, every size of a block, of the chunk of a
thread in either kernel and of a warp, every radius and error bound, and every order of the
warps between two barriers:

| Theorem | Says: `PredictedSpec /\ OnARow =>` |
|---|---|
| `RowPredictionExact` | `[]PredictionExact` |
| `RowErrorBounded` | `[]ErrorBounded` |
| `RowInBounds` | `[]InBounds` |
| `RowTypeOK` | `[]TypeOK` |
| `RowCodesCounted` | `[]CodesCounted` |
| `RowInvariant` | `[]RowInv`, the inductive invariant they rest on |

The assumptions are those on the constants (`LorenzoAssumption`): sizes and extents are positive, both chunk
sizes divide the block's, values are integers, twice the error bound is an odd number of units
(so that no value lies halfway between two multiples); and for the histogram `PredictedAssumption`:
shared memory has room for one row of counters, a thread block's sizes are units of whole warps.

The properties speak of the end of a launch; the invariant says what there is at each stage
on the way. A cell of the block is loaded and stored by the warp its *stripe* belongs to and computed
by the warp its *chunk* belongs to, and between two barriers these two are at different
stages. `RowInv` therefore says of each cell what it has become, in shared memory, in a thread's
registers, in the arrays, in terms of the stages of its two warps (`CompressCell`,
`DecompressCell`): it is in shared memory from when its stripe was loaded until its chunk's
warp overwrites it, in a register from when its chunk was taken. Which of these may overlap is
what the barriers are for, and is `Abreast`: all warps are between the same two. Of the block-wide sum it
says that after the warps' own scans a cell holds the difference of two prequantized values, its
own and the one before its warp's first cell (`Scanned`; sums of differences telescope, `Telescopes`), that
the last lane of each warp leaves the warp's total, which another warp adds up (`TotalIn`,
`TotalEx`), and that after `propagate` the difference is from the block's start (`Summed`). A
warp without a cell in the row may hold anything, `Undef` too: `Inside` guards each statement, and
the sums are shown to read only what is inside. The result and the outliers are one array:
`Held` says which indices have been overwritten (`Rebuilt`) and that the others, which later
blocks and warps have yet to fuse, have not. That indices fall where they should
is division (`BlockIs`, `StripeIs`, `OutIs`, on `DivisionUnique` of `NatLemmas`).

For the histogram `HistInv` adds to it that after `hblock` thread blocks the count of a code is how often
it is among the codes of these blocks (`Tally`, `Before`). The argument is about division, four times over:
the launch that is fitted by doubling the grid and halving the replicas stops with a replica
left (`LaunchIs`; `Doubled` outgrows any bound); the last warp's part, which is longer than the others', and
theirs cut up the field (`PartAt`), even where a part is empty; within a part each index is reached from
one lane of one block (`LaneAt`); so each code is read by one thread (`ReadsAre`, `ReaderIs`),
counted in one slot of its replica (`SlotsApart`, `HitsAre`), and counted once when the
replicas are added up (`Counts`). That a code is one of the dictionary (`CodeInBook`) comes from `RowInv`, and
is why the clamp, whose condition nothing meets, does no harm.

TLC finds `RowInv` and `HistInv` true of every state on fields that end within a block, at its end
and in its first cell.

`SplineProofs` is about both spline kernels, for every field that `SplineAssumption` allows, however many blocks it
takes and wherever it ends in the last ones, every number of anchors in a block, the three distances,
every width of a warp, radius, bound and greatest code, and every order of the warps
between two barriers:

| Theorem | Says |
|---|---|
| `SplineErrorBounded` | `Spec => []ErrorBounded` |
| `SplineTypeOK` | `Spec => []TypeOK` |
| `SplineInvariant` | `Spec => []SplineInv`, the inductive invariant they rest on |

`ErrorBounded` speaks of the end of a decompression, and nothing of it survives a step back: in between, the
value of a cell depends on a kernel's stage, the stage of the cell's warp, and on whether the cell lies on a
face that the next block interpolates once more. The argument has three parts.

- *Ideal values.* `Ideal(f)` is, for each stage, a field of integers on the whole grid, computed from
  the field (continued by 0) alone: `Refined` replaces the cells of a stage by what their code decodes to. Every one is
  within the bound of the field's, and those not yet interpolated are the field's (`RefinedClose`,
  `StepsBound`). Ideal values know of no block and no warp: two blocks that interpolate a common face agree
  because each computes the ideal values, and decompression agrees with compression for the same reason.
- *Geometry.* The cells known before a stage are a grid, the stage's cells lie between two of
  them, and together they are the next grid (`Steps3`); a cell is of one stage (`PatternsApart`).
  The boxes that the threads of a stage go through reach each cell of the stage in the
  scratch once, except the trailing faces in the last stage (`StageCovers`, `StageMaps`, `Within3`);
  the warps' shares of a box are disjoint and together the box, whatever the width of a warp (`ShareIs`).
  Blocks tile the field and its padding (`Tiles`), and the place of a block leaves the grids where they are (`LayPattern`).
  A cell that is interpolated from stored codes only has neighbours that are so too (`InnerKept`), which is the
  condition `FromStored` of the property.
- *The invariant.* The warps of a block are at the same turn, an operation or the barrier after it (`Turn`).
  `Claim` says what value and which code a cell of the scratch has before each operation, `Reached` which operation a cell is before: the
  next one if its warp has done with it. A stage reads a cell's own value and two neighbours that no
  warp of the stage writes (`PredictIs`), so the claims move warp by warp (`ClaimsMove`), and at the barrier
  the cells that nobody wrote have the next claim already (`Skipped`). `Compressing`, `Decompressing` say
  what the blocks and the warps that are done have left in the archive and the result, `Archived` what
  the archive holds between the two launches. Anchors on a common face are gathered, and values stored, by more than one
  warp or block, with the same value each time.

The ideal values are chosen, not computed, so TLC cannot evaluate `SplineInv`; it checks both properties on the run `spline`.

Only model-checked: liveness (`CallReturns`, `Terminates`, `Finishes`), which the provers
cannot do; in `Lorenzo` the kernels of two and three dimensions, the compacting ones, the original's,
the prototype's and the tests, of which each has its own program and so its own invariant;
in `Predicted` the histogram of the codes of these other kernels.
That the ring is sorted where several blocks
merge is neither: it is false in general, and the theorems about them assume it.

## Plan

1. *Done.* Compressor, API and promise, with proofs.
2. *Done.* Codeword lengths and codewords.
3. *Done.* `HfCodec`, with the proofs of the in-place argument and of the tiling.
4. *Done.* `Lorenzo`, `Predicted`, `Spline`: the predictors, histogram, gather and scatter.
5. *Done.* `Archive`, `Context`, `Capsule`, `Cli`: layout, configuration, buffers, processes.
6. *Done for `Compressor` under any client, `ParHuffman`, `CodeBook`, `HfCodec`, `Spline`, `Cli` and the 1D pair
   of `Lorenzo`.* Proofs for the other kernels of `Lorenzo`.
7. The 32-wide search of `cudaWorkloadDiagonals` against `Crossing`, its specification.

## Not modelled

- Floating-point rounding: fields are integers and the error bound is exact. That
  quantization in floating point stays within the bound is numerical analysis.
- Quality metrics, timers, printing, texts: no state that anything depends on.
- Streams: every step of the object waits for the one before, as the synchronizations in the
  components make it; copies that run on while the host goes ahead are not interleaved.
- Destruction: `destroy` (which deletes `codec` twice, `compressor_impl.cuh:73`), the
  destructors of the codecs and the copying of compressors. No command gets there.
- The dual-quant dry run, which no caller asks for; setters of the context without a caller;
  unified memory in `Capsule`; reading numbers out of text.
- Blocks of more than eight warps in `subsub.inl`, dictionaries of 65536, histograms whose
  counters exceed shared memory (`r_per_block` 0 in `stat_g.cu:48`): no launch or instance
  small enough reaches them.
- `archive/`, `experimental/`, `dpcpp`, the CSR codec: not part of the build. Examples, tests
  and scripts other than `t-l23-utils.hh`: drivers, whose order of calls `CuszApi` and `Cli`
  cover.
