# Verification of compression-geospatial

The repository benchmarks integer compression on raster data: it reads the
blocks of a GDAL raster band, prepares them (nodata, shift, normalisation),
reorders and transforms them, gives each block to many codecs and measures the
time and size of what they do. The programs differ in what is timed:
`bench_comp` encodes and decodes every block once, `bench_pipeline` decodes a
grid of encoded blocks and applies an *access transformation* to each, its
multithreaded version does so with a pool of workers, its two-band version with
two rasters at once.

A benchmark is right when its codecs give back what was put in, when each
recorded number belongs to the block, the codec and the repetition it is
attributed to, and when it comes to an end. That is what these modules state.

Contents: [Components](#components) · [Modules](#modules) ·
[Runs](#runs-bounds-and-what-they-show) · [Fairness](#fairness) ·
[Proofs](#proofs) · [Where code and comments disagree](#where-code-and-comments-disagree) ·
[Not modelled](#not-modelled) · [Plan](#plan)

To check: `tlc -config X.cfg MCX.tla` for each `.cfg`, `tlapm XProofs.tla` for
each module of proofs. Paths below are relative to the repository.

## Components

For each part: its state, its operations, what it interacts with, what is hard
about it, and what makes it correct.

**Static repetition pool** (`bench/bench_pipeline_multithread.cpp`,
`RunStaticRepsU16` 463-581, and the int32 twin). State: the atomics `goRep` and
`doneCount`; per worker a slice of the access order, a decode buffer, sums of
the current repetition, the published sums `repDec`/`repTrans`, its own
statistics; in main the samples (`RepMedian`) and the merged statistics. Main
opens a repetition with `goRep`, spins until `doneCount` has counted every
worker, and reads the plain arrays the workers published. Hard: a barrier made of
two atomics, reset with two separate stores while workers spin on *equality* of
`goRep`; plain arrays ordered by those atomics alone; "timed or warm-up" is
decided in two places. Correct if nobody is overtaken, no codec object is
shared, each sample accounts for each block once, totals and samples describe the
same decodes, and it terminates.

**Re-encoding pool** (same file, `BenchmarkAccessU16` 368-457 and
`RunOneCombinationU16`). State: a grid of codec objects that is encoded anew in
every repetition; per worker a buffer, an index and statistics. A worker decodes
a block, transforms it, and *replaces* the block's codec in the shared vector.
Hard: shared vector with concurrent replacement; with direct access the buffer is
the codec's own vector. Correct if no block is lost or decoded after it was
replaced, and if each repetition leaves one whole sample.

**Codec interface** (`src/codecs/generic/generic_codecs.h`). `AllocEncoded`,
`EncodeArray`, `DecodeArray`, `EncodedNumValues`, `GetOverflowSize`, `clear`,
`CloneFresh`. The implicit contract: `DecodeArray` gives back the last block
encoded, whatever the object did before.

**Composite codec** (`src/codecs/generic/composite_codec.h`). A logical codec
followed by a physical one. It owns no buffer: the first codec's vector carries
the intermediate words both ways. State: that vector, the second codec's data,
the cached intermediate length. Hard: every call finds in the shared vector what
the last one left; the second codec may need room behind the values; *fused*
second codecs decode to two sums only.

**Scalar logical codecs, uint16_t** (`src/codecs/uint16/custom_unvec_logic_codecs_u16.h`)
and int32_t (`src/codecs/int32/custom_unvec_logic_codecs.h`): delta, double
delta, frame of reference (FoR: global, windowed, hierarchical, with metadata
inline or apart), run lengths. State: the code vector and, apart, `metadata_`.
Hard: wrap-around of differences, partial windows, runs longer than a word,
metadata that survives `clear()`, a padding byte, `AllocEncoded` bounds that
`EncodeArray` relies on without checks. The int32 ones append to their vector,
so their protocol of calls is different.

**Predictive codecs** (`src/codecs/uint16/predictive_codecs_u16.h`,
`src/codecs/int32/predictive_codecs.h`): nine predictors over neighbours and a
zigzag residual. The decoder predicts from its own output buffer, which still
holds the block before. Correct if encoder and decoder agree on every prediction,
however the integers wrap.

**Vectorised logical codecs** (`src/codecs/int32/custom_vec_logic_codecs.h` for
three instruction sets, `src/codecs/uint16/custom_vec_logic_codecs.h`): delta, FoR
and run lengths a register at a time. State: the code vector. Hard: which word each
lane is computed from, where the loop over registers hands over to the one over
words, signed shifts, unsigned bounds of loops, a vector that is `resize`d where it
should be reserved. Correct if every lane of the decoder undoes that of the encoder.

**Physical codecs** (`src/codecs/uint16/turbopfor*`, `simdcomp*`, `fastpfor*`,
`direct_codec_uint16.h`, and their int32 twins): bit
packing in vendored libraries and SIMD kernels. The *fused* ones compute the sum
of a block while unpacking it and leave it in the two words behind the values.
State: the compressed vector, and `s_anchor`, `s_res`, which all objects of a
thread share, encoders and decoders alike, and nobody clears. Hard: which anchor
belongs to which lane for windows from 4 to 256 words; anchors that are unpacked
just before they are needed; a signed multiply-add that is wrong from 2^15 on;
padding that must not keep words of another block. Correct if the sum is the
block's whatever ran before, and if what is stored does not depend on it.

**Raster preparation** (the scans and block loops of `bench/bench_comp.cpp` and
the three pipelines). State: nodata, minimum, divisor, the blocks done. Hard:
clamping, shifts, narrowing and division of integers of several widths, with
parameters that another loop found before.

**Block sampling** (`src/bench_utils.h` 763-808): which blocks a benchmark reads.
Hard: roundings and wraps; zero requests.

**Compression benchmark** (`bench/bench_comp.cpp`). State: the collection of codec
objects, used for one transformation after the other, and the records. Hard: an
error leaves an object half used.

**Single-threaded pipeline** (`bench/bench_pipeline.cpp`). State: the grid of
encoded blocks, shared by the repetitions or rebuilt for each; one decode buffer;
the sink an access transformation leaves its number in; totals and samples. Hard:
the buffer and the sink outlive the block, the codec's own sum lies behind the
block, the grid is replaced while it is measured, and the ratio, the totals and the
samples must be those of the right grid and repetition. Correct if each printed
number is that of its block, each repetition starts from the base codec's grid and
each sample is one repetition.

**Benchmark utilities** (`src/bench_utils.h`): access transformations with SIMD
accumulators, running statistics, medians, codec selection by name.
**Remappings and transformations** (`src/remappings.h`, `src/transformations.h`):
orderings of a block, which must be permutations, and changes of its words.
**uint8 codecs** (`src/codecs/uint8/*`): run lengths of bytes.
**Two-band pipeline** (`bench/bench_pipeline_2band.cpp`): two grids decoded in
lockstep, NDVI kernels. **Byte and image codecs** (`src/codecs/generic/*`):
wrappers around libraries. **Parity and micro benchmarks** (`bench/for*`,
`bench/micro*`), **tests**, **scripts and data sets**, **vendored libraries**.

## Modules

| Module | Models | State and actions against the code |
|---|---|---|
| `GridSlices` | `tid * n / X` slices of the shuffled access order, `--rs`/`--numreps` | constants and operators shared by both pools |
| `RepRounds` | *abstract*: what a timed benchmark of a grid promises | one step per repetition, one sample per timed repetition, a report that is the union of the samples |
| `StaticReps` | `RunStaticRepsU16` | `Go`, `DecodeBlock`, `Publish`, `Signal` are a worker's spin exit, loop body, `repDec[t] = rd` and `fetch_add`; `ResetDone`, `Release`, `SeeAllDone`, `Collect`, `JoinAndMerge` are main's stores, spin exit, collection and join. Each access to an atomic is a step |
| `AccessPool` | `BenchmarkAccessU16` and the loop around it | `Spawn` (encode the grid, start the workers), `SizeBuffer`, `Decode`, `Store`, `Exit`, `JoinAndMerge`, `Report` |
| `Words` | word arithmetic and `ZigzagEnc16`/`ZigzagDec16` | words are `0 .. 2*Half-1`; `Half = 2^15` in the code |
| `LogicalCodecsU16`, `PredictiveCodecsU16`, `CodecsU16` | the codes of every scalar uint16_t codec | pure operators: what `EncodeArray` leaves in the vectors given what it found there, what `DecodeArray` reads; `CodecsU16` dispatches on the class |
| `VectorCodecs` | the vectorised int32_t and uint16_t logical codecs, `RLECodecU8` | pure operators: for each class the word a lane is subtracted from and the end of its vector loop, which encoder and decoder share |
| `LogicalCodecObject` | one such object in use | `EncodeArray`, `DecodeArray`, `clear`, `CloneFresh` in any order |
| `PredictLoop` | the element loops of delta and the predictive codecs | one iteration per step, over stale buffers |
| `BlockStore` | *abstract*: the contract of `generic_codecs.h` | a box that holds one block |
| `CompositeCodec` | `composite_codec.h` | one action per method; the codecs are constants with the assumptions the composite needs |
| `FusedSumU16` | the fused codecs of `simdcomp_for_codec_uint16*.h`, `simdcomp_fused*.h`, `turbopfor_for_codec_uint16.h`, `turbopfor_fused*.h` | pure operators: anchors, residuals, packed blocks, the flag, and what each lane adds in each round of the decoder |
| `FusedClassesU16` | their classes, those of FastPFor included | one record each: register width, window, anchor layout, chain of differences, flag |
| `FusedCodecs` | objects of them in one thread | `EncodeArray`, `DecodeArray`, `clear` in any order, over the thread's scratch arrays |
| `CodecsI32` | scalar int32_t codecs | pure operators, over the vector the codec appends to |
| `CompressionBenchmark` | `BenchAndVerify`, `RunBenchConfig` | one action per block, encode, decode, verification, and per place where a codec throws |
| `RasterSizes` | the rasters, requests and block sizes of an instance | constants and their assumptions |
| `BlockSampling` | `SampleBlockOffsets` | one push per step |
| `AccessTransformations` | `ApplyOrdering`, `ApplyTransformation`, `ApplyAccessTransformation`, `remappings.h`, `transformations.h` | pure operators: what becomes of the words of a buffer, and of the sink; vectorised ones register by register |
| `SequentialPipeline` | `bench_pipeline`: `SplitIntoFullBlocks`, `BenchmarkAccess`, `RunOneCombination` and the uint16_t versions | composes `BlockSampling` (`Sample` is a step of it) and `AccessTransformations`: `Begin` (the shared grid), `StartRep` (grid of the repetition and its buffer), `AccessBlock` (decode, transform, trace, replace), `EndRep` (sample), `Report`, `Throw` |
| `RasterPreparation` | nodata, scans and block preparation on the uint8, uint16 and int32 paths | one block per step; the guards choose program and path |

Each `*Proofs` module holds the theorems about the module it extends.

Abstractions, all of data:

- *Totals* of the pipeline's statistics are sets of measurements too, so that the
  difference of two totals is the set of what was measured between.
- A *codec of the pipeline* is known by what its `DecodeArray` writes: the words;
  the words and their sum; the sum only (fused uint16_t codecs); arbitrary words (a
  composite with a fused second codec); nothing (direct access, where the codec's
  vector is used as the buffer).
- A *register* of the vectorised codecs is a number of lanes. That all of
  them are computed at once is their definition.
- *Durations* are the set of the measurements they sum, one `<<rep, worker, block>>`
  per decoded block. Whether a sum is stale, incomplete or counted twice is then
  visible; how long anything took is not.
- *Decode and transformation times* are computed side by side by the same
  statements; one accumulator stands for both.
- A *second codec* of a composite is the number of units it stores and what it
  writes when it decodes.
- A *packed block* of a fused codec is its width in bits and its words cut to that
  width; where the bytes lie is left out. The kernels of a packed block differ in
  their instructions, not in the anchor and the word of a lane, which `InLane` and
  `AnchorOf` say; `shuf` is such a difference and has no counterpart. A PFor library
  is a block of whole words: what it does with exceptions is its own.
- *Memory order*: `goRep` and `doneCount` are accessed with acquire loads, release
  stores and a release `fetch_add`. Every worker's increment belongs to the release
  sequence main acquires, so the steps of the model are sequentially consistent
  and the question whether the plain arrays are ordered by them is asked as
  `QuietWhileCollecting`.
- `AccessPool` treats the block of a codec as opaque; the access transformations
  that count as mutating only read the buffer in their uint16_t instances, so
  the block that is stored is the one that was decoded. `BenchmarkAccessU16` is
  only reached with them, since other transformations run in the static pool
  (its `dataChange` is always true).

Faithful peculiarities worth knowing when reading the modules:

- `pack_u16` clears whole bytes, but the distances of hierarchical FoR occupy
  whole words, so the last byte of an odd count may be one that an earlier block
  left there. `Encodings` is therefore a *set* of codes, and the properties say
  that it does not matter which.
- `RleCodec` of int32: `AllocEncoded` is `resize(2)` and `EncodeArray` appends, so
  every code starts with two zero words, which decode to no value and count in
  the size.
- A FastPFor codec throws on a malformed block; the composite then never clears
  its first codec. `bench_comp` catches, records zeros, and uses the object
  again. The zero records are averaged with the others.
- On the int32 path of the preparation nodata is `static_cast<int32_t>` of a
  double without a range check; x86 gives the smallest integer. `Fits` names the
  rasters where that does not happen. Signed overflow of `-min` and `v + shift`
  is modelled as what x86 code does, a wrap; `NoOverflow` names the data where it
  does not happen.
- The comment above `s_res` and `s_anchor` (`simdcomp_for_codec_uint16_w256.h:169-170`)
  says that encode and decode never alias; both use `s_anchor`. That is harmless
  because each writes what it reads first, which is what `SumIsTrue` and
  `HistoryFree` check.
- `BenchDecode` of the composite uses `reserve` where `DecodeArray` learnt to use
  `resize`, so the first codec decodes zeros (`composite_codec.h:90`, against
  the comment at 100). It is an action of `CompositeCodec`; it has no caller.
- The vectorised delta and FoR codecs decode some words with a signed shift
  (the head and tail of the int32_t classes, all words of the SSE 4.2 and FoR ones),
  which loses codes that have the sign bit. The bound `i < length - 4` of the SSE 4.2
  classes is unsigned and wraps for blocks shorter than a register. `VectorAccepts`
  names the blocks for which that does not happen; `RoundTrip` is about those.
- `AllocEncoded` of the vectorised run length codecs `resize`s to 2 and
  `EncodeArray` appends, although the comment at `int32/custom_vec_logic_codecs.h:871` says
  "Reserve more efficiently": zero pairs precede the code, decode to nothing and
  count in the size. Used again without `clear()` for a longer block, the object keeps old
  pairs (`Reusable`). The uint16_t version stores a run of 65536 as 0.
- The vectorised uint16_t codecs are commented out of the collection
  (`codec_collection_uint16.h:35-37`); only the tests make them.
- `TRACE` lines print `kLinearSumSink`, which only sums, minima, maxima and counts
  assign. For other transformations the line repeats the number of an earlier block,
  though the option promises "per-block sums for verification". On the int32_t path
  minimum, maximum and counts are not implemented either.
- The uint16_t path knows no mutating transformation: it leaves the words alone and
  re-encodes them, which is timed as encoding.
- On the int32_t path a mutating transformation runs over the whole buffer, the
  words behind the block included, so `Threshold`, `SmoothAndShift` and the
  classifications of the same block give other words with a codec that asks for
  overflow words. `GridIsTrue` holds of them without those words, and of
  `ValueShift`, which looks at one word only, with them.
- `linearSumFused` reads one or two words behind the block. With a direct codec or a
  fused composite the buffer has none; the model then leaves any word.
- `IndexBasedClassification` divides by zero for blocks with fewer words than
  classes (`BlockAssumption` excludes them), and Morton order throws
  `std::out_of_range` unless the block size is a power of two; nobody catches it
  (`Throw`).
- `LinearCountGtFxP` counts in 16-bit lanes and folds them in 16 bits, which is
  right for blocks of up to 2^16 words, the second half of `BlockAssumption`.
- The delta and `corrected` classes of FastPFor take the size of their vector for
  its capacity, so each `EncodeArray` needs an `AllocEncoded` before it.
- A UInt16 band whose data are all 65535 is not normalised, as that value is also
  the start value of the search for the minimum.

## Runs, bounds and what they show

| Run | Instance | What it shows |
|---|---|---|
| `static_reps` | 3 workers, 6 blocks in shuffled order, 3 repetitions, the first a warm-up | every interleaving of the barrier; no codec is shared, main collects while all are quiet, samples whole, statistics equal to samples, no worker overtaken, every termination, and refinement of `RepRounds` |
| `access_pool` | 3 workers, 5 blocks (slices of 1, 2, 2), 2 repetitions, 1 warm-up | only base codecs are decoded, no block lost, refinement of `RepRounds` with its liveness |
| `access_pool_race` | the same | *violation*: `codecs[0]` is read while it is replaced |
| `logical_codec_object` | words of 4 bits, windows of 2 and 4, registers of 2 and 4 lanes, blocks of 1 to 33 values | round trip, independence of the object's past, allocation suffices, for every scalar and vectorised codec and its variants |
| `predict_loop` | words of 2 bits, 2 x 2 blocks, delta and nine predictors | after each iteration the decoder has restored the prefix |
| `composite_codec` | 8 logical x 2 physical codecs and the fused cascades, nine blocks | restored blocks, honest size, refinement of `BlockStore` |
| `fused_codecs` | words of 5 bits, registers of 2 and 4 words, packed blocks of 4 and 8, windows of 1 to 8, four blocks of 8 to 32 words; each class beside one that packs anchors in the same scratch arrays | the two sums are the block's, each word is decoded once with an anchor that is there by then, and the stored code is that of a new thread, in every order of calls |
| `fused_scratch` | the same words, cascades with FoR of windows 2 and 4 | *violation*: the second codec is given more words than `s_res` has |
| `sequential_pipeline` | rasters up to 3 x 3 blocks, requests up to 23, blocks of 3 x 3 and 4 x 4 words of 4 bits, registers of 4; on a raster of two blocks and a request of three every combination of the codecs, orderings, transformations and access transformations listed in the MC module, over two repetitions with and without warm-up | no block sampled twice before all are, visits differ by at most one; each traced number is that of its block; the grid is the base codec's until a block is accessed; samples are whole repetitions and add up to the totals; the ratio is the base codec's |
| `raster_preparation` | bytes of 1, short words of 3, long words of 4 bits, two blocks of two pixels, each data type, both programs, six nodata values | nodata is 0, the order of data is kept, the normal form and the skipped blocks are the promised ones outside of two named cases |
| `raster_normalise` | the Int16 part of it | *violation*: a positive minimum is not subtracted |
| `compression_benchmark` | words of 5 bits, four blocks, two configurations of two blocks, one codec or two, cascaded or not | only errors leave words behind; which codecs recover |

Why these bounds are enough to be interesting:

- *Threads, blocks, repetitions.* With three workers some are a repetition's first
  and last while another is between; slices are of different length in
  `access_pool`. Three repetitions have one that is warm-up, one that follows a
  warm-up and one that follows a timed one. Every one of these properties except
  the liveness is also proved for all values.
- *Words.* Wrap-around, the sign bit, run counters that saturate and escapes
  depend on a value's place in the range, not on the range. With two-bit words
  every difference can wrap; with four bits a run of 17 must be split. Widths only enter
  through `Half`, `WordBits`, `ByteSize`, `HalfWord`, `HalfLong`.
- *Blocks.* Windows of two and four values against blocks of up to nine give full,
  partial and single windows; lengths that grow and shrink are what makes stale
  words visible in a reused object.
- *Lanes.* Windows of 1, 2, 4 and 8 words stand to registers of 2 and 4 words and
  packed blocks of 4 and 8 as windows of 4 to 256 to registers of 8 and 16 and
  blocks of 128 and 256: a quarter, a half, one register, several, a block, more.
  That the kernels find the window's anchor for every such nesting, and that the sums
  are right, is also proved.
  Blocks of 24 words leave the last block of anchors partly padded.
- *Registers.* Blocks of 17 to 20 words are several registers and every length of
  the tail. The AVX2 delta class broadcasts pairs of words, which shows from four
  lanes on.
- *Sampling.* Requests up to 23 over at most 9 blocks wrap twice with every
  remainder; the properties are also proved for all sizes.
- *Pipeline.* Blocks of 3 x 3 words do not fill their registers and have no Morton
  order; 4 x 4 words of four bits are as many as a word has values, the largest
  block for which the counter of `LinearCountGtFxP` is right. Three offsets over two blocks put one block into the
  grid twice. One raster is below the sign bit, one on both sides, one above the
  threshold throughout.

`CHECK_DEADLOCK` is on in every run: where a program has returned, the module
says so with an action of its own (`Returned`, `Finished`). Every property has a
*mutant* in `PROJECT.json`: a plausible bug of the code, written beside the
definition it changes and marked `(Mutant: ...)`, that makes TLC find the property
violated.

## Fairness

`StaticReps` and `AccessPool` assume weak fairness of main and of each worker.
These are operating-system threads: one that can run is run again and again. A
spin loop is modelled by its exit, which stays enabled once `goRep` or
`doneCount` has the awaited value until that thread takes it, so weak fairness is
enough. `Finishes` and `ImplementsRounds` use it. `RepRounds`
itself has weak fairness of its `Next`. The other modules are sequential code;
their properties are safety properties and no fairness is assumed.

## Proofs

All theorems hold for every value of the constants; the assumptions are the
`ASSUME`s of the modules and are evaluated by TLC on every instance.

**Foundations** (`Foundations`). What several of the proofs below need: products and
quotients, finite sets and sums over them, `FoldSet`, slices. The prover cannot
instantiate the library's induction theorems, which take an operator, so induction
over data is done by a smallest counterexample: the set of the arguments for which a
claim fails has a least element (`NatLessThanWellFounded`,
`FS_StrictSubsetOrderingWellFounded`, both first-order facts), and the claim holds of
it by what holds below. `FoldExists` gets the function behind `FoldSet` that way, and
`SumUnion`, `SumPermuted` and `SumEqual` are about sums over any finite set.
`SlicesPartition` says that the slices `Lo(t) .. Hi(t)-1` are disjoint and cover the
grid for every number of blocks and threads, also with more threads than blocks; so
the sets the workers measure, for any permutation, account for each block once
(`WholeIsOnePerBlock`, in both pools).

**Static repetitions** (`StaticRepsProofs`). None of the properties is inductive:
that main may read the sums depends on which workers have signalled, which depends
on what `doneCount` counts. The inductive invariant is
`TypeOK /\ BarrierInv /\ SumsInv /\ SamplesInv`:
`BarrierInv` describes, for each place of main, the repetition each worker is in,
and says that `doneCount` is the number of workers that have gone past the open
repetition; `SumsInv` says what each accumulator holds there; `SamplesInv` what
main has pushed. From it: `TypeCorrect`, `BlocksNotShared`, `CollectingIsQuiet`,
`SamplesAreWhole`, `StatsAreSamples`, the action property `NobodyIsOvertaken`, and
`RoundsImplemented`, the safety part of the refinement.

**Re-encoding pool** (`AccessPoolProofs`). The invariant is
`TypeOK /\ ControlInv /\ GridInv /\ SumsInv /\ SamplesInv`; `GridInv` says that in
the slice of each worker exactly the blocks before its index have been replaced.
From it `OnlyBaseIsDecoded`, `NoBlockIsLost`, `RoundsImplemented`.

**Composite codec** (`CompositeCodecProofs`). For *all* first codecs that overwrite
what they find and invert themselves, *all* second codecs and *all* blocks.
`Restores` needs to know where an encoded block is between two calls (`Kept`: words
in the second codec, metadata in the first, length in the composite) and what may
be in the shared vector (`Buffer`: nothing, the words, or as many zeros).
Theorems: `TypeCorrect`, `DecodeRestores`, `SizeCorrect`, `StoreImplemented`
(a composite whose second codec gives its values back is a `BlockStore`). That the
program's first codecs meet the assumptions is proved in `CodecProofs`, below, and
checked by TLC on the instance.

**Codecs** (`CodecProofs`). That the scalar, predictive, vectorised and hierarchical
codecs give back what they were given, for every block, window, register and width of
a word, and what follows for the programs that use them. The sections are those of
the argument:

- *Arithmetic.* `ZigzagInverse` and `ResidualRecovered` hold for every even modulus,
  so for 16 and for 32 bits.
- *Recursion.* A decoder that reads what it has restored is a recursive function. It
  has at most one solution (`AgreeUpwards`: the least place where two differ
  contradicts itself), and the block is one: prefix sums (`DeltaDecodes`,
  `DoubleDeltaDecodes`), predictors, which look at earlier elements only
  (`NeighborsAreBefore`, `PredictDecodes`), and the broadcasts of the vectorised delta,
  whose lanes point to lanes of earlier registers.
- *Windows.* Each value lies in the window of one anchor, wherever the layout puts it
  (`WindowOfValue`, `InterleavedPlaces`), so `FORDecodes`. The vectorised frame of
  reference takes its minimum of the whole registers only, by a signed comparison:
  whichever word it finds, the rest is stored relative to it (`VectorFORCodes`).
- *Runs.* Pairs collected from the last run to the first expand into the block
  (`BackwardsDecodes`); a run that is longer than a word can count is split into pairs
  that expand into it.
- *Packing.* A number below `2^n` is the sum of its `n` bits (`SumOfBits`,
  `BitsOfSum`), so what `pack_u16` writes across words and bytes is what `unpack_u16`
  reads, whatever stands in the padding (`PackIsWords`, `UnpackIs`). With it the
  header of the hierarchical code is read as it was written (`HierPartsAre`).

*One object.* The invariant is `ObjectInv`. `RoundTrip` speaks of the call that has
just returned and is not inductive: a decode needs to know that the vectors hold a code of
the block, and the next encode that a class without a side vector never filled one.
`Taken` says that every class, given what it may find in its vectors, stores what a
new object would (or that but for its padding), `CodesAre` that this is words, within
what `AllocEncoded` reserves, that decode to the block. Theorems: `ObjectTypes`,
`ObjectRoundTrip`, `ObjectHistoryFree`, `ObjectFits`. Assumed are the settings that
the constructors take (`SettingsAssumption`), an even number of bits in a word
(`WholeBytesAssumption`) and blocks of at least one word (`BlocksAssumption`).

*First codecs of a composite.* `FirstCodecsOverwrite` and `FirstCodecsInvert` state
`OverwriteAssumption`, `InverseAssumption` and `VectorsAssumption` of `CompositeCodec`
for these codecs, so that its theorems are about the program's cascades, for all blocks.

*The benchmark.* `FreshUnlessError` and the two that follow from its failing are about
the block at hand, but what an object holds then was left by an earlier block, maybe
of another codec's turn. `BenchInv` says what it was: an object between two blocks is
untouched if its last block was recorded without error (`Clean`); the words
to which `AllocEncoded` cuts a run-length vector are zeros, whatever was appended behind
them (`Led`); between encoding and record the vector holds the code of a new object if no error has met the codec or it
overwrites (`Coded`), the decoded array is the block (`Restored`), and the records
of such codecs are true (`Sizes`). One lemma for each way a step can go
(`BlockEncoded`, `ErrorEncoding`, `BlockDecoded`, `ErrorDecoding`, `Verified`,
`FailedVerification`, `NextBlock`, `NextTransformation`). Theorems: `ObjectsAreReset`,
`OverwritingCodecsAreHonest`, `UnharmedCodecsAreHonest`. Assumed is that a block has
fewer than 2^31 words (`BlockSetAssumption`), as the length of a run is an `int32_t`.

*The element loops.* `IInv`: with `Coding` (the words coded so far are those of the
block) `PrefixRestored` is inductive for every set of predictors that read only
earlier elements; `BlockIsRestored` follows.

**Fused codecs** (`FusedCodecsProofs`). For every class that the collection builds
and those it keeps for experiments, every width, window and block, and every order in
which the objects of a thread are called. Assumed are that registers, packed blocks
and windows nest as powers of two do (`WindowsAssumption`), that the scratch arrays
have at most as many words as a word has values (`ScratchAssumption`: 256 x 256), and,
as hypothesis of the three theorems about sessions, that no block is longer than they
are; the run `fused_scratch` shows that the last is not idle.

- *What is stored.* `StoredIsHistoryFree`: the padded anchors of a block never need
  more room than the block (`AnchorsHaveRoom`), so what is packed is written in the
  same call.
- *What comes back.* Words packed in as many bits as the largest has lose none
  (`ChunkLosesNothing`), the anchors of all four layouts come back
  (`AnchorsComeBack`), a chain of wrapped zigzag differences does too
  (`ChainComesBack`: the block is a solution of the recursion and the least place
  where another solution differs contradicts itself).
- *Which anchor is added.* `KernelsAddTheWindowsAnchor`, from the uniqueness of
  quotients; in the decoders that unpack anchors between the residuals each packed
  block has one round and its anchors lie below what that round has unpacked
  (`RoundBounds`).
- *What a lane adds.* With the flag madd reads words below 2^15 only (`MaddIsSafe`),
  since the least of a window is subtracted and no residual wraps.
- *What it adds up to.* The rounds are a permutation of the blocks and the blocks
  partition the words (`SumOfRounds`); what TurboPFor leaves out of the lanes is the
  window times the sum of the anchors (`AnchorsMakeUp`); the sum of 2^16 words is below
  2^32 (`SumHasRoom`), so the two halves hold it.

The invariant is `HistoryInv` (the arrays keep their length, what is stored is that of
a new thread) and that what an object holds is a block its class accepts. From it
`SumsAreTrue` and `LanesAreTrue`.

**Raster preparation** (`RasterPreparationProofs`). For every width of the words,
every raster, nodata value and set of options; assumed is that a byte fits a word and
a word the positive part of a long one (`SizesAssumption`) and that the pixels are of
the band's data type (`PixelsAssumption`). The inductive invariant `Preparing` says,
for each place of the program, which blocks the loop has gone through, that `smallest`
is the least of their data, that the divisors of `gcdAcc` are the common divisors of
the differences of their data from it, and that each prepared word is `Word` of its
pixel. The second is not obvious, as `std::gcd` is folded over a *set* whose elements
come in no order: that the greatest common divisor is divided by every common divisor
is Bezout's identity (`Bezout`, from the smallest positive combination), and
`GcdFolded` carries it through the fold. From it: `WordsAreTyped`;
`NodataReachesAsZero`, whatever of clamping, modulo and shift the value went through;
`NothingIsLost`, since a quotient by a divisor of both differences is strictly
monotonic (`QuotientOrdered`) and no difference is larger than the type
(`DivisorIs`); `NormalForm` (the divisor is the greatest, `DivisorIsGreatest`); and
`SkipsByShare`, which needs that a pixel is taken for nodata exactly if it is
(`TakenForNodata`), outside of the case the property names.

**Sampling** (`SequentialPipelineProofs`, first part). `NoRepetition` and `Balanced`
are about the offsets that have been pushed, which is not inductive: the invariant
must say *how often* each block has been pushed at each step. It does, for every
raster, block size and request: whole wraps have pushed each block as often as there
were wraps, and the sampling loop behind them has pushed those at multiples of its
interval, which, rounded down, never leads behind the last block (`IntervalFits`).
`NoneIsRepeated` and `WrapsAreBalanced` follow. A raster's blocks are told apart by
quotient and remainder (`DivisionUnique`).

**Pipeline** (`SequentialPipelineProofs`). For every raster, request, combination,
block and shuffle; assumed is what the instance enumerates (`CombosAssumption`,
`PixelsAssumption`), what the sink may have been left as (`ScratchAssumption`) and
that `std::shuffle` permutes (`ShufflesAssumption`). A step of the pipeline that
samples is one of `SampleBlockOffsets` (`SampleIsStep`). The invariant is
`Sampled /\ ControlInv /\ GridForm /\ RatioInv /\ SamplesInv`. `SamplesInv` says
that the totals are those of the samples that have been pushed and, in the middle of
a timed repetition, of the accesses up to `pos`; what has been pushed was measured in
earlier repetitions (`PushedIsEarlier`), so the difference of the totals is the
repetition and nothing else. A permutation makes it whole (`WholeRepetition`).
`GridInv`, inductive relative to it, adds the buffer's length, the origin of the
decoded words and `GridIsTrue` itself; it rests on every transformation keeping the
length of its argument and on the front of the buffer being the block
(`DecodedIsBlock`, `AccessedIsChanged`). `TypeInv` adds that words are words, on
both paths, and that what has not been accessed in a repetition is as it was encoded
(`Fresh`); with it `TraceIsTrue` is inductive. Its core are the numbers themselves:
an ordering is a permutation, Morton order because its codes differ
(`MortonInjective`: each coordinate's bits are spread to places of their own), so a
sum does not depend on it (`RemappedSum`); a sum taken by registers and a rest is the
sum (`VectorsAndRest`), minima, maxima and counts likewise, and reductions modulo the
word commute with it. Theorems: `TypesKept`, `TypeCorrect`, `NoneIsRepeated`,
`WrapsAreBalanced`, `SamplesAreWhole`, `RatioOfBase`, `GridIsAsChanged`, `TraceTrue`.

With these, every safety invariant of the runs that pass is stated by a theorem. Only
model-checked: liveness (`Finishes`, the fairness part of `ImplementsRounds`), since
the prover has neither fairness nor `ENABLED`.

## Where code and comments disagree

Three runs are expected to find a violation; `PROJECT.json` quotes the lines.

1. `access_pool_race`: a worker that starts late reads `codecs[0]` (line 395) while
   the worker that owns block 0 may already replace and destroy it (437). The
   comment above the function excludes data races.
2. `raster_normalise`: an Int16 band without negative data is divided, but its
   minimum is not subtracted.
3. `fused_scratch`: `BuildAllCodecsU16` cascades FoR codecs that keep their anchors
   among the data with fused codecs. Of a block of 256 x 256 words the second codec
   is given up to 98304, no assertion objects, and the residuals run over `s_res`,
   which "covers the maximum supported block size".

Others that were met while modelling, told here because they need no state space:

- A FoR codec with separate metadata that is not part of a composite reports its
  size without the metadata (`custom_unvec_logic_codecs_u16.h:155`, against the
  comment at 100-101).
- An int32 composite whose second codec threw keeps the words in its first codec,
  as `BenchAndVerify` returns before it resets the object (`bench_comp.cpp:52`). The
  next block of a delta codec is then recorded with the size of both and decoded
  wrongly, although `bench_utils.h:653` calls `cf` the encoded over the original
  bytes. `OverwritingIsHonest` and `UnharmedIsHonest` say which records are right.
- `TRACE` lines and the size of the vectorised run lengths, above.
- The partial round of a wrapped sampling is meant to be spread
  (`bench_utils.h:797-800`), but its interval is 1 when more than half of the
  blocks remain, which concentrates it at the start of the raster.
- `bench_comp.cpp:265` compares a clamped pixel with a nodata value that was
  converted modulo 2^16, so in an Int16 band without negative data a negative
  nodata value is not counted for `--max-nodata-pct` (422-423). The second named
  case of `raster_preparation`.
- The comment at `composite_codec.h:55` says that the intermediate array is
  restored; behind a fused second codec it holds two halves of a sum. The
  properties of the composite exclude those cascades explicitly.
- `assert(gw % lw == 0)` of hierarchical FoR (269) is about the constructor's
  windows but evaluated on windows clamped to the block; the runs give it blocks
  it accepts.

## Not modelled

- *GDAL, options, CSV output, timers*: input and output without state of interest.
- *SIMD kernels and vendored libraries*: bit packing and intrinsics; modelled from
  their use, as blocks that are packed, unpacked and added up lane by lane. The
  exceptions of FastPFor are left out, and plain physical codecs are codecs that
  restore, in a composite and in the pipeline.
- *The int32 path of the multithreaded pipeline* is that of the single-threaded one,
  statement by statement: one thread, `SequentialPipeline`.
- *The two-band pipeline*: `RunStaticReps2Band` repeats the barrier of
  `RunStaticRepsU16`, with the same slices, samples and merge, over pairs of blocks,
  so that `StaticReps` and its theorems speak of its control too. New is the `result`
  it reports: the sum the workers published in the last timed repetition, 0 if all
  are warm-up. Its kernels are external code. It takes every codec but direct access for a
  `SimdCompFusedCodecU16` by a `static_cast`, which is true of the two names the option
  documents, and with `--normalize` it computes the index of the normalised bands.
- *The `Recip` access transformations*, whose result is a float nobody reports, and
  the arithmetic of `RunningStats` and `RepMedian` on doubles.
- *Byte and image codecs*: a buffer that a library fills.
- *Parity and micro benchmarks, tests*: programs that compare kernels.
- Exceptions that leave `RunBenchConfig`, out-of-memory, thread creation failure.

## Plan

Done, in the order in which the modules were written:

1. Pools: `GridSlices`, `StaticReps`, `AccessPool`, abstract `RepRounds`, proofs.
   Codecs: `Words`, the uint16_t operators, `LogicalCodecObject`, `PredictLoop`,
   `CompositeCodec` over them, abstract `BlockStore`, proofs. Preparation and
   sampling. The compression benchmark over `CodecsI32`.
2. Fused sums: `FusedSumU16`, `FusedClassesU16`, `FusedCodecs`, proofs.
3. Vectorised codecs, access transformations and remappings; the single-threaded
   pipeline, which composes them with the sampling; proofs of the sampling and of
   the pipeline's grid, samples and ratio.
4. Proofs of the pipeline's types and traced numbers, of raster preparation and of the
   fused sums, for all widths, rasters, nodata values and blocks.
5. Proofs of the round trips of every codec, class by class; of the life of an object;
   of what `CompressionBenchmark` says of errors.

Left:

6. The two-band pipeline as a second user of the barrier: `StaticReps` with what a
   worker accumulates as a parameter.
7. The int32_t fused codecs, as classes of `FusedClassesU16` over 32-bit words.
