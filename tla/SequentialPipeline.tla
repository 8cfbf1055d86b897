------------------------- MODULE SequentialPipeline ------------------------
(***************************************************************************)
(* bench_pipeline, which one thread executes: RunOneCombination and        *)
(* RunOneCombinationU16 with SplitIntoFullBlocks(U16) and                  *)
(* BenchmarkAccess(U16).  The sampled blocks are encoded into a grid of    *)
(* codecs; a repetition decodes them one after the other into one buffer   *)
(* (or takes a direct codec's own vector), applies the access              *)
(* transformation and, if that changes words, replaces the codec by a new  *)
(* one.  Sampling is that of BlockSampling, step by step.                  *)
(*                                                                         *)
(* A codec is known by what its DecodeArray writes: "values" restores the  *)
(* words and may use the overflow words behind them for itself; "both"     *)
(* puts their sum there (the int32_t fused codecs); "sum" writes the sum   *)
(* only (the uint16_t ones); "garbled" is a composite whose second codec   *)
(* is fused, "direct" the codec that keeps the words as they are.          *)
(***************************************************************************)
EXTENDS AccessTransformations, RasterSizes

CONSTANTS Combos(_, _, _),    \* what is run on a raster for a request
          Pixels(_, _, _),    \* the words of a block, once they are prepared
          Scratch,            \* words a codec may leave where it restores none
          Shuffles(_)         \* the orders std::shuffle may give

\* 256 * 256 is 2^16.
ASSUME BlockAssumption == \A s \in BlockSizes : MaxClasses <= s * s /\ s * s <= WordSize

\* What may be run on a raster of the instance.
Runs == UNION {Combos(w * h, r, s) : w \in Sides, h \in Sides, r \in Requests, s \in BlockSizes}

ASSUME CombosAssumption ==
  \A c \in Runs :
    /\ c.path \in {"int32", "uint16"}
    /\ c.numReps \in Nat /\ c.numSkip \in Nat
    /\ c.base.kind \in {"direct", "values", "both", "sum", "garbled"}
    /\ c.base.overflow \in Nat
    /\ c.base.kind \in {"both", "sum"} => c.base.overflow >= 2   \* GetOverflowSize
    /\ c.ordering \in {"default", "zigzag", "morton"}
    /\ c.initTrans = "none" \/ AccessTransformationMutatesData(c.initTrans)

ASSUME PixelsAssumption ==
  \A raster \in {c.raster : c \in Runs}, s \in BlockSizes, w \in Sides, h \in Sides :
    \A column \in 0 .. w - 1, row \in 0 .. h - 1 :
      Pixels(raster, [x |-> column * s, y |-> row * s], s * s) \in [1 .. s * s -> Word]

ASSUME ScratchAssumption == Scratch \subseteq Word

ASSUME ShufflesAssumption == \A k \in Requests : Shuffles(k) \subseteq Bijection(1 .. k, 1 .. k)

VARIABLES blocksInWidth, blocksInHeight, blockSize, numBlocks, requested, allow_wrap,
          offsets, wrapPush, blockNum, sampled, samplingPc,   \* SampleBlockOffsets
          combo,           \* the combination and its codecs
          accessIndexes,
          codecs,          \* the grid: [codec, words], by block index
          rep,
          pos,             \* how many blocks of the repetition are done
          isDirectAccess,
          decbuf,
          kLinearSumSink,
          traced,          \* the last TRACE line
          stats,           \* statsDec, statsTrans, statsEnc: the measurements
          prev,            \* the totals before the repetition
          med,             \* medDec, medTrans, medEnc: a sample per repetition
          meanCompRatio,   \* the grid it is computed of
          pc

samplingVars == <<blocksInWidth, blocksInHeight, blockSize, numBlocks, requested,
                  allow_wrap, offsets, wrapPush, blockNum, sampled, samplingPc>>
accessVars == <<accessIndexes, codecs, pos, isDirectAccess, decbuf, kLinearSumSink, traced>>
statVars   == <<stats, prev, med, meanCompRatio>>
vars == <<samplingVars, combo, rep, accessVars, statVars, pc>>

Sampling == INSTANCE BlockSampling WITH i <- wrapPush, pc <- samplingPc

None  == <<>>
n     == blockSize * blockSize
Kinds == {"dec", "trans", "enc"}

Init ==
  /\ Sampling!Init
  /\ combo \in IF allow_wrap THEN Combos(Sampling!totalBlocks, requested, blockSize) ELSE {None}
  /\ accessIndexes = None
  /\ codecs = None
  /\ rep = 0
  /\ pos = 0
  /\ isDirectAccess = FALSE
  /\ decbuf = None
  /\ kLinearSumSink \in Scratch      \* as the combination before has left it
  /\ traced = None
  /\ stats = [k \in Kinds |-> {}]
  /\ prev = [k \in Kinds |-> {}]
  /\ med = [k \in Kinds |-> <<>>]
  /\ meanCompRatio = None
  /\ pc = "sample"

\* SampleBlockOffsets; the calls that may not wrap are bench_comp's.
Sample ==
  /\ pc = "sample"
  /\ \/ Sampling!Start \/ Sampling!PushWrap \/ Sampling!EndWraps
     \/ Sampling!PushSample \/ Sampling!EndSamples
  /\ UNCHANGED <<combo, rep, accessVars, statVars, pc>>

\* The words of the block at an offset, as they are encoded; the uint16_t
\* path neither orders nor transforms them.
Prepared(o) ==
  LET b == Pixels(combo.raster, o, n)
  IN  IF combo.path = "uint16" THEN b
      ELSE ApplyTransformation(ApplyOrdering(b, combo.ordering, blockSize), combo.initTrans)

SplitIntoFullBlocks == [k \in DOMAIN offsets |-> [codec |-> combo.base, words |-> Prepared(offsets[k])]]

RemapThrows == combo.path = "int32" /\ combo.ordering = "morton" /\ ~MortonFits(blockSize)

dataChange == AccessTransformationMutatesData(combo.accessTrans)
staticGrid == combo.path = "uint16" /\ ~dataChange

\* The grid that all repetitions share, if there is one; the ratio is that of
\* this grid.
Begin ==
  /\ pc = "sample"
  /\ samplingPc = "done" /\ allow_wrap
  /\ accessIndexes' \in IF combo.pattern = "linear" THEN {[k \in DOMAIN offsets |-> k]}
                        ELSE Shuffles(Len(offsets))
  /\ codecs' = IF staticGrid THEN SplitIntoFullBlocks ELSE None
  /\ meanCompRatio' = codecs'
  /\ pc' = "rep"
  /\ UNCHANGED <<samplingVars, combo, rep, pos, isDirectAccess, decbuf, kLinearSumSink,
                 traced, stats, prev, med>>

\* (Mutant: the grid is built for the first repetition only.)
StartRepOnOldGrid ==
  /\ pc = "rep"
  /\ rep < combo.numReps
  /\ staticGrid \/ ~RemapThrows
  /\ codecs' = IF rep > 0 \/ staticGrid THEN codecs ELSE SplitIntoFullBlocks
  /\ meanCompRatio' = IF combo.path = "uint16" /\ rep = 0 THEN codecs' ELSE meanCompRatio
  /\ isDirectAccess' = (codecs'[1].codec.kind = "direct")
  /\ decbuf' = [k \in 1 .. n + codecs'[1].codec.overflow |-> 0]
  /\ pos' = 0
  /\ prev' = stats
  /\ pc' = "access"
  /\ UNCHANGED <<samplingVars, combo, accessIndexes, rep, kLinearSumSink, traced, stats, med>>

\* A repetition, up to the loop of BenchmarkAccess: a grid of its own, unless
\* it is shared, and a buffer as large as the first codec needs it.
StartRep ==
  /\ pc = "rep"
  /\ rep < combo.numReps
  /\ staticGrid \/ ~RemapThrows
  /\ codecs' = IF staticGrid THEN codecs ELSE SplitIntoFullBlocks
  /\ meanCompRatio' = IF combo.path = "uint16" /\ rep = 0 THEN codecs' ELSE meanCompRatio
  /\ isDirectAccess' = (codecs'[1].codec.kind = "direct")
  /\ decbuf' = [k \in 1 .. n + codecs'[1].codec.overflow |-> 0]
  /\ pos' = 0
  /\ prev' = stats
  /\ pc' = "access"
  /\ UNCHANGED <<samplingVars, combo, accessIndexes, rep, kLinearSumSink, traced, stats, med>>

\* RemapToMortonOrder throws std::out_of_range, which nobody catches.
Throw ==
  /\ pc = "rep"
  /\ rep < combo.numReps
  /\ RemapThrows
  /\ pc' = "throw"
  /\ UNCHANGED <<samplingVars, combo, rep, accessVars, statVars>>

\* What a codec may make of the buffer.
Decoded(c, buf) ==
  LET sum  == SumOfWords(c.words, 1 .. n)
      half == <<sum % WordSize, (sum \div WordSize) % WordSize>>
  IN  CASE c.codec.kind = "values"  ->
             {[k \in DOMAIN buf |-> IF k <= n THEN c.words[k] ELSE w] : w \in Scratch}
        [] c.codec.kind = "both"    ->
             {[k \in DOMAIN buf |-> IF k <= n THEN c.words[k]
                                    ELSE IF k <= n + 2 THEN half[k - n] ELSE buf[k]]}
        [] c.codec.kind = "sum"     ->
             {[k \in DOMAIN buf |-> IF k \in n + 1 .. n + 2 THEN half[k - n] ELSE buf[k]]}
        [] c.codec.kind = "garbled" ->
             {[k \in DOMAIN buf |-> IF k <= n THEN w ELSE buf[k]] : w \in Scratch}
        [] c.codec.kind = "direct"  -> {buf}

\* What the access transformation may make of it: a word that is read behind
\* the end of a vector may be anything.
Accessed(buf) ==
  IF n + ReadsBehind(combo.path, combo.accessTrans) <= Len(buf)
  THEN {ApplyAccessTransformation(combo.path, combo.accessTrans, buf, n, kLinearSumSink)}
  ELSE {[data |-> buf, sink |-> w] : w \in Scratch}

Measured(b) ==
  [k \in Kinds |->
    IF rep < combo.numSkip \/ (k = "enc" /\ ~dataChange) THEN stats[k]
    ELSE stats[k] \cup {<<rep, pos, b>>}]

\* benchblock.
AccessBlock ==
  /\ pc = "access"
  /\ pos < Len(codecs)
  /\ LET b == accessIndexes[pos + 1]
     IN  \E buf \in IF isDirectAccess THEN {codecs[b].words} ELSE Decoded(codecs[b], decbuf) :
         \E r \in Accessed(buf) :
           /\ kLinearSumSink' = r.sink
           /\ traced' = [block |-> b, sum |-> r.sink]
           /\ decbuf' = IF isDirectAccess THEN decbuf ELSE r.data
           /\ codecs' = IF dataChange
                        THEN [codecs EXCEPT ![b] = [codec |-> combo.access,
                                                    words |-> SubSeq(r.data, 1, n)]]
                        ELSE codecs
           /\ stats' = Measured(b)
  /\ pos' = pos + 1
  /\ UNCHANGED <<samplingVars, combo, accessIndexes, rep, isDirectAccess, prev, med,
                 meanCompRatio, pc>>

\* (Mutant: one repetition too many is warm-up for the samples.)
EndRepSkipsOneMore ==
  /\ pc = "access"
  /\ pos = Len(codecs)
  /\ med' = IF rep <= combo.numSkip THEN med
            ELSE [k \in Kinds |-> Append(med[k], stats[k] \ prev[k])]
  /\ rep' = rep + 1
  /\ pc' = "rep"
  /\ UNCHANGED <<samplingVars, combo, accessVars, stats, prev, meanCompRatio>>

\* (Mutant: the ratio is computed after the blocks have been accessed.)
EndRepWithRatio ==
  /\ pc = "access"
  /\ pos = Len(codecs)
  /\ med' = IF rep < combo.numSkip THEN med
            ELSE [k \in Kinds |-> Append(med[k], stats[k] \ prev[k])]
  /\ meanCompRatio' = IF combo.path = "uint16" THEN codecs ELSE meanCompRatio
  /\ rep' = rep + 1
  /\ pc' = "rep"
  /\ UNCHANGED <<samplingVars, combo, accessVars, stats, prev>>

\* What the totals have grown by is the sample of a timed repetition.
EndRep ==
  /\ pc = "access"
  /\ pos = Len(codecs)
  /\ med' = IF rep < combo.numSkip THEN med
            ELSE [k \in Kinds |-> Append(med[k], stats[k] \ prev[k])]
  /\ rep' = rep + 1
  /\ pc' = "rep"
  /\ UNCHANGED <<samplingVars, combo, accessVars, stats, prev, meanCompRatio>>

Report ==
  /\ pc = "rep"
  /\ rep >= combo.numReps
  /\ pc' = "done"
  /\ UNCHANGED <<samplingVars, combo, rep, accessVars, statVars>>

Finished ==
  /\ \/ pc \in {"done", "throw"}
     \/ pc = "sample" /\ (samplingPc = "trap" \/ (samplingPc = "done" /\ ~allow_wrap))
  /\ UNCHANGED vars

Next ==
  \/ Sample \/ Begin \/ StartRep \/ Throw \/ AccessBlock \/ EndRep \/ Report \/ Finished

Spec == Init /\ [][Next]_vars

----------------------------------------------------------------------------
InGrid == DOMAIN offsets
Running == pc \in {"access", "rep", "done"} /\ codecs # None

\* A grid of as many codecs as there are offsets, visited by a permutation; a
\* buffer whose length does not depend on what is decoded into it.
TypeOK ==
  /\ Sampling!TypeOK
  /\ pc \in {"sample", "rep", "access", "done", "throw"}
  /\ rep \in Nat /\ pos \in 0 .. Len(offsets)
  /\ Running =>
       /\ DOMAIN codecs = InGrid
       /\ \A b \in InGrid : codecs[b].words \in [1 .. n -> Word]
       /\ {accessIndexes[k] : k \in InGrid} = InGrid /\ Len(accessIndexes) = Len(offsets)
       /\ decbuf = None \/ decbuf \in [1 .. n + combo.base.overflow -> Word]
  /\ traced # None => traced.block \in InGrid /\ traced.sum \in 0 .. WordSize * WordSize - 1

\* "(no repetition ...)"; the offsets change while they are sampled only.
NoRepetition == pc = "sample" => Sampling!NoRepetition

\* "working sets larger than the raster itself".
Balanced == pc = "sample" => Sampling!Balanced

\* The words of a block, as they are encoded, and the raster's own: an ordering
\* must be a permutation of them.
Block(b)  == Prepared(offsets[b])
Source(b) == IF combo.initTrans = "none" THEN Pixels(combo.raster, offsets[b], n) ELSE Block(b)

\* The number an access transformation is named for.
TrueNumber(b) ==
  LET words == AllOf(Source(b))
      total == SumOfWords(Source(b), 1 .. n)
  IN  CASE combo.accessTrans = "linearMin" -> Min(words)
        [] combo.accessTrans = "linearMax" -> Max(words)
        [] combo.accessTrans \in {"linearCountGtFxP", "linearCountGtFP"} ->
             Cardinality({k \in 1 .. n : Source(b)[k] > CountThreshold})
        [] OTHER -> IF combo.path = "uint16" THEN total ELSE total % WordSize

BaseGives(kinds) == combo.base.kind \in kinds

\* The transformation has a number on this path and the codec gives it what it
\* reads: its own sum, or the words of the block, for the multiply-add signed.
Paired ==
  /\ combo.accessTrans \in
       {"linearSum", "linearSumSimd", "linearSumFused"} \cup
       (IF combo.path = "uint16"
        THEN {"linearSumSimdUnpack", "linearMin", "linearMax", "linearCountGtFxP", "linearCountGtFP"}
        ELSE {})
  /\ IF combo.accessTrans = "linearSumFused" THEN BaseGives({"sum", "both"})
     ELSE BaseGives({"direct", "values", "both"})
  /\ (combo.path = "uint16" /\ combo.accessTrans = "linearSumSimd") =>
       \A b \in InGrid : AllOf(Source(b)) \subseteq 0 .. Half - 1

\* scripts/verify_sums.py "diffs the per-block sums": a TRACE line gives the
\* number of its own block, in whatever order, through whichever codec and
\* however often the blocks are accessed.
TraceIsTrue == (traced # None /\ Paired) => traced.sum = TrueNumber(traced.block)

\* What one access makes of the words of a block.
Changed(b) ==
  IF combo.path = "uint16" THEN Block(b) ELSE ApplyTransformation(Block(b), combo.accessTrans)

\* In every repetition each block is decoded from its base codec and changed
\* once, be it the first or the last.  With a codec that needs room behind the
\* block, this holds of ValueShift only, which does not look at other words.
GridIsTrue ==
  (pc = "access" /\ BaseGives({"direct", "values", "both"})) =>
    \A k \in InGrid :
      LET b == accessIndexes[k]
      IN  IF dataChange /\ k <= pos
          THEN (combo.path = "uint16" \/ combo.base.overflow = 0 \/ combo.accessTrans = "ValueShift")
                 => codecs[b] = [codec |-> combo.access, words |-> Changed(b)]
          ELSE codecs[b] = [codec |-> combo.base, words |-> Block(b)]

Visited(s) == {m[3] : m \in s}

\* The sample of a timed repetition accounts for each block of the grid once
\* and for nothing of another repetition; the totals are those of the samples.
SamplesAreRepetitions ==
  \A kind \in Kinds :
    LET timed == IF rep > combo.numSkip THEN rep - combo.numSkip ELSE 0
    IN  pc \in {"rep", "done"} =>
          /\ Len(med[kind]) = timed
          /\ stats[kind] = UNION {med[kind][k] : k \in 1 .. timed}
          /\ (kind = "enc" => dataChange) =>
               \A k \in 1 .. timed :
                 /\ Visited(med[kind][k]) = InGrid /\ Cardinality(med[kind][k]) = Len(offsets)
                 /\ \A m \in med[kind][k] : m[1] = combo.numSkip + k - 1

\* The ratio that is reported is the base codec's, though the blocks of the
\* grid are re-encoded by another one.
RatioIsOfBase ==
  /\ meanCompRatio # None =>
       meanCompRatio = [b \in InGrid |-> [codec |-> combo.base, words |-> Block(b)]]
  /\ (pc = "done" /\ combo.path = "uint16" /\ (staticGrid \/ combo.numReps > 0)) =>
       meanCompRatio # None

============================================================================
