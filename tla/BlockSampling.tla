---------------------------- MODULE BlockSampling --------------------------
(***************************************************************************)
(* SampleBlockOffsets of bench_utils: which blocks of a raster a benchmark *)
(* reads.  If there are more blocks than are asked for, they are sampled   *)
(* at a constant interval in raster order; if there are fewer, the raster  *)
(* is visited over and over (allow_wrap), and the rest is sampled again.   *)
(* One push of its loops is one step.                                      *)
(***************************************************************************)
EXTENDS RasterSizes, Sequences, FiniteSets

VARIABLES blocksInWidth, blocksInHeight, blockSize,
          numBlocks,       \* capped, when the raster may not be wrapped
          requested,       \* numBlocks as the caller gave it
          allow_wrap,
          offsets,         \* the result so far
          i,               \* full wraps: the next push, counted over all wraps
          blockNum,        \* sampling: the next block in raster order
          sampled,         \* sampling: the blocks sampled
          pc               \* "start", "wrap", "sample", "done" or "trap"

inputs == <<blocksInWidth, blocksInHeight, blockSize, requested, allow_wrap>>
vars   == <<inputs, numBlocks, offsets, i, blockNum, sampled, pc>>

totalBlocks == blocksInWidth * blocksInHeight

\* What is sampled at an interval: everything, or what the full wraps leave.
fullWraps == IF numBlocks <= totalBlocks THEN 0 ELSE numBlocks \div totalBlocks
goal      == numBlocks - fullWraps * totalBlocks

\* std::max(1, totalBlocks / goal)
sampleInterval == IF totalBlocks \div goal > 1 THEN totalBlocks \div goal ELSE 1

\* (Mutant: rows are counted by the raster's height.)
OffsetByHeight(blockIndex) == [x |-> (blockIndex % blocksInWidth) * blockSize,
                               y |-> (blockIndex \div blocksInHeight) * blockSize]

Offset(blockIndex) == [x |-> (blockIndex % blocksInWidth) * blockSize,
                       y |-> (blockIndex \div blocksInWidth) * blockSize]

Init ==
  /\ blocksInWidth \in Sides
  /\ blocksInHeight \in Sides
  /\ blockSize \in BlockSizes
  /\ requested \in Requests
  /\ allow_wrap \in BOOLEAN
  /\ numBlocks = requested
  /\ offsets = <<>>
  /\ i = 0
  /\ blockNum = 0
  /\ sampled = 0
  /\ pc = "start"

\* The cap, and the choice between the two cases.  totalBlocks / numBlocks and
\* numBlocks / totalBlocks trap for an empty sample and for an empty raster.
Start ==
  /\ pc = "start"
  /\ numBlocks' = IF ~allow_wrap /\ totalBlocks < requested THEN totalBlocks ELSE requested
  /\ pc' = IF numBlocks' = 0 \/ totalBlocks = 0 THEN "trap"
           ELSE IF numBlocks' <= totalBlocks THEN "sample" ELSE "wrap"
  /\ UNCHANGED <<inputs, offsets, i, blockNum, sampled>>

\* Full wraps: every block, in raster order.
PushWrap ==
  /\ pc = "wrap"
  /\ i < fullWraps * totalBlocks
  /\ offsets' = Append(offsets, Offset(i % totalBlocks))
  /\ i' = i + 1
  /\ UNCHANGED <<inputs, numBlocks, blockNum, sampled, pc>>

EndWraps ==
  /\ pc = "wrap"
  /\ i >= fullWraps * totalBlocks
  /\ pc' = IF goal > 0 THEN "sample" ELSE "done"
  /\ UNCHANGED <<inputs, numBlocks, offsets, i, blockNum, sampled>>

\* (Mutant: the interval is rounded up.)
PushSampleRoundedUp ==
  /\ pc = "sample"
  /\ sampled < goal
  /\ offsets' = Append(offsets, Offset(blockNum % totalBlocks))
  /\ blockNum' = blockNum + (totalBlocks + goal - 1) \div goal
  /\ sampled' = sampled + 1
  /\ UNCHANGED <<inputs, numBlocks, i, pc>>

\* (Mutant: the loop ends one sample late.)
PushSampleOnceMore ==
  /\ pc = "sample"
  /\ sampled <= goal
  /\ offsets' = Append(offsets, Offset(blockNum % totalBlocks))
  /\ blockNum' = blockNum + sampleInterval
  /\ sampled' = sampled + 1
  /\ UNCHANGED <<inputs, numBlocks, i, pc>>

\* The sampling loop of either case.
PushSample ==
  /\ pc = "sample"
  /\ sampled < goal
  /\ offsets' = Append(offsets, Offset(blockNum % totalBlocks))
  /\ blockNum' = blockNum + sampleInterval
  /\ sampled' = sampled + 1
  /\ UNCHANGED <<inputs, numBlocks, i, pc>>

EndSamples ==
  /\ pc = "sample"
  /\ sampled >= goal
  /\ pc' = "done"
  /\ UNCHANGED <<inputs, numBlocks, offsets, i, blockNum, sampled>>

Returned == pc \in {"done", "trap"} /\ UNCHANGED vars

Next == Start \/ PushWrap \/ EndWraps \/ PushSample \/ EndSamples \/ Returned

Spec == Init /\ [][Next]_vars

----------------------------------------------------------------------------
\* The raster's block b, in raster order, as the caller reads it.
Blocks    == 0 .. totalBlocks - 1
Corner(b) ==
  CHOOSE c \in [x : {column * blockSize : column \in 0 .. blocksInWidth - 1},
                y : {row * blockSize : row \in 0 .. blocksInHeight - 1}] :
     (c.y \div blockSize) * blocksInWidth + (c.x \div blockSize) = b

\* Every offset is the corner of a whole block that lies in the raster.
TypeOK ==
  /\ blocksInWidth \in Sides /\ blocksInHeight \in Sides /\ blockSize \in BlockSizes
  /\ requested \in Requests /\ numBlocks \in Nat
  /\ allow_wrap \in BOOLEAN
  /\ \A k \in DOMAIN offsets :
       \E column \in 0 .. blocksInWidth - 1, row \in 0 .. blocksInHeight - 1 :
          offsets[k] = [x |-> column * blockSize, y |-> row * blockSize]
  /\ i \in Nat /\ blockNum \in Nat /\ sampled \in Nat
  /\ pc \in {"start", "wrap", "sample", "done", "trap"}

\* "If numBlocks <= totalBlocks: ... (no repetition ...)": no block is sampled
\* twice, though the interval is rounded down and the index taken modulo the
\* raster.
NoRepetition ==
  numBlocks <= totalBlocks =>
    \A j, k \in DOMAIN offsets : offsets[j] = offsets[k] => j = k

Visits(b) == Cardinality({k \in DOMAIN offsets : offsets[k] = Corner(b)})

\* "working sets larger than the raster itself": the caller gets as many blocks
\* as it asked for, unless it forbade to wrap; the wraps and the partial wrap
\* together visit no block twice more than another.
Balanced ==
  pc = "done" =>
    /\ Len(offsets) = IF allow_wrap \/ requested <= totalBlocks THEN requested ELSE totalBlocks
    /\ \A b, c \in Blocks : Visits(b) <= Visits(c) + 1

============================================================================
