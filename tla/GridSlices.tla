----------------------------- MODULE GridSlices ----------------------------
(***************************************************************************)
(* How the uint16_t benchmarks of bench_pipeline_multithread divide a grid *)
(* of codecs among their workers, and what a worker measures: each owns a  *)
(* contiguous slice of the (possibly shuffled) access order.               *)
(*                                                                         *)
(* A duration is the set of the measurements it sums: one <<rep, worker,   *)
(* block>> per decoded block.                                              *)
(***************************************************************************)
EXTENDS Integers

CONSTANTS NumThreads,     \* X
          NumBlocks,      \* codecs.size()
          NumReps,        \* numReps; a negative argument behaves like 0
          NumSkip,        \* numSkip; a negative argument behaves like 0
          AccessIndexes   \* accessIndexes: the identity, or a shuffle of it

Threads == 0 .. NumThreads - 1
Blocks  == 0 .. NumBlocks - 1

ASSUME ThreadsAssumption == NumThreads \in Nat \ {0}   \* std::max(1, gNumThreads)
ASSUME BlocksAssumption  == NumBlocks \in Nat \ {0}    \* an empty grid never gets here
ASSUME RepsAssumption    == NumReps \in Nat /\ NumSkip \in Nat
ASSUME OrderAssumption   ==                            \* a permutation of the blocks
  /\ AccessIndexes \in [Blocks -> Blocks]
  /\ \A i, j \in Blocks : AccessIndexes[i] = AccessIndexes[j] => i = j
  /\ \A b \in Blocks : \E i \in Blocks : AccessIndexes[i] = b

(***************************************************************************)
(* The slices: per = total / X blocks each, the last takes the remainder.  *)
(***************************************************************************)
Per   == NumBlocks \div NumThreads
Lo(t) == t * Per
\* (Mutant: slices that overlap by one block.)
HiOverlapping(t) == IF t = NumThreads - 1 THEN NumBlocks ELSE Lo(t) + Per + 1
Hi(t) == IF t = NumThreads - 1 THEN NumBlocks ELSE Lo(t) + Per

\* What worker t measures in repetition rep by decoding its slice up to index i.
Measured(t, rep, i) == {<<rep, t, AccessIndexes[j]>> : j \in Lo(t) .. i - 1}

Timed(rep) == rep >= NumSkip

============================================================================
