----------------------------- MODULE StaticReps ----------------------------
(***************************************************************************)
(* RunStaticRepsU16 of bench_pipeline_multithread: a pool of X workers,    *)
(* spawned once, decodes a static grid numReps times in lockstep.  The     *)
(* main thread opens repetition r by storing r in goRep and waits until    *)
(* doneCount has counted every worker; workers spin on goRep.  Each worker *)
(* owns a contiguous slice of the (possibly shuffled) access order.        *)
(*                                                                         *)
(* Abstractions.  A duration is the set of the measurements it sums: one   *)
(* <<rep, worker, block>> per decoded block.  The decode time and the time *)
(* of the access transformation follow the same path statement by          *)
(* statement (rd/rt, tDec/tTrans, repDec/repTrans, medDec/medTrans), so    *)
(* one accumulator stands for both.  goRep and doneCount are atomics, so   *)
(* each of their accesses is one step; what a worker does to its own       *)
(* buffer, codec and accumulators for one block is one step.               *)
(***************************************************************************)
EXTENDS GridSlices, Sequences, FiniteSets

VARIABLES goRep,      \* the repetition that is open, -1 at first
          doneCount,  \* workers that have signalled
          wpc,        \* per worker: "spin", "decode", "signal" or "exit"
          myRep,      \* per worker: its loop counter
          pos,        \* per worker: i, the next index of its slice
          rd,         \* per worker: the sums of this repetition so far
          tDec,       \* per worker: its own RunningStats (timed decodes only)
          repDec,     \* per worker: the sums it published last
          mpc,        \* main: "loop", "release", "wait", "collect" or "done"
          r,          \* main: its loop counter
          med,        \* RepMedian: the sample of each timed repetition
          stats       \* the merged RunningStats

workerVars == <<wpc, myRep, pos, rd, tDec, repDec>>
mainVars   == <<mpc, r, med, stats>>
vars       == <<goRep, doneCount, workerVars, mainVars>>

Init ==
  /\ goRep = -1
  /\ doneCount = 0
  /\ wpc    = [t \in Threads |-> IF NumReps > 0 THEN "spin" ELSE "exit"]
  /\ myRep  = [t \in Threads |-> 0]
  /\ pos    = [t \in Threads |-> Lo(t)]
  /\ rd     = [t \in Threads |-> {}]
  /\ tDec   = [t \in Threads |-> {}]
  /\ repDec = [t \in Threads |-> {}]
  /\ mpc = "loop"
  /\ r = 0
  /\ med = <<>>
  /\ stats = {}

(***************************************************************************)
(* Workers.                                                                *)
(***************************************************************************)

\* goRep.load() == myRep: the worker leaves the spin loop and zeroes its sums.
Go(t) ==
  /\ wpc[t] = "spin"
  /\ goRep = myRep[t]
  /\ wpc' = [wpc EXCEPT ![t] = "decode"]
  /\ pos' = [pos EXCEPT ![t] = Lo(t)]
  /\ rd'  = [rd EXCEPT ![t] = {}]
  /\ UNCHANGED <<goRep, doneCount, myRep, tDec, repDec, mainVars>>

\* (Mutant: warm-up decodes reach the worker's statistics.)
DecodeBlockAlwaysTimed(t) ==
  LET m == <<myRep[t], t, AccessIndexes[pos[t]]>> IN
  /\ wpc[t] = "decode"
  /\ pos[t] < Hi(t)
  /\ rd'   = [rd EXCEPT ![t] = @ \cup {m}]
  /\ tDec' = [tDec EXCEPT ![t] = @ \cup {m}]
  /\ pos'  = [pos EXCEPT ![t] = @ + 1]
  /\ UNCHANGED <<goRep, doneCount, wpc, myRep, repDec, mainVars>>

\* DecodeArray and ApplyAccessTransformation on the block at index i.
DecodeBlock(t) ==
  LET m == <<myRep[t], t, AccessIndexes[pos[t]]>> IN
  /\ wpc[t] = "decode"
  /\ pos[t] < Hi(t)
  /\ rd'   = [rd EXCEPT ![t] = @ \cup {m}]
  /\ tDec' = [tDec EXCEPT ![t] = IF Timed(myRep[t]) THEN @ \cup {m} ELSE @]
  /\ pos'  = [pos EXCEPT ![t] = @ + 1]
  /\ UNCHANGED <<goRep, doneCount, wpc, myRep, repDec, mainVars>>

\* The slice is finished: repDec[t] = rd (and repTrans[t] = rt).
Publish(t) ==
  /\ wpc[t] = "decode"
  /\ pos[t] >= Hi(t)
  /\ repDec' = [repDec EXCEPT ![t] = rd[t]]
  /\ wpc'    = [wpc EXCEPT ![t] = "signal"]
  /\ UNCHANGED <<goRep, doneCount, myRep, pos, rd, tDec, mainVars>>

\* doneCount.fetch_add(1), then the loop increment and test.
Signal(t) ==
  /\ wpc[t] = "signal"
  /\ doneCount' = doneCount + 1
  /\ myRep' = [myRep EXCEPT ![t] = @ + 1]
  /\ wpc'   = [wpc EXCEPT ![t] = IF myRep[t] + 1 < NumReps THEN "spin" ELSE "exit"]
  /\ UNCHANGED <<goRep, pos, rd, tDec, repDec, mainVars>>

Worker(t) == Go(t) \/ DecodeBlock(t) \/ Publish(t) \/ Signal(t)

(***************************************************************************)
(* The main thread.                                                        *)
(***************************************************************************)

\* (Mutant: the count of the repetition before is not reset.)
ResetDoneForgotten ==
  /\ mpc = "loop"
  /\ r < NumReps
  /\ mpc' = "release"
  /\ UNCHANGED <<goRep, doneCount, workerVars, r, med, stats>>

\* doneCount.store(0)
ResetDone ==
  /\ mpc = "loop"
  /\ r < NumReps
  /\ doneCount' = 0
  /\ mpc' = "release"
  /\ UNCHANGED <<goRep, workerVars, r, med, stats>>

\* (Mutant: the count is reset after the workers have been released.)
ReleaseThenReset ==
  /\ mpc = "release"
  /\ goRep' = r
  /\ IF goRep # r THEN UNCHANGED <<mpc, doneCount>> ELSE mpc' = "wait" /\ doneCount' = 0
  /\ UNCHANGED <<workerVars, r, med, stats>>

\* goRep.store(r)
Release ==
  /\ mpc = "release"
  /\ goRep' = r
  /\ mpc' = "wait"
  /\ UNCHANGED <<doneCount, workerVars, r, med, stats>>

\* (Mutant: main does not wait for the last worker.)
SeeAlmostAllDone ==
  /\ mpc = "wait"
  /\ doneCount >= NumThreads - 1
  /\ mpc' = "collect"
  /\ UNCHANGED <<goRep, doneCount, workerVars, r, med, stats>>

\* doneCount.load() == X: main leaves its spin loop.
SeeAllDone ==
  /\ mpc = "wait"
  /\ doneCount = NumThreads
  /\ mpc' = "collect"
  /\ UNCHANGED <<goRep, doneCount, workerVars, r, med, stats>>

\* (Mutant: one warm-up repetition too many is dropped.)
CollectAfterSkip ==
  /\ mpc = "collect"
  /\ med' = IF r > NumSkip THEN Append(med, UNION {repDec[t] : t \in Threads}) ELSE med
  /\ r' = r + 1
  /\ mpc' = "loop"
  /\ UNCHANGED <<goRep, doneCount, workerVars, stats>>

\* Sum the published sums and push the sample, after the warm-up; next r.
Collect ==
  /\ mpc = "collect"
  /\ med' = IF Timed(r) THEN Append(med, UNION {repDec[t] : t \in Threads}) ELSE med
  /\ r' = r + 1
  /\ mpc' = "loop"
  /\ UNCHANGED <<goRep, doneCount, workerVars, stats>>

\* join() every worker, then merge their statistics.
JoinAndMerge ==
  /\ mpc = "loop"
  /\ r >= NumReps
  /\ \A t \in Threads : wpc[t] = "exit"
  /\ stats' = UNION {tDec[t] : t \in Threads}
  /\ mpc' = "done"
  /\ UNCHANGED <<goRep, doneCount, workerVars, r, med>>

Main == ResetDone \/ Release \/ SeeAllDone \/ Collect \/ JoinAndMerge

\* The function has returned; everything else that stops is a deadlock.
Returned == mpc = "done" /\ UNCHANGED vars

Next == Main \/ (\E t \in Threads : Worker(t)) \/ Returned

(***************************************************************************)
(* Main and the workers are OS threads: each is scheduled again and again. *)
(***************************************************************************)
Fairness == WF_vars(Main) /\ \A t \in Threads : WF_vars(Worker(t))

Spec == Init /\ [][Next]_vars /\ Fairness

----------------------------------------------------------------------------
\* Values of the right kind: the shared counters stay in their ranges.
TypeOK ==
  /\ goRep \in -1 .. NumReps - 1
  /\ doneCount \in 0 .. NumThreads
  /\ wpc \in [Threads -> {"spin", "decode", "signal", "exit"}]
  /\ myRep \in [Threads -> 0 .. NumReps]
  /\ pos \in [Threads -> 0 .. NumBlocks]
  /\ \A f \in {rd, tDec, repDec} :
       f \in [Threads -> SUBSET ((0 .. NumReps - 1) \X Threads \X Blocks)]
  /\ mpc \in {"loop", "release", "wait", "collect", "done"}
  /\ r \in 0 .. NumReps
  /\ med \in Seq(SUBSET ((0 .. NumReps - 1) \X Threads \X Blocks))
  /\ stats \in SUBSET ((0 .. NumReps - 1) \X Threads \X Blocks)

Decoding(t) == wpc[t] = "decode" /\ pos[t] < Hi(t)

\* "no two threads touch the same codec object or its buffer": two workers that
\* are each at a block of their slice are at different codecs of the grid.
NoSharedBlock ==
  \A t, u \in Threads :
    t # u /\ Decoding(t) /\ Decoding(u)
      => AccessIndexes[pos[t]] # AccessIndexes[pos[u]]

\* Main sums repDec/repTrans only while no worker may write them: the plain
\* (non-atomic) arrays are ordered by doneCount and goRep alone.
QuietWhileCollecting ==
  mpc = "collect" => \A t \in Threads : wpc[t] \in {"spin", "exit"} /\ myRep[t] = r + 1

\* The sample of a timed repetition accounts for every block of the grid once,
\* and for no measurement of another repetition (no stale repDec is summed).
SamplesWhole ==
  /\ \A k \in DOMAIN med :
       LET rep == NumSkip + k - 1 IN
       /\ \A m \in med[k] : m[1] = rep
       /\ \A b \in Blocks : Cardinality({m \in med[k] : m[3] = b}) = 1
  /\ mpc = "done" => Len(med) = IF NumReps > NumSkip THEN NumReps - NumSkip ELSE 0

\* The merged statistics and the per-repetition samples, which travel on
\* different paths, account for exactly the same decodes.
StatsMatchSamples ==
  mpc = "done" => stats = UNION {med[k] : k \in DOMAIN med}

\* A repetition is opened only when every worker has finished the one before
\* and waits at the barrier: no worker is overtaken, or it would spin forever.
BarrierHolds ==
  [][goRep' # goRep =>
       \A t \in Threads : wpc[t] = "spin" /\ myRep[t] = goRep']_vars

\* The benchmark returns, and no worker outlives it.
Finishes == <>[](mpc = "done" /\ \A t \in Threads : wpc[t] = "exit")

(***************************************************************************)
(* The pool implements the sequential rounds of RepRounds.                 *)
(***************************************************************************)
Rounds == INSTANCE RepRounds WITH round <- r, samples <- med, merged <- stats

ImplementsRounds == Rounds!Spec

============================================================================
