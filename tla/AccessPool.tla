----------------------------- MODULE AccessPool ----------------------------
(***************************************************************************)
(* The benchmark of an access transformation that changes the data, in     *)
(* bench_pipeline_multithread: the loop of RunOneCombinationU16 over the   *)
(* repetitions and BenchmarkAccessU16, which it calls in each.  Every      *)
(* repetition encodes the grid anew, spawns X workers, and joins them.  A  *)
(* worker decodes each block of its slice into its own buffer and then     *)
(* replaces the block's codec in the grid by a new one, a fresh clone of   *)
(* the access codec that holds the buffer.                                 *)
(*                                                                         *)
(* A codec of the grid is [codec, holds]: whether it is a clone of the     *)
(* base or of the access codec, and the block whose values it holds.  The  *)
(* decode, transformation and encode times follow the same path, so one    *)
(* accumulator stands for the three.  ApplyAccessTransformation<uint16_t>  *)
(* only reads the buffer for every transformation that counts as mutating. *)
(***************************************************************************)
EXTENDS GridSlices, Sequences, FiniteSets

CONSTANTS Overflow   \* GetOverflowSize of a "base" and of an "access" clone

ASSUME OverflowAssumption == Overflow \in [{"base", "access"} -> Nat]

VARIABLES isDirectAccess,  \* the base codec is custom_direct_access
          grid,     \* localGrid
          wpc,      \* per worker: "size", "loop", "store" or "exit"
          pos,      \* per worker: i, the next index of its slice
          room,     \* per worker: the overflow room of its decbuf
          decbuf,   \* per worker: the block in its decbuf, None at first
          tDec,     \* per worker: its own RunningStats
          mpc,      \* main: "build", "join" or "done"
          rep,      \* main: its loop counter
          med,      \* RepMedian: the sample of each timed repetition
          stats     \* the RunningStats of all timed repetitions

workerVars == <<wpc, pos, room, decbuf, tDec>>
mainVars   == <<mpc, rep, med, stats>>
vars       == <<isDirectAccess, grid, workerVars, mainVars>>

None    == -1
Block(t) == AccessIndexes[pos[t]]

\* SplitIntoFullBlocksU16: a clone of the base codec for every block.
FreshGrid == [b \in Blocks |-> [codec |-> "base", holds |-> b]]

Init ==
  /\ isDirectAccess \in BOOLEAN
  /\ grid   = FreshGrid
  /\ wpc    = [t \in Threads |-> "exit"]
  /\ pos    = [t \in Threads |-> Lo(t)]
  /\ room   = [t \in Threads |-> 0]
  /\ decbuf = [t \in Threads |-> None]
  /\ tDec   = [t \in Threads |-> {}]
  /\ mpc = "build"
  /\ rep = 0
  /\ med = <<>>
  /\ stats = {}

----------------------------------------------------------------------------
(***************************************************************************)
(* The main thread.                                                        *)
(***************************************************************************)

\* (Mutant: the grid of the repetition before is used again.)
SpawnOnOldGrid ==
  /\ mpc = "build"
  /\ rep < NumReps
  /\ wpc'    = [t \in Threads |-> "size"]
  /\ pos'    = [t \in Threads |-> Lo(t)]
  /\ tDec'   = [t \in Threads |-> {}]
  /\ decbuf' = [t \in Threads |-> None]
  /\ mpc' = "join"
  /\ UNCHANGED <<isDirectAccess, grid, room, rep, med, stats>>

\* The grid is encoded and BenchmarkAccessU16 spawns its workers.
Spawn ==
  /\ mpc = "build"
  /\ rep < NumReps
  /\ grid'   = FreshGrid
  /\ wpc'    = [t \in Threads |-> "size"]
  /\ pos'    = [t \in Threads |-> Lo(t)]
  /\ tDec'   = [t \in Threads |-> {}]
  /\ decbuf' = [t \in Threads |-> None]
  /\ mpc' = "join"
  /\ UNCHANGED <<isDirectAccess, room, rep, med, stats>>

\* (Mutant: main merges once the first worker has ended.)
MergeEarly ==
  /\ mpc = "join"
  /\ \E t \in Threads : wpc[t] = "exit"
  /\ LET merged == IF Timed(rep) THEN stats \cup UNION {tDec[t] : t \in Threads} ELSE stats
     IN  /\ stats' = merged
         /\ med' = IF Timed(rep) THEN Append(med, merged \ stats) ELSE med
  /\ rep' = rep + 1
  /\ mpc' = "build"
  /\ UNCHANGED <<isDirectAccess, grid, workerVars>>

\* join() every worker and merge; after the warm-up, into the statistics, and
\* what they have grown by is the sample of the repetition.
JoinAndMerge ==
  /\ mpc = "join"
  /\ \A t \in Threads : wpc[t] = "exit"
  /\ LET merged == IF Timed(rep) THEN stats \cup UNION {tDec[t] : t \in Threads} ELSE stats
     IN  /\ stats' = merged
         /\ med' = IF Timed(rep) THEN Append(med, merged \ stats) ELSE med
  /\ rep' = rep + 1
  /\ mpc' = "build"
  /\ UNCHANGED <<isDirectAccess, grid, workerVars>>

Report ==
  /\ mpc = "build"
  /\ rep >= NumReps
  /\ mpc' = "done"
  /\ UNCHANGED <<isDirectAccess, grid, workerVars, rep, med, stats>>

Main == Spawn \/ JoinAndMerge \/ Report

----------------------------------------------------------------------------
(***************************************************************************)
(* The workers.                                                            *)
(***************************************************************************)

\* decbuf is allocated: its overflow room is asked of codecs[0], whatever codec
\* is there by now.  A worker may be replacing it meanwhile (see NoDataRace);
\* the read then finds the old codec or the new one, as this step does before
\* or after that Store.
SizeBuffer(t) ==
  /\ wpc[t] = "size"
  /\ room' = [room EXCEPT ![t] = Overflow[grid[0].codec]]
  /\ wpc'  = [wpc EXCEPT ![t] = "loop"]
  /\ UNCHANGED <<isDirectAccess, grid, pos, decbuf, tDec, mainVars>>

\* (Mutant: the decode of a direct-access block is skipped with its time.)
DecodeUncounted(t) ==
  /\ wpc[t] = "loop"
  /\ pos[t] < Hi(t)
  /\ IF isDirectAccess
       THEN UNCHANGED <<decbuf, tDec>>
       ELSE /\ decbuf' = [decbuf EXCEPT ![t] = grid[Block(t)].holds]
            /\ tDec' = [tDec EXCEPT ![t] = @ \cup {<<rep, t, Block(t)>>}]
  /\ wpc' = [wpc EXCEPT ![t] = "store"]
  /\ UNCHANGED <<isDirectAccess, grid, pos, room, mainVars>>

\* DecodeArray into decbuf, unless the codec's own buffer is used, and the
\* transformation; both are counted.
Decode(t) ==
  /\ wpc[t] = "loop"
  /\ pos[t] < Hi(t)
  /\ decbuf' = IF isDirectAccess THEN decbuf
               ELSE [decbuf EXCEPT ![t] = grid[Block(t)].holds]
  /\ tDec' = [tDec EXCEPT ![t] = @ \cup {<<rep, t, Block(t)>>}]
  /\ wpc'  = [wpc EXCEPT ![t] = "store"]
  /\ UNCHANGED <<isDirectAccess, grid, pos, room, mainVars>>

\* (Mutant: a direct-access block is re-encoded from decbuf as well.)
StoreFromBuffer(t) ==
  /\ wpc[t] = "store"
  /\ grid' = [grid EXCEPT ![Block(t)] = [codec |-> "access", holds |-> decbuf[t]]]
  /\ pos'  = [pos EXCEPT ![t] = @ + 1]
  /\ wpc'  = [wpc EXCEPT ![t] = "loop"]
  /\ UNCHANGED <<isDirectAccess, room, decbuf, tDec, mainVars>>

\* The buffer is encoded by a clone of the access codec, which replaces the
\* block's codec in the grid.
Store(t) ==
  LET buf == IF isDirectAccess THEN grid[Block(t)].holds ELSE decbuf[t]   IN
  /\ wpc[t] = "store"
  /\ grid' = [grid EXCEPT ![Block(t)] = [codec |-> "access", holds |-> buf]]
  /\ pos'  = [pos EXCEPT ![t] = @ + 1]
  /\ wpc'  = [wpc EXCEPT ![t] = "loop"]
  /\ UNCHANGED <<isDirectAccess, room, decbuf, tDec, mainVars>>

Exit(t) ==
  /\ wpc[t] = "loop"
  /\ pos[t] >= Hi(t)
  /\ wpc' = [wpc EXCEPT ![t] = "exit"]
  /\ UNCHANGED <<isDirectAccess, grid, pos, room, decbuf, tDec, mainVars>>

Worker(t) == SizeBuffer(t) \/ Decode(t) \/ Store(t) \/ Exit(t)

Returned == mpc = "done" /\ UNCHANGED vars

Next == Main \/ (\E t \in Threads : Worker(t)) \/ Returned

\* Main and the workers are OS threads: each is scheduled again and again.
Fairness == WF_vars(Main) /\ \A t \in Threads : WF_vars(Worker(t))

Spec == Init /\ [][Next]_vars /\ Fairness

----------------------------------------------------------------------------
Measurements == (0 .. NumReps - 1) \X Threads \X Blocks

\* The counters stay in their ranges; what is measured and held are blocks.
TypeOK ==
  /\ isDirectAccess \in BOOLEAN
  /\ grid \in [Blocks -> [codec : {"base", "access"}, holds : Blocks]]
  /\ wpc \in [Threads -> {"size", "loop", "store", "exit"}]
  /\ pos \in [Threads -> 0 .. NumBlocks]
  /\ room \in [Threads -> {0, Overflow["base"], Overflow["access"]}]
  /\ decbuf \in [Threads -> Blocks \cup {None}]
  /\ tDec \in [Threads -> SUBSET Measurements]
  /\ mpc \in {"build", "join", "done"}
  /\ rep \in 0 .. NumReps
  /\ med \in Seq(SUBSET Measurements)
  /\ stats \in SUBSET Measurements

\* A worker decodes base codecs only: it never meets a block that it, another
\* worker or an earlier repetition has already re-encoded.
DecodesBaseOnly ==
  \A t \in Threads :
    wpc[t] \in {"loop", "store"} /\ pos[t] < Hi(t) => grid[Block(t)].codec = "base"

\* Re-encoding moves every block into an access codec and loses none: each
\* codec of the grid always holds the values of its own block, and at the join
\* the whole grid has been re-encoded.
BlocksKept ==
  /\ \A b \in Blocks : grid[b].holds = b
  /\ mpc = "join" /\ (\A t \in Threads : wpc[t] = "exit")
       => \A b \in Blocks : grid[b].codec = "access"

Rounds == INSTANCE RepRounds
            WITH round <- rep, samples <- med,
                 merged <- IF mpc = "done" THEN stats ELSE {}

\* The pool that is spawned anew for every repetition implements the rounds of
\* RepRounds as well: each timed repetition leaves one sample, of every block
\* once, and the report is the union of the samples; and it comes to an end.
ImplementsRounds == Rounds!Spec

\* "no two threads touch the same codec object or its buffer ... Reads +
\* per-thread buffers => no data races": nobody reads a codec of the grid that
\* another worker is about to replace.
Reads(t) ==
  CASE wpc[t] = "size" -> {0}
    [] wpc[t] = "loop" /\ pos[t] < Hi(t) -> {Block(t)}
    [] OTHER -> {}

Writes(t) == IF wpc[t] = "store" THEN {Block(t)} ELSE {}

NoDataRace ==
  \A t, u \in Threads : t # u => Reads(t) \cap Writes(u) = {} /\ Writes(t) \cap Writes(u) = {}

============================================================================
