-------------------------- MODULE StaticRepsProofs --------------------------
(***************************************************************************)
(* Proofs about StaticReps, for every number of workers, blocks,           *)
(* repetitions and warm-up repetitions and every access order.             *)
(***************************************************************************)
EXTENDS StaticReps, Foundations, SequenceTheorems

----------------------------------------------------------------------------
(* Slices *)

\* Every slice lies within the grid, and ends where the next begins.
LEMMA SliceBounds ==
  /\ Per \in Nat
  /\ \A t \in Threads :
       /\ Lo(t) \in Nat /\ Hi(t) \in Nat
       /\ Lo(t) <= Hi(t) /\ Hi(t) <= NumBlocks
       /\ t # NumThreads - 1 => Hi(t) = (t + 1) * Per
  /\ \A t, u \in Threads : t < u => Hi(t) <= Lo(u)
  /\ \A j \in Blocks : \E t \in Threads : j \in Lo(t) .. Hi(t) - 1
<1> DEFINE lo == [t \in Threads |-> Lo(t)]
           hi == [t \in Threads |-> Hi(t)]
<1>1. \A t \in 0 .. NumThreads - 1 :
        /\ lo[t] = Lo(t) /\ hi[t] = Hi(t)
        /\ lo[t] = t * Per /\ hi[t] = IF t = NumThreads - 1 THEN NumBlocks ELSE lo[t] + Per
  BY DEF Threads, Lo, Hi
<1> HIDE DEF lo, hi
<1>2. /\ Per \in Nat
      /\ \A t \in 0 .. NumThreads - 1 :
           /\ lo[t] \in Nat /\ hi[t] \in Nat /\ lo[t] <= hi[t] /\ hi[t] <= NumBlocks
           /\ t # NumThreads - 1 => hi[t] = (t + 1) * Per
      /\ \A t, u \in 0 .. NumThreads - 1 : t < u => hi[t] <= lo[u]
      /\ \A j \in 0 .. NumBlocks - 1 : \E t \in 0 .. NumThreads - 1 : j \in lo[t] .. hi[t] - 1
  <2>1. /\ NumThreads \in Nat \ {0} /\ NumBlocks \in Nat \ {0}
        /\ Slicing(NumThreads, NumBlocks, Per, lo, hi)
    BY <1>1, ThreadsAssumption, BlocksAssumption DEF Per, Slicing
  <2>. QED BY ONLY <2>1, SlicesPartition
<1>. QED BY <1>1, <1>2 DEF Threads, Blocks

\* No index is in two slices.
LEMMA SlicesDisjoint ==
  ASSUME NEW t \in Threads, NEW u \in Threads, NEW j \in Int,
         j \in Lo(t) .. Hi(t) - 1, j \in Lo(u) .. Hi(u) - 1
  PROVE  t = u
<1>1. t \in Int /\ u \in Int
  BY ThreadsAssumption DEF Threads
<1>. QED BY <1>1, SliceBounds

\* At the beginning of its slice a worker has measured nothing.
LEMMA MeasuredNone ==
  ASSUME NEW t \in Threads, NEW q
  PROVE  Measured(t, q, Lo(t)) = {}
BY SliceBounds DEF Measured

\* At each index it measures the block there.
LEMMA MeasuredOneMore ==
  ASSUME NEW t \in Threads, NEW q, NEW i \in Int, Lo(t) <= i
  PROVE  Measured(t, q, i + 1) = Measured(t, q, i) \cup {<<q, t, AccessIndexes[i]>>}
<1>1. Lo(t) .. (i + 1) - 1 = (Lo(t) .. i - 1) \cup {i}
  BY SliceBounds
<1>. QED BY <1>1 DEF Measured

\* What worker t, and what all of them, measure in repetition q.
Full(t, q) == Measured(t, q, Hi(t))
Whole(q)   == UNION {Full(t, q) : t \in Threads}

\* The one worker in whose slice block b is.
Owner(b) == CHOOSE t \in Threads :
              \E i \in Lo(t) .. Hi(t) - 1 : i \in Blocks /\ AccessIndexes[i] = b

\* Every block is in the slice of its owner.
LEMMA OwnerExists ==
  ASSUME NEW b \in Blocks
  PROVE  /\ Owner(b) \in Threads
         /\ \E i \in Lo(Owner(b)) .. Hi(Owner(b)) - 1 : i \in Blocks /\ AccessIndexes[i] = b
<1>1. PICK i \in Blocks : AccessIndexes[i] = b
  BY OrderAssumption
<1>2. PICK t \in Threads : i \in Lo(t) .. Hi(t) - 1
  BY SliceBounds
<1>3. \E u \in Threads : \E j \in Lo(u) .. Hi(u) - 1 : j \in Blocks /\ AccessIndexes[j] = b
  BY <1>1, <1>2
<1>. QED BY <1>3, Zenon DEF Owner

\* A whole sample of a repetition is one measurement of each block, by its owner.
LEMMA WholeIsOnePerBlock ==
  ASSUME NEW q
  PROVE  Whole(q) = {<<q, Owner(b), b>> : b \in Blocks}
<1>1. ASSUME NEW t \in Threads, NEW i \in Lo(t) .. Hi(t) - 1
      PROVE  i \in Blocks /\ AccessIndexes[i] \in Blocks /\ t = Owner(AccessIndexes[i])
  <2>1. i \in Blocks
    BY <1>1, SliceBounds, BlocksAssumption DEF Blocks
  <2>2. AccessIndexes[i] \in Blocks
    BY <2>1, OrderAssumption
  <2>3. PICK j \in Lo(Owner(AccessIndexes[i])) .. Hi(Owner(AccessIndexes[i])) - 1 :
          j \in Blocks /\ AccessIndexes[j] = AccessIndexes[i]
    BY <2>2, OwnerExists
  <2>4. i = j
    BY <2>1, <2>3, OrderAssumption
  <2>. QED BY <2>1, <2>2, <2>3, <2>4, OwnerExists, SlicesDisjoint DEF Blocks
<1>2. Whole(q) \subseteq {<<q, Owner(b), b>> : b \in Blocks}
  BY <1>1 DEF Whole, Full, Measured
<1>3. ASSUME NEW b \in Blocks
      PROVE  <<q, Owner(b), b>> \in Whole(q)
  <2>1. PICK i \in Lo(Owner(b)) .. Hi(Owner(b)) - 1 : AccessIndexes[i] = b
    BY OwnerExists
  <2>2. <<q, Owner(b), b>> \in Full(Owner(b), q)
    BY <2>1 DEF Full, Measured
  <2>. QED BY <2>2, OwnerExists DEF Whole
<1>. QED BY <1>2, <1>3

----------------------------------------------------------------------------
(***************************************************************************)
(* The inductive invariant.  BarrierInv is about control: which repetition *)
(* each thread is in, seen from where main is.  With TypeOK it is          *)
(* inductive on its own.                                                   *)
(***************************************************************************)
Arrived == {t \in Threads : myRep[t] = r + 1}

BarrierInv ==
  /\ mpc \in {"loop", "release", "done"} => goRep = r - 1 /\ \A t \in Threads : myRep[t] = r
  /\ mpc = "release" => doneCount = 0 /\ r < NumReps
  /\ mpc \in {"wait", "collect"} => goRep = r /\ r < NumReps
  /\ mpc = "wait" => doneCount = Cardinality(Arrived)
  /\ mpc = "wait" => \A t \in Threads : myRep[t] \in {r, r + 1}
  /\ mpc = "collect" => \A t \in Threads : myRep[t] = r + 1
  /\ mpc = "done" => r = NumReps
  /\ \A t \in Threads :
       /\ wpc[t] \in {"decode", "signal"} => mpc = "wait" /\ myRep[t] = r
       /\ wpc[t] = "spin" => myRep[t] < NumReps
       /\ wpc[t] = "exit" => myRep[t] = NumReps
       /\ wpc[t] = "decode" => Lo(t) <= pos[t] /\ pos[t] <= Hi(t)

(***************************************************************************)
(* SumsInv is about data: what each accumulator holds at that point.       *)
(***************************************************************************)
TimedBefore(t, n) == UNION {Full(t, q) : q \in NumSkip .. n - 1}

Current(t) ==
  IF ~Timed(myRep[t])     THEN {} ELSE
  IF wpc[t] = "decode"    THEN Measured(t, myRep[t], pos[t]) ELSE
  IF wpc[t] = "signal"    THEN Full(t, myRep[t]) ELSE {}

SumsInv ==
  \A t \in Threads :
    /\ wpc[t] = "decode" => rd[t] = Measured(t, myRep[t], pos[t])
    /\ wpc[t] = "signal" => repDec[t] = Full(t, myRep[t])
    /\ mpc \in {"wait", "collect"} /\ myRep[t] = r + 1 => repDec[t] = Full(t, r)
    /\ tDec[t] = TimedBefore(t, myRep[t]) \cup Current(t)

(***************************************************************************)
(* SamplesInv is about what main has collected.                            *)
(***************************************************************************)
SamplesInv ==
  /\ Len(med) = IF r > NumSkip THEN r - NumSkip ELSE 0
  /\ \A k \in 1 .. Len(med) : med[k] = Whole(NumSkip + k - 1)
  /\ mpc = "done" => stats = UNION {tDec[t] : t \in Threads}

IInv == TypeOK /\ BarrierInv /\ SumsInv /\ SamplesInv

----------------------------------------------------------------------------
Measurements == (0 .. NumReps - 1) \X Threads \X Blocks

Control == TypeOK /\ BarrierInv

LEMMA ThreadsFinite == IsFiniteSet(Threads) /\ Cardinality(Threads) = NumThreads
BY FS_Interval, ThreadsAssumption DEF Threads

\* The workers that have signalled are counted by doneCount, and are not more
\* than the workers there are.
LEMMA ArrivedBounds ==
  /\ IsFiniteSet(Arrived)
  /\ Cardinality(Arrived) \in 0 .. NumThreads
  /\ Cardinality(Arrived) = NumThreads => Arrived = Threads
<1>1. Arrived \in SUBSET Threads
  BY DEF Arrived
<1>. QED BY <1>1, ThreadsFinite, FS_Subset, FS_CardinalityType, ThreadsAssumption

LEMMA InitControl == Init => Control
<1> SUFFICES ASSUME Init PROVE Control
  OBVIOUS
<1>1. TypeOK
  BY SliceBounds, ThreadsAssumption, BlocksAssumption, RepsAssumption
  DEF Init, TypeOK
<1>2. BarrierInv
  BY SliceBounds, RepsAssumption DEF Init, BarrierInv
<1>. QED BY <1>1, <1>2 DEF Control

LEMMA GoControl ==
  ASSUME Control, NEW t \in Threads, Go(t)
  PROVE  Control'
<1> USE DEF Control
<1>1. mpc = "wait" /\ myRep[t] = r
  BY RepsAssumption DEF Go, BarrierInv, TypeOK
<1>2. TypeOK'
  <2>1. pos' \in [Threads -> 0 .. NumBlocks]
    BY SliceBounds, BlocksAssumption DEF Go, TypeOK
  <2>2. rd' \in [Threads -> SUBSET Measurements]
    BY DEF Go, TypeOK, Measurements
  <2>. QED BY <2>1, <2>2 DEF Go, TypeOK, Measurements, mainVars
<1>3. Arrived' = Arrived
  BY DEF Go, Arrived, mainVars
<1>4. BarrierInv'
  BY <1>1, <1>3, SliceBounds DEF Go, BarrierInv, TypeOK, mainVars
<1>. QED BY <1>2, <1>4

LEMMA DecodeBlockControl ==
  ASSUME Control, NEW t \in Threads, DecodeBlock(t)
  PROVE  Control'
<1> USE DEF Control
<1>1. myRep[t] = r /\ r \in 0 .. NumReps - 1 /\ pos[t] \in Blocks
  BY SliceBounds, RepsAssumption, BlocksAssumption DEF DecodeBlock, BarrierInv, TypeOK, Blocks
<1>2. <<myRep[t], t, AccessIndexes[pos[t]]>> \in Measurements
  BY <1>1, OrderAssumption DEF Measurements
<1>3. TypeOK'
  <2>1. pos' \in [Threads -> 0 .. NumBlocks]
    BY <1>1, BlocksAssumption DEF DecodeBlock, TypeOK, Blocks
  <2>2. rd' \in [Threads -> SUBSET Measurements]
    BY <1>2 DEF DecodeBlock, TypeOK, Measurements
  <2>3. tDec' \in [Threads -> SUBSET Measurements]
    BY <1>2 DEF DecodeBlock, TypeOK, Measurements
  <2>. QED BY <2>1, <2>2, <2>3 DEF DecodeBlock, TypeOK, Measurements, mainVars
<1>4. Arrived' = Arrived
  BY DEF DecodeBlock, Arrived, mainVars
<1>5. BarrierInv'
  BY <1>1, <1>4, SliceBounds DEF DecodeBlock, BarrierInv, TypeOK, mainVars, Blocks
<1>. QED BY <1>3, <1>5

LEMMA PublishControl ==
  ASSUME Control, NEW t \in Threads, Publish(t)
  PROVE  Control'
<1> USE DEF Control
<1>1. TypeOK'
  BY DEF Publish, TypeOK, mainVars
<1>2. Arrived' = Arrived
  BY DEF Publish, Arrived, mainVars
<1>3. BarrierInv'
  BY <1>2 DEF Publish, BarrierInv, TypeOK, mainVars
<1>. QED BY <1>1, <1>3

LEMMA SignalControl ==
  ASSUME Control, NEW t \in Threads, Signal(t)
  PROVE  Control'
<1> USE DEF Control
<1>1. mpc = "wait" /\ myRep[t] = r /\ r \in 0 .. NumReps - 1
  BY RepsAssumption DEF Signal, BarrierInv, TypeOK
<1>2. Arrived' = Arrived \cup {t} /\ t \notin Arrived
  BY <1>1 DEF Signal, Arrived, TypeOK, mainVars
<1>3. doneCount' = Cardinality(Arrived')
  <2>1. Cardinality(Arrived \cup {t}) = Cardinality(Arrived) + 1
    BY <1>2, ArrivedBounds, FS_AddElement
  <2>2. doneCount' = Cardinality(Arrived) + 1
    BY <1>1 DEF Signal, BarrierInv
  <2>. QED BY <1>2, <2>1, <2>2
<1>4. Cardinality(Arrived') \in 0 .. NumThreads
  <2>1. Arrived' \in SUBSET Threads
    BY DEF Arrived
  <2>. QED BY <2>1, ThreadsFinite, FS_Subset, FS_CardinalityType, ThreadsAssumption
<1>5. TypeOK'
  BY <1>1, <1>3, <1>4, RepsAssumption DEF Signal, TypeOK, mainVars
<1>6. BarrierInv'
  BY <1>1, <1>3, RepsAssumption DEF Signal, BarrierInv, TypeOK, mainVars
<1>. QED BY <1>5, <1>6

LEMMA MainControl ==
  ASSUME Control, Main
  PROVE  Control'
<1> USE DEF Control
<1>1. CASE ResetDone
  <2>1. Arrived' = Arrived
    BY <1>1 DEF ResetDone, Arrived, workerVars
  <2>2. TypeOK'
    BY <1>1, ThreadsAssumption DEF ResetDone, TypeOK, workerVars
  <2>3. BarrierInv'
    BY <1>1, <2>1 DEF ResetDone, BarrierInv, TypeOK, workerVars
  <2>. QED BY <2>2, <2>3
<1>2. CASE Release
  <2>1. Arrived' = Arrived /\ Arrived = {}
    BY <1>2 DEF Release, Arrived, workerVars, BarrierInv, TypeOK
  <2>2. TypeOK'
    BY <1>2, RepsAssumption DEF Release, TypeOK, workerVars, BarrierInv
  <2>3. BarrierInv'
    BY <1>2, <2>1, FS_EmptySet DEF Release, BarrierInv, TypeOK, workerVars
  <2>. QED BY <2>2, <2>3
<1>3. CASE SeeAllDone
  <2>1. Arrived = Threads
    BY <1>3, ArrivedBounds DEF SeeAllDone, BarrierInv
  <2>2. \A t \in Threads : myRep[t] = r + 1
    BY <2>1 DEF Arrived
  <2>3. TypeOK'
    BY <1>3 DEF SeeAllDone, TypeOK, workerVars
  <2>4. BarrierInv'
    <3>1. \A t \in Threads : wpc[t] \notin {"decode", "signal"}
      BY <2>2 DEF BarrierInv, TypeOK
    <3>. QED BY <1>3, <2>2, <3>1 DEF SeeAllDone, BarrierInv, TypeOK, workerVars
  <2>. QED BY <2>3, <2>4
<1>4. CASE Collect
  <2>1. UNION {repDec[t] : t \in Threads} \in SUBSET Measurements
    BY DEF TypeOK, Measurements
  <2>2. med' \in Seq(SUBSET Measurements)
    BY <1>4, <2>1 DEF Collect, TypeOK, Measurements
  <2>3. TypeOK'
    BY <1>4, <2>2, RepsAssumption DEF Collect, TypeOK, workerVars, BarrierInv, Measurements
  <2>4. BarrierInv'
    BY <1>4 DEF Collect, BarrierInv, TypeOK, workerVars
  <2>. QED BY <2>3, <2>4
<1>5. CASE JoinAndMerge
  <2>1. TypeOK'
    BY <1>5 DEF JoinAndMerge, TypeOK, workerVars
  <2>2. BarrierInv'
    BY <1>5, RepsAssumption DEF JoinAndMerge, BarrierInv, TypeOK, workerVars
  <2>. QED BY <2>1, <2>2
<1>. QED BY <1>1, <1>2, <1>3, <1>4, <1>5 DEF Main

LEMMA NextControl == Control /\ [Next]_vars => Control'
<1> SUFFICES ASSUME Control, [Next]_vars PROVE Control'
  OBVIOUS
<1>1. CASE UNCHANGED vars
  BY <1>1 DEF Control, TypeOK, BarrierInv, Arrived, vars, workerVars, mainVars
<1>2. ASSUME NEW t \in Threads, Worker(t) PROVE Control'
  BY <1>2, GoControl, DecodeBlockControl, PublishControl, SignalControl DEF Worker
<1>. QED BY <1>1, <1>2, MainControl DEF Next, Returned

\* Every variable keeps its type; in particular the shared counters stay in
\* their ranges: doneCount never exceeds the number of workers.
THEOREM TypeCorrect == Spec => []TypeOK
<1>1. Control => TypeOK
  BY DEF Control
<1>. QED BY <1>1, InitControl, NextControl, PTL DEF Spec

----------------------------------------------------------------------------
(***************************************************************************)
(* What a worker has measured, as its loops advance.                       *)
(***************************************************************************)
LEMMA TimedOneMore ==
  ASSUME NEW t \in Threads, NEW n \in Nat
  PROVE  TimedBefore(t, n + 1) =
           TimedBefore(t, n) \cup (IF Timed(n) THEN Full(t, n) ELSE {})
<1>1. NumSkip .. (n + 1) - 1 = (NumSkip .. n - 1) \cup (IF Timed(n) THEN {n} ELSE {})
  BY RepsAssumption DEF Timed
<1>2. CASE Timed(n)
  BY <1>1, <1>2 DEF TimedBefore
<1>3. CASE ~Timed(n)
  BY <1>1, <1>3 DEF TimedBefore
<1>. QED BY <1>2, <1>3

LEMMA InitSums == Init => SumsInv
<1> SUFFICES ASSUME Init, NEW t \in Threads
             PROVE  /\ wpc[t] \notin {"decode", "signal"}
                    /\ mpc = "loop"
                    /\ tDec[t] = TimedBefore(t, myRep[t]) \cup Current(t)
  BY DEF SumsInv
<1>1. wpc[t] \notin {"decode", "signal"} /\ mpc = "loop" /\ myRep[t] = 0 /\ tDec[t] = {}
  BY DEF Init
<1>2. NumSkip .. 0 - 1 = {}
  BY RepsAssumption
<1>3. TimedBefore(t, 0) = {}
  BY <1>2 DEF TimedBefore
<1>4. Current(t) = {}
  BY <1>1 DEF Current
<1>. QED BY <1>1, <1>3, <1>4

\* A worker's step leaves what the others have measured as it is.
LEMMA SumsOfOthers ==
  ASSUME SumsInv, NEW t \in Threads, NEW u \in Threads,
         wpc'[u] = wpc[u], myRep'[u] = myRep[u], pos'[u] = pos[u], rd'[u] = rd[u],
         tDec'[u] = tDec[u], repDec'[u] = repDec[u], mpc' = mpc, r' = r
  PROVE  /\ wpc'[u] = "decode" => rd'[u] = Measured(u, myRep'[u], pos'[u])
         /\ wpc'[u] = "signal" => repDec'[u] = Full(u, myRep'[u])
         /\ mpc' \in {"wait", "collect"} /\ myRep'[u] = r' + 1 => repDec'[u] = Full(u, r')
         /\ tDec'[u] = TimedBefore(u, myRep'[u]) \cup Current(u)'
BY DEF SumsInv, Current

LEMMA WorkerSums ==
  ASSUME Control, SumsInv, NEW t \in Threads, Worker(t)
  PROVE  SumsInv'
<1> USE DEF Control
<1> DEFINE Sums(u) ==
      /\ wpc[u] = "decode" => rd[u] = Measured(u, myRep[u], pos[u])
      /\ wpc[u] = "signal" => repDec[u] = Full(u, myRep[u])
      /\ mpc \in {"wait", "collect"} /\ myRep[u] = r + 1 => repDec[u] = Full(u, r)
      /\ tDec[u] = TimedBefore(u, myRep[u]) \cup Current(u)
<1>1. ASSUME NEW u \in Threads, u # t
      PROVE  Sums(u)'
  <2>1. /\ wpc'[u] = wpc[u] /\ myRep'[u] = myRep[u] /\ pos'[u] = pos[u] /\ rd'[u] = rd[u]
        /\ tDec'[u] = tDec[u] /\ repDec'[u] = repDec[u] /\ mpc' = mpc /\ r' = r
    BY <1>1 DEF Worker, Go, DecodeBlock, Publish, Signal, TypeOK, mainVars
  <2>. QED BY <2>1, SumsOfOthers
<1>2. CASE Go(t)
  <2>1. wpc'[t] = "decode" /\ rd'[t] = {} /\ pos'[t] = Lo(t) /\ myRep'[t] = myRep[t]
        /\ tDec'[t] = tDec[t] /\ mpc' = mpc /\ r' = r
    BY <1>2 DEF Go, TypeOK, mainVars
  <2>2. Current(t) = {} /\ Current(t)' = {}
    BY <1>2, <2>1, MeasuredNone DEF Go, Current
  <2>3. myRep[t] # r + 1
    BY <1>2, RepsAssumption DEF Go, BarrierInv, TypeOK
  <2>4. Sums(t)'
    BY <2>1, <2>2, <2>3, MeasuredNone DEF SumsInv
  <2>. QED BY <1>1, <2>4 DEF SumsInv
<1>3. CASE DecodeBlock(t)
  <2> DEFINE m == <<myRep[t], t, AccessIndexes[pos[t]]>>
  <2>1. wpc[t] = "decode" /\ wpc'[t] = "decode" /\ rd'[t] = rd[t] \cup {m}
        /\ pos'[t] = pos[t] + 1 /\ myRep'[t] = myRep[t] /\ mpc' = mpc /\ r' = r
        /\ tDec'[t] = IF Timed(myRep[t]) THEN tDec[t] \cup {m} ELSE tDec[t]
    BY <1>3 DEF DecodeBlock, TypeOK, mainVars
  <2>2. Measured(t, myRep[t], pos[t] + 1) = Measured(t, myRep[t], pos[t]) \cup {m}
    BY <2>1, MeasuredOneMore DEF BarrierInv, TypeOK
  <2>3. Current(t)' = IF Timed(myRep[t]) THEN Current(t) \cup {m} ELSE Current(t)
    BY <2>1, <2>2 DEF Current
  <2>4. myRep[t] # r + 1
    BY <2>1 DEF BarrierInv, TypeOK
  <2>5. Sums(t)'
    BY <2>1, <2>2, <2>3, <2>4 DEF SumsInv
  <2>. QED BY <1>1, <2>5 DEF SumsInv
<1>4. CASE Publish(t)
  <2>1. wpc[t] = "decode" /\ wpc'[t] = "signal" /\ repDec'[t] = rd[t] /\ myRep'[t] = myRep[t]
        /\ tDec'[t] = tDec[t] /\ mpc' = mpc /\ r' = r /\ pos'[t] = pos[t]
    BY <1>4 DEF Publish, TypeOK, mainVars
  <2>2. pos[t] = Hi(t)
    BY <1>4, SliceBounds DEF Publish, BarrierInv, TypeOK
  <2>3. rd[t] = Full(t, myRep[t]) /\ Current(t)' = Current(t)
    BY <2>1, <2>2 DEF SumsInv, Full, Current
  <2>4. myRep[t] # r + 1
    BY <2>1 DEF BarrierInv, TypeOK
  <2>5. Sums(t)'
    BY <2>1, <2>3, <2>4 DEF SumsInv
  <2>. QED BY <1>1, <2>5 DEF SumsInv
<1>5. CASE Signal(t)
  <2>1. wpc[t] = "signal" /\ wpc'[t] \notin {"decode", "signal"} /\ repDec'[t] = repDec[t]
        /\ myRep'[t] = myRep[t] + 1 /\ tDec'[t] = tDec[t] /\ mpc' = mpc /\ r' = r
    BY <1>5 DEF Signal, TypeOK, mainVars
  <2>2. myRep[t] = r /\ r \in Nat
    BY <2>1, RepsAssumption DEF BarrierInv, TypeOK
  <2>3. Current(t) = (IF Timed(r) THEN Full(t, r) ELSE {}) /\ Current(t)' = {}
    BY <2>1, <2>2 DEF Current
  <2>4. TimedBefore(t, r + 1) = TimedBefore(t, r) \cup (IF Timed(r) THEN Full(t, r) ELSE {})
    BY <2>2, TimedOneMore
  <2>5. Sums(t)'
    BY <2>1, <2>2, <2>3, <2>4 DEF SumsInv
  <2>. QED BY <1>1, <2>5 DEF SumsInv
<1>. QED BY <1>2, <1>3, <1>4, <1>5 DEF Worker

LEMMA MainSums ==
  ASSUME Control, SumsInv, Main
  PROVE  SumsInv'
<1> USE DEF Control
<1>1. UNCHANGED workerVars
  BY DEF Main, ResetDone, Release, SeeAllDone, Collect, JoinAndMerge
<1>2. \A t \in Threads : Current(t)' = Current(t)
  BY <1>1 DEF Current, workerVars
<1>3. ASSUME NEW t \in Threads, mpc' \in {"wait", "collect"}, myRep'[t] = r' + 1
      PROVE  mpc \in {"wait", "collect"} /\ r' = r
  BY <1>1, <1>3 DEF Main, ResetDone, Release, SeeAllDone, Collect, JoinAndMerge,
                    BarrierInv, TypeOK, workerVars
<1>. QED BY <1>1, <1>2, <1>3 DEF SumsInv, workerVars

----------------------------------------------------------------------------
(***************************************************************************)
(* What main collects.                                                     *)
(***************************************************************************)
LEMMA InitSamples == Init => SamplesInv
BY RepsAssumption DEF Init, SamplesInv

LEMMA CollectSamples ==
  ASSUME Control, SumsInv, SamplesInv, Collect
  PROVE  SamplesInv'
<1> USE DEF Control
<1> DEFINE s == UNION {repDec[t] : t \in Threads}
<1>1. r \in Nat /\ r' = r + 1 /\ mpc' = "loop" /\ med \in Seq(SUBSET Measurements)
  BY RepsAssumption DEF Collect, TypeOK, Measurements
<1>2. s = Whole(r)
  <2>1. \A t \in Threads : repDec[t] = Full(t, r)
    BY DEF Collect, SumsInv, BarrierInv
  <2>. QED BY <2>1 DEF Whole
<1>3. CASE Timed(r)
  <2>1. med' = Append(med, s) /\ Len(med) = r - NumSkip
    BY <1>3, <1>1, RepsAssumption DEF Collect, Timed, SamplesInv
  <2>2. s \in SUBSET Measurements
    BY DEF TypeOK, Measurements
  <2>3. /\ Len(med') = Len(med) + 1
        /\ \A k \in 1 .. Len(med) : med'[k] = med[k]
        /\ med'[Len(med) + 1] = s
    BY <2>1, <2>2, <1>1, AppendProperties
  <2>4. NumSkip + (Len(med) + 1) - 1 = r
    BY <2>1, <1>1, RepsAssumption
  <2>5. ASSUME NEW k \in 1 .. Len(med')
        PROVE  med'[k] = Whole(NumSkip + k - 1)
    <3>1. CASE k = Len(med) + 1
      BY <3>1, <2>3, <2>4, <1>2
    <3>2. CASE k \in 1 .. Len(med)
      BY <3>2, <2>3 DEF SamplesInv
    <3>3. Len(med) \in Nat
      BY <2>1, <1>1, <1>3, RepsAssumption DEF Timed
    <3>. QED BY <3>1, <3>2, <3>3, <2>3
  <2>6. Len(med') = (IF r' > NumSkip THEN r' - NumSkip ELSE 0)
    BY <2>1, <2>3, <1>1, <1>3, RepsAssumption DEF Timed
  <2>7. mpc' # "done"
    BY <1>1
  <2>. QED BY <2>5, <2>6, <2>7 DEF SamplesInv, Whole, Full, Measured
<1>4. CASE ~Timed(r)
  BY <1>4, <1>1, RepsAssumption DEF Collect, SamplesInv, Timed, Whole, Full, Measured
<1>. QED BY <1>3, <1>4

LEMMA NextSamples ==
  ASSUME Control, SumsInv, SamplesInv, [Next]_vars
  PROVE  SamplesInv'
<1> USE DEF SamplesInv, Control
<1>1. CASE UNCHANGED vars
  BY <1>1 DEF vars, workerVars, mainVars, Whole, Full, Measured
<1>2. ASSUME NEW t \in Threads, Worker(t) PROVE SamplesInv'
  <2>1. UNCHANGED mainVars
    BY <1>2 DEF Worker, Go, DecodeBlock, Publish, Signal
  <2>2. mpc = "done" => tDec' = tDec
    <3>1. CASE Go(t)  BY <3>1 DEF Go
    <3>2. CASE DecodeBlock(t)  BY <3>2 DEF DecodeBlock, BarrierInv
    <3>3. CASE Publish(t)  BY <3>3 DEF Publish
    <3>4. CASE Signal(t)  BY <3>4 DEF Signal
    <3>. QED BY <1>2, <3>1, <3>2, <3>3, <3>4 DEF Worker
  <2>. QED BY <2>1, <2>2 DEF mainVars, Whole, Full, Measured
<1>3. CASE ResetDone \/ Release \/ SeeAllDone
  BY <1>3 DEF ResetDone, Release, SeeAllDone, workerVars, Whole, Full, Measured
<1>4. CASE JoinAndMerge
  BY <1>4 DEF JoinAndMerge, workerVars, Whole, Full, Measured
<1>. QED BY <1>1, <1>2, <1>3, <1>4, CollectSamples DEF Next, Main, Returned

\* The whole inductive invariant: where every thread is, what every
\* accumulator holds there, and what main has collected so far.
THEOREM Invariant == Spec => []IInv
<1>1. Init => IInv
  BY InitControl, InitSums, InitSamples DEF IInv, Control
<1>2. IInv /\ [Next]_vars => IInv'
  <2> SUFFICES ASSUME IInv, [Next]_vars PROVE IInv'
    OBVIOUS
  <2>1. Control /\ SumsInv /\ SamplesInv
    BY DEF IInv, Control
  <2>2. Control'
    BY <2>1, NextControl
  <2>3. SumsInv'
    <3>1. CASE UNCHANGED vars
      BY <3>1, <2>1 DEF SumsInv, Current, vars, workerVars, mainVars
    <3>2. ASSUME NEW t \in Threads, Worker(t) PROVE SumsInv'
      BY <3>2, <2>1, WorkerSums
    <3>3. CASE Main
      BY <3>3, <2>1, MainSums
    <3>. QED BY <3>1, <3>2, <3>3 DEF Next, Returned
  <2>4. SamplesInv'
    BY <2>1, NextSamples
  <2>. QED BY <2>2, <2>3, <2>4 DEF IInv, Control
<1>. QED BY <1>1, <1>2, PTL DEF Spec

----------------------------------------------------------------------------
(***************************************************************************)
(* What follows from the invariant.                                        *)
(***************************************************************************)

\* No two workers are ever at the same codec of the grid.
THEOREM BlocksNotShared == Spec => []NoSharedBlock
<1>1. IInv => NoSharedBlock
  <2> SUFFICES ASSUME IInv, NEW t \in Threads, NEW u \in Threads,
                      Decoding(t), Decoding(u),
                      AccessIndexes[pos[t]] = AccessIndexes[pos[u]]
               PROVE  t = u
    BY DEF NoSharedBlock
  <2>1. /\ pos[t] \in Lo(t) .. Hi(t) - 1 /\ pos[u] \in Lo(u) .. Hi(u) - 1
        /\ pos[t] \in Blocks /\ pos[u] \in Blocks
    <3>1. ASSUME NEW w \in Threads, Decoding(w)
          PROVE  pos[w] \in Lo(w) .. Hi(w) - 1 /\ pos[w] \in Blocks
      <4>1. pos[w] \in 0 .. NumBlocks
        BY DEF IInv, TypeOK
      <4>2. Lo(w) <= pos[w] /\ pos[w] < Hi(w)
        BY <3>1 DEF IInv, BarrierInv, Decoding
      <4>3. Lo(w) \in Nat /\ Hi(w) \in Nat /\ Hi(w) <= NumBlocks
        BY SliceBounds
      <4>. QED BY ONLY <4>1, <4>2, <4>3, BlocksAssumption DEF Blocks
    <3>. QED BY <3>1
  <2>2. pos[t] = pos[u]
    BY <2>1, OrderAssumption
  <2>. QED BY <2>1, <2>2, SlicesDisjoint DEF Blocks
<1>. QED BY <1>1, Invariant, PTL

\* Main reads the plain arrays repDec and repTrans only when nobody writes them.
THEOREM CollectingIsQuiet == Spec => []QuietWhileCollecting
<1>1. IInv => QuietWhileCollecting
  BY DEF IInv, BarrierInv, TypeOK, QuietWhileCollecting
<1>. QED BY <1>1, Invariant, PTL

\* Every sample accounts for each block of the grid once, in its repetition.
THEOREM SamplesAreWhole == Spec => []SamplesWhole
<1>1. IInv => SamplesWhole
  <2> SUFFICES ASSUME IInv PROVE SamplesWhole
    OBVIOUS
  <2> USE DEF IInv
  <2>1. ASSUME NEW k \in DOMAIN med
        PROVE  med[k] = {<<NumSkip + k - 1, Owner(b), b>> : b \in Blocks}
    <3>1. k \in 1 .. Len(med)
      BY DEF TypeOK
    <3>. QED BY <3>1, WholeIsOnePerBlock DEF SamplesInv
  <2>2. ASSUME NEW k \in DOMAIN med, NEW b \in Blocks
        PROVE  Cardinality({m \in med[k] : m[3] = b}) = 1
    <3>1. {m \in med[k] : m[3] = b} = {<<NumSkip + k - 1, Owner(b), b>>}
      BY <2>1
    <3>. QED BY <3>1, FS_Singleton
  <2>3. mpc = "done" => Len(med) = IF NumReps > NumSkip THEN NumReps - NumSkip ELSE 0
    BY DEF BarrierInv, SamplesInv
  <2>. QED BY <2>1, <2>2, <2>3 DEF SamplesWhole
<1>. QED BY <1>1, Invariant, PTL

\* When every worker has finished all repetitions, the statistics of the
\* workers hold what the samples hold.
LEMMA AllTimedMeasured ==
  ASSUME IInv, r = NumReps, \A t \in Threads : wpc[t] = "exit"
  PROVE  UNION {tDec[t] : t \in Threads} = UNION {med[k] : k \in DOMAIN med}
<1> USE DEF IInv
<1>1. ASSUME NEW t \in Threads
      PROVE  tDec[t] = TimedBefore(t, NumReps)
  <2>1. myRep[t] = NumReps /\ Current(t) = {}
    BY DEF BarrierInv, Current
  <2>. QED BY <2>1 DEF SumsInv
<1>2. DOMAIN med = 1 .. Len(med) /\ Len(med) \in Nat
  BY DEF TypeOK
<1>3. ASSUME NEW k \in DOMAIN med
      PROVE  NumSkip + k - 1 \in NumSkip .. NumReps - 1 /\ med[k] = Whole(NumSkip + k - 1)
  BY <1>2, RepsAssumption DEF SamplesInv
<1>4. ASSUME NEW q \in NumSkip .. NumReps - 1
      PROVE  q - NumSkip + 1 \in DOMAIN med /\ med[q - NumSkip + 1] = Whole(q)
  <2>1. q - NumSkip + 1 \in 1 .. Len(med) /\ NumSkip + (q - NumSkip + 1) - 1 = q
    BY RepsAssumption DEF SamplesInv
  <2>. QED BY <1>2, <2>1 DEF SamplesInv
<1>5. UNION {tDec[t] : t \in Threads} \subseteq UNION {med[k] : k \in DOMAIN med}
  <2> SUFFICES ASSUME NEW t \in Threads, NEW q \in NumSkip .. NumReps - 1,
                      NEW m \in Full(t, q)
               PROVE  m \in UNION {med[k] : k \in DOMAIN med}
    BY <1>1 DEF TimedBefore
  <2>. QED BY <1>4 DEF Whole
<1>6. UNION {med[k] : k \in DOMAIN med} \subseteq UNION {tDec[t] : t \in Threads}
  <2> SUFFICES ASSUME NEW k \in DOMAIN med, NEW m \in med[k]
               PROVE  m \in UNION {tDec[t] : t \in Threads}
    OBVIOUS
  <2>1. PICK t \in Threads : m \in Full(t, NumSkip + k - 1)
    BY <1>3 DEF Whole
  <2>. QED BY <2>1, <1>1, <1>3 DEF TimedBefore
<1>. QED BY <1>5, <1>6

\* The merged statistics and the samples account for the same decodes.
THEOREM StatsAreSamples == Spec => []StatsMatchSamples
<1>1. IInv => StatsMatchSamples
  <2> SUFFICES ASSUME IInv, mpc = "done"
               PROVE  stats = UNION {med[k] : k \in DOMAIN med}
    BY DEF StatsMatchSamples
  <2>1. r = NumReps /\ \A t \in Threads : myRep[t] = NumReps
    BY DEF IInv, BarrierInv
  <2>2. \A t \in Threads : wpc[t] = "exit"
    BY <2>1, RepsAssumption DEF IInv, BarrierInv, TypeOK
  <2>3. stats = UNION {tDec[t] : t \in Threads}
    BY DEF IInv, SamplesInv
  <2>. QED BY <2>1, <2>2, <2>3, AllTimedMeasured
<1>. QED BY <1>1, Invariant, PTL

\* A repetition is opened only when every worker waits for it.
THEOREM NobodyIsOvertaken == Spec => BarrierHolds
<1>1. IInv /\ [Next]_vars =>
        [goRep' # goRep => \A t \in Threads : wpc[t] = "spin" /\ myRep[t] = goRep']_vars
  <2> SUFFICES ASSUME IInv, Next, goRep' # goRep, NEW t \in Threads
               PROVE  wpc[t] = "spin" /\ myRep[t] = goRep'
    BY DEF vars
  <2>1. Release
    BY DEF Next, Main, ResetDone, SeeAllDone, Collect, JoinAndMerge, Returned,
           Worker, Go, DecodeBlock, Publish, Signal, vars
  <2>. QED BY <2>1, RepsAssumption DEF Release, IInv, BarrierInv, TypeOK
<1>. QED BY <1>1, Invariant, PTL DEF Spec, BarrierHolds

(***************************************************************************)
(* The pool implements the sequential rounds (the safety part).            *)
(***************************************************************************)
THEOREM RoundsImplemented == Spec => Rounds!Init /\ [][Rounds!Next]_(Rounds!vars)
<1>1. Init => Rounds!Init
  BY DEF Init, Rounds!Init
<1>2. IInv /\ [Next]_vars => [Rounds!Next]_(Rounds!vars)
  <2> SUFFICES ASSUME IInv, [Next]_vars PROVE [Rounds!Next]_(Rounds!vars)
    OBVIOUS
  <2>1. CASE Collect
    <3>1. r < NumReps /\ r' = r + 1 /\ stats' = stats
      BY <2>1 DEF Collect, IInv, BarrierInv
    <3>2. CASE r >= NumSkip
      <4> DEFINE owner == [b \in Blocks |-> Owner(b)]
      <4>1. med' = Append(med, Whole(r))
        <5>1. \A t \in Threads : repDec[t] = Full(t, r)
          BY <2>1 DEF Collect, IInv, SumsInv, BarrierInv
        <5>. QED BY <2>1, <3>2, <5>1 DEF Collect, Timed, Whole
      <4>2. owner \in [Blocks -> Threads]
        BY OwnerExists
      <4>3. Whole(r) = {<<r, owner[b], b>> : b \in Blocks}
        BY WholeIsOnePerBlock
      <4>4. Whole(r) \in Rounds!RepSamples(r)
        BY <4>2, <4>3 DEF Rounds!RepSamples
      <4>. QED BY <3>1, <3>2, <4>1, <4>4 DEF Rounds!Next, Rounds!CompleteRound
    <3>3. CASE ~(r >= NumSkip)
      BY <2>1, <3>1, <3>3 DEF Collect, Timed, Rounds!Next, Rounds!CompleteRound
    <3>. QED BY <3>2, <3>3
  <2>2. CASE JoinAndMerge
    <3>1. r = NumReps
      BY <2>2, RepsAssumption DEF JoinAndMerge, IInv, TypeOK
    <3>2. UNION {tDec[t] : t \in Threads} = UNION {med[k] : k \in DOMAIN med}
      BY <2>2, <3>1, AllTimedMeasured DEF JoinAndMerge
    <3>. QED BY <2>2, <3>1, <3>2 DEF JoinAndMerge, Rounds!Next, Rounds!Report
  <2>3. CASE UNCHANGED vars
    BY <2>3 DEF vars, mainVars, Rounds!vars
  <2>4. CASE ResetDone \/ Release \/ SeeAllDone
    BY <2>4 DEF ResetDone, Release, SeeAllDone, Rounds!vars
  <2>5. ASSUME NEW t \in Threads, Worker(t) PROVE UNCHANGED Rounds!vars
    BY <2>5 DEF Worker, Go, DecodeBlock, Publish, Signal, mainVars, Rounds!vars
  <2>. QED BY <2>1, <2>2, <2>3, <2>4, <2>5 DEF Next, Main, Returned
<1>. QED BY <1>1, <1>2, Invariant, PTL DEF Spec

============================================================================
