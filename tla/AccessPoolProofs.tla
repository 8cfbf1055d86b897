-------------------------- MODULE AccessPoolProofs --------------------------
(***************************************************************************)
(* Proofs about AccessPool, for every number of workers, blocks,           *)
(* repetitions and warm-up repetitions and every access order.             *)
(***************************************************************************)
EXTENDS AccessPool, Foundations, SequenceTheorems

----------------------------------------------------------------------------
(* Slices *)

\* Every slice lies within the grid, and ends where the next begins.
LEMMA SliceBounds ==
  /\ Per \in Nat
  /\ \A t \in Threads :
       /\ Lo(t) \in Nat /\ Hi(t) \in Nat
       /\ Lo(t) <= Hi(t) /\ Hi(t) <= NumBlocks
       /\ t # NumThreads - 1 => Hi(t) = (t + 1) * Per
  /\ \A t, u \in Threads : t < u => Hi(t) <= Lo(u)
  /\ \A j \in Blocks : \E t \in Threads : j \in Lo(t) .. Hi(t) - 1
<1> DEFINE lo == [t \in Threads |-> Lo(t)]
           hi == [t \in Threads |-> Hi(t)]
<1>1. \A t \in 0 .. NumThreads - 1 :
        /\ lo[t] = Lo(t) /\ hi[t] = Hi(t)
        /\ lo[t] = t * Per /\ hi[t] = IF t = NumThreads - 1 THEN NumBlocks ELSE lo[t] + Per
  BY DEF Threads, Lo, Hi
<1> HIDE DEF lo, hi
<1>2. /\ Per \in Nat
      /\ \A t \in 0 .. NumThreads - 1 :
           /\ lo[t] \in Nat /\ hi[t] \in Nat /\ lo[t] <= hi[t] /\ hi[t] <= NumBlocks
           /\ t # NumThreads - 1 => hi[t] = (t + 1) * Per
      /\ \A t, u \in 0 .. NumThreads - 1 : t < u => hi[t] <= lo[u]
      /\ \A j \in 0 .. NumBlocks - 1 : \E t \in 0 .. NumThreads - 1 : j \in lo[t] .. hi[t] - 1
  <2>1. /\ NumThreads \in Nat \ {0} /\ NumBlocks \in Nat \ {0}
        /\ Slicing(NumThreads, NumBlocks, Per, lo, hi)
    BY <1>1, ThreadsAssumption, BlocksAssumption DEF Per, Slicing
  <2>. QED BY ONLY <2>1, SlicesPartition
<1>. QED BY <1>1, <1>2 DEF Threads, Blocks

\* No index is in two slices.
LEMMA SlicesDisjoint ==
  ASSUME NEW t \in Threads, NEW u \in Threads, NEW j \in Int,
         j \in Lo(t) .. Hi(t) - 1, j \in Lo(u) .. Hi(u) - 1
  PROVE  t = u
<1>1. t \in Int /\ u \in Int
  BY ThreadsAssumption DEF Threads
<1>. QED BY <1>1, SliceBounds

\* At the beginning of its slice a worker has measured nothing.
LEMMA MeasuredNone ==
  ASSUME NEW t \in Threads, NEW q
  PROVE  Measured(t, q, Lo(t)) = {}
BY SliceBounds DEF Measured

\* At each index it measures the block there.
LEMMA MeasuredOneMore ==
  ASSUME NEW t \in Threads, NEW q, NEW i \in Int, Lo(t) <= i
  PROVE  Measured(t, q, i + 1) = Measured(t, q, i) \cup {<<q, t, AccessIndexes[i]>>}
<1>1. Lo(t) .. (i + 1) - 1 = (Lo(t) .. i - 1) \cup {i}
  BY SliceBounds
<1>. QED BY <1>1 DEF Measured

\* What worker t, and what all of them, measure in repetition q.
Full(t, q) == Measured(t, q, Hi(t))
Whole(q)   == UNION {Full(t, q) : t \in Threads}

\* The one worker in whose slice block b is.
Owner(b) == CHOOSE t \in Threads :
              \E i \in Lo(t) .. Hi(t) - 1 : i \in Blocks /\ AccessIndexes[i] = b

\* Every block is in the slice of its owner.
LEMMA OwnerExists ==
  ASSUME NEW b \in Blocks
  PROVE  /\ Owner(b) \in Threads
         /\ \E i \in Lo(Owner(b)) .. Hi(Owner(b)) - 1 : i \in Blocks /\ AccessIndexes[i] = b
<1>1. PICK i \in Blocks : AccessIndexes[i] = b
  BY OrderAssumption
<1>2. PICK t \in Threads : i \in Lo(t) .. Hi(t) - 1
  BY SliceBounds
<1>3. \E u \in Threads : \E j \in Lo(u) .. Hi(u) - 1 : j \in Blocks /\ AccessIndexes[j] = b
  BY <1>1, <1>2
<1>. QED BY <1>3, Zenon DEF Owner

\* A whole sample of a repetition is one measurement of each block, by its owner.
LEMMA WholeIsOnePerBlock ==
  ASSUME NEW q
  PROVE  Whole(q) = {<<q, Owner(b), b>> : b \in Blocks}
<1>1. ASSUME NEW t \in Threads, NEW i \in Lo(t) .. Hi(t) - 1
      PROVE  i \in Blocks /\ AccessIndexes[i] \in Blocks /\ t = Owner(AccessIndexes[i])
  <2>1. i \in Blocks
    BY <1>1, SliceBounds, BlocksAssumption DEF Blocks
  <2>2. AccessIndexes[i] \in Blocks
    BY <2>1, OrderAssumption
  <2>3. PICK j \in Lo(Owner(AccessIndexes[i])) .. Hi(Owner(AccessIndexes[i])) - 1 :
          j \in Blocks /\ AccessIndexes[j] = AccessIndexes[i]
    BY <2>2, OwnerExists
  <2>4. i = j
    BY <2>1, <2>3, OrderAssumption
  <2>. QED BY <2>1, <2>2, <2>3, <2>4, OwnerExists, SlicesDisjoint DEF Blocks
<1>2. Whole(q) \subseteq {<<q, Owner(b), b>> : b \in Blocks}
  BY <1>1 DEF Whole, Full, Measured
<1>3. ASSUME NEW b \in Blocks
      PROVE  <<q, Owner(b), b>> \in Whole(q)
  <2>1. PICK i \in Lo(Owner(b)) .. Hi(Owner(b)) - 1 : AccessIndexes[i] = b
    BY OwnerExists
  <2>2. <<q, Owner(b), b>> \in Full(Owner(b), q)
    BY <2>1 DEF Full, Measured
  <2>. QED BY <2>2, OwnerExists DEF Whole
<1>. QED BY <1>2, <1>3

----------------------------------------------------------------------------
(***************************************************************************)
(* The inductive invariant.  ControlInv says where the threads are,        *)
(* GridInv what the grid and the buffers hold, SumsInv what is measured.   *)
(***************************************************************************)
ControlInv ==
  /\ mpc = "join" => rep < NumReps
  /\ mpc = "done" => rep = NumReps
  /\ mpc # "join" => \A t \in Threads : wpc[t] = "exit"
  /\ mpc = "join" => \A t \in Threads :
       /\ Lo(t) <= pos[t] /\ pos[t] <= Hi(t)
       /\ wpc[t] = "size"  => pos[t] = Lo(t)
       /\ wpc[t] = "store" => pos[t] < Hi(t)
       /\ wpc[t] = "exit"  => pos[t] = Hi(t)

Slice(t) == Lo(t) .. Hi(t) - 1

GridInv ==
  /\ \A b \in Blocks : grid[b].holds = b
  /\ mpc = "join" => \A t \in Threads : \A j \in Slice(t) :
       grid[AccessIndexes[j]].codec = IF j < pos[t] THEN "access" ELSE "base"
  /\ \A t \in Threads : wpc[t] = "store" /\ ~isDirectAccess => decbuf[t] = Block(t)

Reached(t) == IF wpc[t] = "store" THEN pos[t] + 1 ELSE pos[t]

SumsInv ==
  mpc = "join" => \A t \in Threads : tDec[t] = Measured(t, rep, Reached(t))

SamplesInv ==
  /\ Len(med) = IF rep > NumSkip THEN rep - NumSkip ELSE 0
  /\ \A k \in 1 .. Len(med) : med[k] = Whole(NumSkip + k - 1)
  /\ stats = UNION {med[k] : k \in DOMAIN med}

IInv == TypeOK /\ ControlInv /\ GridInv /\ SumsInv /\ SamplesInv

----------------------------------------------------------------------------
\* The indexes of a slice are indexes of the grid.
LEMMA SliceInGrid ==
  ASSUME NEW t \in Threads, NEW j \in Slice(t)
  PROVE  /\ j \in Int /\ j \in Blocks /\ AccessIndexes[j] \in Blocks
         /\ Lo(t) <= j /\ j < Hi(t) /\ j + 1 \in 0 .. NumBlocks
<1>1. j \in Blocks /\ Lo(t) <= j /\ j < Hi(t) /\ j \in Int
  BY SliceBounds, BlocksAssumption DEF Slice, Blocks
<1>. QED BY <1>1, OrderAssumption, BlocksAssumption DEF Blocks

\* A worker at work is at an index of its slice.
Working(t) == wpc[t] = "store" \/ (wpc[t] = "loop" /\ pos[t] < Hi(t))

LEMMA AtBlock ==
  ASSUME IInv, NEW t \in Threads, Working(t)
  PROVE  mpc = "join" /\ pos[t] \in Slice(t) /\ Block(t) \in Blocks
<1>1. mpc = "join" /\ Lo(t) <= pos[t] /\ pos[t] < Hi(t) /\ pos[t] \in Int
  BY SliceBounds DEF Working, IInv, ControlInv, TypeOK
<1>2. pos[t] \in Slice(t)
  BY <1>1, SliceBounds DEF Slice
<1>. QED BY <1>1, <1>2, SliceInGrid DEF Block

\* Two workers, or one worker at two indexes, never mean the same block.
LEMMA OneIndexPerBlock ==
  ASSUME NEW t \in Threads, NEW u \in Threads, NEW i \in Slice(t), NEW j \in Slice(u),
         AccessIndexes[i] = AccessIndexes[j]
  PROVE  i = j /\ t = u
<1>1. i = j
  BY SliceInGrid, OrderAssumption
<1>. QED BY <1>1, SliceInGrid, SlicesDisjoint DEF Slice

LEMMA InitIInv == Init => IInv
<1> SUFFICES ASSUME Init PROVE IInv
  OBVIOUS
<1>1. TypeOK
  <2>1. pos \in [Threads -> 0 .. NumBlocks]
    BY SliceBounds, BlocksAssumption DEF Init
  <2>2. grid \in [Blocks -> [codec : {"base", "access"}, holds : Blocks]]
    BY DEF Init, FreshGrid
  <2>3. room \in [Threads -> {0, Overflow["base"], Overflow["access"]}]
    BY DEF Init
  <2>. QED BY <2>1, <2>2, <2>3, RepsAssumption DEF Init, TypeOK
<1>2. ControlInv
  BY DEF Init, ControlInv
<1>3. GridInv
  BY DEF Init, GridInv, FreshGrid
<1>4. SumsInv /\ SamplesInv
  BY RepsAssumption DEF Init, SumsInv, SamplesInv
<1>. QED BY <1>1, <1>2, <1>3, <1>4 DEF IInv

----------------------------------------------------------------------------
LEMMA SpawnStep ==
  ASSUME IInv, Spawn
  PROVE  IInv'
<1> USE DEF IInv
<1>1. TypeOK'
  <2>1. pos' \in [Threads -> 0 .. NumBlocks]
    BY SliceBounds, BlocksAssumption DEF Spawn
  <2>2. grid' \in [Blocks -> [codec : {"base", "access"}, holds : Blocks]]
    BY DEF Spawn, FreshGrid
  <2>3. tDec' \in [Threads -> SUBSET Measurements] /\ decbuf' \in [Threads -> Blocks \cup {None}]
    BY DEF Spawn
  <2>. QED BY <2>1, <2>2, <2>3 DEF Spawn, TypeOK
<1>2. ControlInv'
  BY SliceBounds, RepsAssumption DEF Spawn, ControlInv, TypeOK
<1>3. GridInv'
  <2>1. ASSUME NEW t \in Threads, NEW j \in Slice(t)
        PROVE  /\ grid'[AccessIndexes[j]].codec = "base"
               /\ ~(j < pos'[t])
    BY SliceInGrid, SliceBounds DEF Spawn, FreshGrid
  <2>2. \A b \in Blocks : grid'[b].holds = b
    BY DEF Spawn, FreshGrid
  <2>3. \A t \in Threads : wpc'[t] # "store"
    BY DEF Spawn
  <2>. QED BY <2>1, <2>2, <2>3 DEF GridInv, Slice, Lo, Hi, Per
<1>4. SumsInv'
  <2> SUFFICES ASSUME NEW t \in Threads
               PROVE  tDec'[t] = Measured(t, rep', Reached(t)')
    BY DEF SumsInv, Measured, Lo, Per
  <2>1. Reached(t)' = Lo(t) /\ tDec'[t] = {}
    BY DEF Spawn, Reached
  <2>. QED BY <2>1, MeasuredNone
<1>5. SamplesInv'
  BY DEF Spawn, SamplesInv, Whole, Full, Measured, Lo, Hi, Per
<1>. QED BY <1>1, <1>2, <1>3, <1>4, <1>5

\* What the repetitions so far have measured belongs to them, so the sample of
\* the next is what it measures itself.
LEMMA SampleIsWhole ==
  ASSUME IInv
  PROVE  (stats \cup Whole(rep)) \ stats = Whole(rep)
<1>1. ASSUME NEW q
      PROVE  \A m \in Whole(q) : m[1] = q
  BY DEF Whole, Full, Measured
<1>2. DOMAIN med = 1 .. Len(med) /\ Len(med) \in Nat /\ rep \in Nat
  BY RepsAssumption DEF IInv, TypeOK
<1>3. ASSUME NEW k \in DOMAIN med
      PROVE  med[k] = Whole(NumSkip + k - 1) /\ NumSkip + k - 1 # rep
  BY <1>2, RepsAssumption DEF IInv, SamplesInv
<1>4. \A m \in stats : m[1] # rep
  <2>1. \A k \in DOMAIN med : \A m \in med[k] : m[1] # rep
    BY <1>1, <1>3
  <2>. QED BY <2>1 DEF IInv, SamplesInv
<1>. QED BY <1>1, <1>4

\* The workers have measured the whole grid when they have exited.
LEMMA JoinedWhole ==
  ASSUME IInv, JoinAndMerge
  PROVE  UNION {tDec[t] : t \in Threads} = Whole(rep)
<1>1. ASSUME NEW t \in Threads PROVE tDec[t] = Full(t, rep)
  BY DEF IInv, JoinAndMerge, SumsInv, ControlInv, Reached, Full
<1>. QED BY <1>1 DEF Whole

LEMMA JoinStep ==
  ASSUME IInv, JoinAndMerge
  PROVE  IInv'
<1> USE DEF IInv
<1>1. rep < NumReps /\ rep \in Nat /\ rep' = rep + 1 /\ mpc' = "build"
  BY RepsAssumption DEF JoinAndMerge, ControlInv, TypeOK
<1>2. med \in Seq(SUBSET Measurements) /\ Whole(rep) \in SUBSET Measurements
  BY JoinedWhole DEF TypeOK
<1>3. TypeOK'
  <2>1. med' \in Seq(SUBSET Measurements) /\ stats' \in SUBSET Measurements
    BY <1>2, JoinedWhole, SampleIsWhole DEF JoinAndMerge, TypeOK
  <2>2. rep' \in 0 .. NumReps
    BY <1>1, RepsAssumption
  <2>. QED BY <1>1, <2>1, <2>2 DEF TypeOK, JoinAndMerge, workerVars
<1>4. ControlInv' /\ SumsInv'
  BY <1>1 DEF JoinAndMerge, ControlInv, SumsInv, workerVars
<1>5. GridInv'
  BY <1>1 DEF JoinAndMerge, GridInv, workerVars, Block
<1>6. SamplesInv'
  <2>1. CASE Timed(rep)
    <3>1. med' = Append(med, Whole(rep)) /\ stats' = stats \cup Whole(rep)
      BY <2>1, JoinedWhole, SampleIsWhole DEF JoinAndMerge
    <3>2. Len(med) = rep - NumSkip /\ Len(med') = rep' - NumSkip
          /\ rep' > NumSkip /\ rep = NumSkip + Len(med')- 1
      BY <1>1, <1>2, <2>1, <3>1, RepsAssumption DEF SamplesInv, Timed
    <3>3. \A k \in 1 .. Len(med') :
            med'[k] = IF k = Len(med) + 1 THEN Whole(rep) ELSE med[k]
      BY <1>2, <3>1
    <3>4. \A k \in 1 .. Len(med') : med'[k] = Whole(NumSkip + k - 1)
      BY <1>1, <1>2, <3>1, <3>2, <3>3, RepsAssumption DEF SamplesInv
    <3>5. stats' = UNION {med'[k] : k \in DOMAIN med'}
      <4>1. DOMAIN med' = DOMAIN med \cup {Len(med) + 1}
        BY <1>2, <3>1
      <4>2. \A k \in DOMAIN med : med'[k] = med[k]
        BY <1>2, <3>1
      <4>3. med'[Len(med) + 1] = Whole(rep)
        BY <1>2, <3>1
      <4>4. stats = UNION {med[k] : k \in DOMAIN med}
        BY DEF SamplesInv
      <4>5. {med'[k] : k \in DOMAIN med'} = {med[k] : k \in DOMAIN med} \cup {Whole(rep)}
        BY <4>1, <4>2, <4>3, Zenon
      <4>6. stats' = stats \cup Whole(rep)
        BY <3>1
      <4>7. \A F, W : UNION (F \cup {W}) = (UNION F) \cup W
        OBVIOUS
      <4>. QED BY ONLY <4>4, <4>5, <4>6, <4>7, Zenon
    <3>. QED BY <3>2, <3>4, <3>5 DEF SamplesInv, Whole, Full, Measured, Lo, Hi, Per
  <2>2. CASE ~Timed(rep)
    <3>1. med' = med /\ stats' = stats /\ Len(med) = 0
      BY <1>1, <2>2, RepsAssumption DEF JoinAndMerge, SamplesInv, Timed
    <3>. QED BY <1>1, <2>2, <3>1, RepsAssumption
         DEF SamplesInv, Timed, Whole, Full, Measured, Lo, Hi, Per
  <2>. QED BY <2>1, <2>2
<1>. QED BY <1>3, <1>4, <1>5, <1>6

LEMMA ReportStep ==
  ASSUME IInv, Report
  PROVE  IInv'
<1> USE DEF IInv
<1>1. rep = NumReps
  BY RepsAssumption DEF Report, TypeOK
<1>2. TypeOK' /\ ControlInv' /\ SumsInv'
  BY <1>1 DEF Report, TypeOK, ControlInv, SumsInv, workerVars
<1>3. GridInv' /\ SamplesInv'
  BY DEF Report, GridInv, SamplesInv, workerVars, Block, Whole, Full, Measured, Lo, Hi, Per
<1>. QED BY <1>2, <1>3

----------------------------------------------------------------------------
LEMMA SizeBufferStep ==
  ASSUME IInv, NEW t \in Threads, SizeBuffer(t)
  PROVE  IInv'
<1> USE DEF IInv
<1>1. 0 \in Blocks
  BY BlocksAssumption DEF Blocks
<1>2. TypeOK'
  <2>1. Overflow[grid[0].codec] \in {Overflow["base"], Overflow["access"]}
    BY <1>1 DEF TypeOK
  <2>. QED BY <2>1 DEF SizeBuffer, TypeOK, mainVars
<1>3. ControlInv'
  BY SliceBounds DEF SizeBuffer, ControlInv, TypeOK, mainVars
<1>4. GridInv'
  BY DEF SizeBuffer, GridInv, TypeOK, mainVars, Block, Slice, Lo, Hi, Per
<1>5. SumsInv'
  BY DEF SizeBuffer, SumsInv, TypeOK, mainVars, Reached, Measured, Lo, Per
<1>6. SamplesInv'
  BY DEF SizeBuffer, SamplesInv, mainVars, Whole, Full, Measured, Lo, Hi, Per
<1>. QED BY <1>2, <1>3, <1>4, <1>5, <1>6

LEMMA DecodeStep ==
  ASSUME IInv, NEW t \in Threads, Decode(t)
  PROVE  IInv'
<1>0. Working(t)
  BY DEF Decode, Working
<1>1. mpc = "join" /\ pos[t] \in Slice(t) /\ Block(t) \in Blocks
  BY <1>0, AtBlock
<1> USE DEF IInv
<1>a. rep \in 0 .. NumReps - 1
  BY <1>1, RepsAssumption DEF ControlInv, TypeOK
<1>2. grid[Block(t)].holds = Block(t)
  BY <1>1 DEF GridInv
<1>3. TypeOK'
  <2>1. tDec' \in [Threads -> SUBSET Measurements]
    BY <1>1, <1>a DEF Decode, TypeOK, Measurements
  <2>2. decbuf' \in [Threads -> Blocks \cup {None}]
    BY <1>1, <1>2 DEF Decode, TypeOK
  <2>. QED BY <2>1, <2>2 DEF Decode, TypeOK, mainVars
<1>4. ControlInv'
  BY <1>1, SliceInGrid DEF Decode, ControlInv, TypeOK, mainVars
<1>5. GridInv'
  <2>1. ASSUME NEW u \in Threads, wpc'[u] = "store", ~isDirectAccess'
        PROVE  decbuf'[u] = Block(u)'
    BY <1>2, <2>1 DEF Decode, GridInv, TypeOK, Block
  <2>. QED BY <2>1 DEF Decode, GridInv, mainVars, Slice, Lo, Hi, Per
<1>6. SumsInv'
  <2> SUFFICES ASSUME NEW u \in Threads
               PROVE  tDec'[u] = Measured(u, rep, Reached(u)')
    BY DEF SumsInv, Decode, mainVars, Measured, Lo, Per
  <2>1. CASE u = t
    <3>1. tDec[t] = Measured(t, rep, pos[t]) /\ Reached(t)' = pos[t] + 1
      BY <1>1 DEF Decode, SumsInv, Reached, TypeOK
    <3>2. tDec'[t] = tDec[t] \cup {<<rep, t, AccessIndexes[pos[t]]>>}
      BY DEF Decode, TypeOK, Block
    <3>. QED BY <1>1, <2>1, <3>1, <3>2, SliceInGrid, MeasuredOneMore
  <2>2. CASE u # t
    BY <1>1, <2>2 DEF Decode, SumsInv, Reached, TypeOK
  <2>. QED BY <2>1, <2>2
<1>7. SamplesInv'
  BY DEF Decode, SamplesInv, mainVars, Whole, Full, Measured, Lo, Hi, Per
<1>. QED BY <1>3, <1>4, <1>5, <1>6, <1>7

LEMMA StoreStep ==
  ASSUME IInv, NEW t \in Threads, Store(t)
  PROVE  IInv'
<1>0. Working(t)
  BY DEF Store, Working
<1>1. mpc = "join" /\ pos[t] \in Slice(t) /\ Block(t) \in Blocks
  BY <1>0, AtBlock
<1> USE DEF IInv
<1>2. grid' = [grid EXCEPT ![Block(t)] = [codec |-> "access", holds |-> Block(t)]]
  BY <1>1 DEF Store, GridInv
<1>3. pos[t] + 1 \in 0 .. NumBlocks /\ Lo(t) <= pos[t] + 1 /\ pos[t] + 1 <= Hi(t)
  BY <1>1, SliceInGrid, SliceBounds
<1>4. TypeOK'
  BY <1>1, <1>2, <1>3 DEF Store, TypeOK, mainVars
<1>5. ControlInv'
  BY <1>1, <1>3 DEF Store, ControlInv, TypeOK, mainVars
<1>6. GridInv'
  <2>1. \A b \in Blocks : grid'[b].holds = b
    BY <1>1, <1>2 DEF GridInv, TypeOK
  <2>2. ASSUME NEW u \in Threads, NEW j \in Slice(u)
        PROVE  grid'[AccessIndexes[j]].codec = IF j < pos'[u] THEN "access" ELSE "base"
    <3>1. AccessIndexes[j] \in Blocks /\ j \in Int /\ pos[t] \in Int
      BY <1>1, SliceInGrid
    <3>2. grid[AccessIndexes[j]].codec = IF j < pos[u] THEN "access" ELSE "base"
      BY <1>1 DEF GridInv
    <3>3. CASE AccessIndexes[j] = Block(t)
      <4>1. j = pos[t] /\ u = t
        BY <1>1, <3>3, OneIndexPerBlock DEF Block
      <4>2. pos'[t] = pos[t] + 1
        BY DEF Store, TypeOK
      <4>. QED BY <1>2, <3>1, <3>3, <4>1, <4>2 DEF TypeOK
    <3>4. CASE AccessIndexes[j] # Block(t)
      <4>1. grid'[AccessIndexes[j]] = grid[AccessIndexes[j]]
        BY <1>2, <3>1, <3>4 DEF TypeOK
      <4>2. CASE u = t
        BY <3>1, <3>2, <3>4, <4>1, <4>2 DEF Store, TypeOK, Block
      <4>3. CASE u # t
        BY <3>2, <4>1, <4>3 DEF Store, TypeOK
      <4>. QED BY <4>2, <4>3
    <3>. QED BY <3>3, <3>4
  <2>3. ASSUME NEW u \in Threads, wpc'[u] = "store", ~isDirectAccess'
        PROVE  decbuf'[u] = Block(u)'
    BY <2>3 DEF Store, GridInv, TypeOK, Block
  <2>. QED BY <2>1, <2>2, <2>3 DEF GridInv, Slice, Lo, Hi, Per
<1>7. SumsInv'
  <2> SUFFICES ASSUME NEW u \in Threads
               PROVE  tDec[u] = Measured(u, rep, Reached(u)')
    BY DEF SumsInv, Store, mainVars, Measured, Lo, Per
  <2>1. Reached(u)' = Reached(u)
    BY DEF Store, Reached, TypeOK
  <2>. QED BY <1>1, <2>1 DEF SumsInv
<1>8. SamplesInv'
  BY DEF Store, SamplesInv, mainVars, Whole, Full, Measured, Lo, Hi, Per
<1>. QED BY <1>4, <1>5, <1>6, <1>7, <1>8

LEMMA ExitStep ==
  ASSUME IInv, NEW t \in Threads, Exit(t)
  PROVE  IInv'
<1> USE DEF IInv
<1>1. TypeOK'
  BY DEF Exit, TypeOK, mainVars
<1>2. ControlInv'
  BY SliceBounds DEF Exit, ControlInv, TypeOK, mainVars
<1>3. GridInv'
  BY DEF Exit, GridInv, TypeOK, mainVars, Block, Slice, Lo, Hi, Per
<1>4. SumsInv'
  BY DEF Exit, SumsInv, TypeOK, mainVars, Reached, Measured, Lo, Per
<1>5. SamplesInv'
  BY DEF Exit, SamplesInv, mainVars, Whole, Full, Measured, Lo, Hi, Per
<1>. QED BY <1>1, <1>2, <1>3, <1>4, <1>5

\* The inductive invariant holds of every execution.
THEOREM Invariant == Spec => []IInv
<1>1. IInv /\ UNCHANGED vars => IInv'
  <2> SUFFICES ASSUME IInv, UNCHANGED vars PROVE IInv'
    OBVIOUS
  <2> USE DEF IInv, vars, workerVars, mainVars
  <2>1. TypeOK' /\ ControlInv'
    BY DEF TypeOK, ControlInv
  <2>2. GridInv' /\ SumsInv' /\ SamplesInv'
    BY DEF GridInv, SumsInv, SamplesInv, Block, Reached, Whole, Full, Measured, Slice, Lo, Hi, Per
  <2>. QED BY <2>1, <2>2
<1>2. IInv /\ [Next]_vars => IInv'
  BY <1>1, SpawnStep, JoinStep, ReportStep, SizeBufferStep, DecodeStep, StoreStep, ExitStep
  DEF Next, Main, Worker, Returned
<1>. QED BY <1>2, InitIInv, PTL DEF Spec

----------------------------------------------------------------------------
\* The counters stay in their ranges; what is measured and held are blocks.
THEOREM PoolTypeCorrect == Spec => []TypeOK
<1>1. IInv => TypeOK
  BY DEF IInv
<1>. QED BY <1>1, Invariant, PTL

\* No worker ever decodes a block that has been re-encoded, by itself, by
\* another worker or in an earlier repetition.
THEOREM OnlyBaseIsDecoded == Spec => []DecodesBaseOnly
<1>1. IInv => DecodesBaseOnly
  <2> SUFFICES ASSUME IInv, NEW t \in Threads, wpc[t] \in {"loop", "store"}, pos[t] < Hi(t)
               PROVE  grid[Block(t)].codec = "base"
    BY DEF DecodesBaseOnly
  <2>0. Working(t)
    BY DEF Working
  <2>1. mpc = "join" /\ pos[t] \in Slice(t)
    BY <2>0, AtBlock
  <2>2. ~(pos[t] < pos[t])
    BY <2>1, SliceInGrid
  <2>. QED BY <2>1, <2>2 DEF IInv, GridInv, Block
<1>. QED BY <1>1, Invariant, PTL

\* Every codec of the grid always holds its own block, and the workers leave a
\* grid in which each has been re-encoded.
THEOREM NoBlockIsLost == Spec => []BlocksKept
<1>1. IInv => BlocksKept
  <2> SUFFICES ASSUME IInv, mpc = "join", \A t \in Threads : wpc[t] = "exit", NEW b \in Blocks
               PROVE  grid[b].codec = "access"
    BY DEF BlocksKept, IInv, GridInv
  <2>1. PICK t \in Threads : \E j \in Slice(t) : AccessIndexes[j] = b
    BY OwnerExists DEF Slice
  <2>2. PICK j \in Slice(t) : AccessIndexes[j] = b
    BY <2>1
  <2>3. j < pos[t]
    BY SliceInGrid DEF IInv, ControlInv
  <2>. QED BY <2>2, <2>3 DEF IInv, GridInv
<1>. QED BY <1>1, Invariant, PTL

\* The pool implements the sequential rounds (the safety part).
THEOREM RoundsImplemented == Spec => Rounds!Init /\ [][Rounds!Next]_(Rounds!vars)
<1>1. Init => Rounds!Init
  BY DEF Init, Rounds!Init
<1>2. IInv /\ [Next]_vars => [Rounds!Next]_(Rounds!vars)
  <2> SUFFICES ASSUME IInv, [Next]_vars PROVE [Rounds!Next]_(Rounds!vars)
    OBVIOUS
  <2>1. CASE JoinAndMerge
    <3>1. rep < NumReps /\ rep' = rep + 1 /\ mpc = "join" /\ mpc' = "build"
      BY <2>1 DEF JoinAndMerge, IInv, ControlInv
    <3>2. CASE rep >= NumSkip
      <4> DEFINE owner == [b \in Blocks |-> Owner(b)]
      <4>1. med' = Append(med, Whole(rep))
        BY <2>1, <3>2, JoinedWhole, SampleIsWhole DEF JoinAndMerge, Timed
      <4>2. owner \in [Blocks -> Threads]
        BY OwnerExists
      <4>3. Whole(rep) = {<<rep, owner[b], b>> : b \in Blocks}
        BY WholeIsOnePerBlock
      <4>4. Whole(rep) \in Rounds!RepSamples(rep)
        BY <4>2, <4>3 DEF Rounds!RepSamples
      <4>. QED BY <3>1, <3>2, <4>1, <4>4 DEF Rounds!Next, Rounds!CompleteRound
    <3>3. CASE ~(rep >= NumSkip)
      BY <2>1, <3>1, <3>3 DEF JoinAndMerge, Timed, Rounds!Next, Rounds!CompleteRound
    <3>. QED BY <3>2, <3>3
  <2>2. CASE Report
    <3>1. rep = NumReps /\ mpc = "build" /\ mpc' = "done"
      BY <2>2, RepsAssumption DEF Report, IInv, TypeOK
    <3>. QED BY <2>2, <3>1 DEF Report, Rounds!Next, Rounds!Report, IInv, SamplesInv
  <2>3. CASE UNCHANGED vars
    BY <2>3 DEF vars, mainVars, Rounds!vars
  <2>4. CASE Spawn
    BY <2>4 DEF Spawn, Rounds!vars
  <2>5. ASSUME NEW t \in Threads, Worker(t) PROVE UNCHANGED Rounds!vars
    BY <2>5 DEF Worker, SizeBuffer, Decode, Store, Exit, mainVars, Rounds!vars
  <2>. QED BY <2>1, <2>2, <2>3, <2>4, <2>5 DEF Next, Main, Returned
<1>. QED BY <1>1, <1>2, Invariant, PTL DEF Spec

============================================================================
