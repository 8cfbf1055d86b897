CONSTANTS
  NumThreads = 3
  NumBlocks = 6
  NumReps = 3
  NumSkip = 1
  AccessIndexes <- Shuffled
SPECIFICATION Spec
INVARIANTS
  TypeOK
  NoSharedBlock
  QuietWhileCollecting
  SamplesWhole
  StatsMatchSamples
PROPERTIES
  BarrierHolds
  Finishes
  ImplementsRounds
