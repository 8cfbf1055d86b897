CONSTANTS
  NumThreads = 3
  NumBlocks = 5
  NumReps = 2
  NumSkip = 1
  AccessIndexes <- Shuffled
  Overflow <- Sizes
SPECIFICATION Spec
INVARIANTS
  NoDataRace
