CONSTANTS
  Half = 8
  VectorLanes = 4
  MaxClasses = 4
  Delta = 5
  CountThreshold = 2
  Sides <- SmallSides
  Requests <- SmallRequests
  BlockSizes = {3, 4}
  Combos <- SmallCombos
  Pixels <- SmallPixels
  Scratch <- SmallScratch
  Shuffles <- SmallShuffles
SPECIFICATION Spec
INVARIANTS
  TypeOK
  NoRepetition
  Balanced
  TraceIsTrue
  GridIsTrue
  SamplesAreRepetitions
  RatioIsOfBase
