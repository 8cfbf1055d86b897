CONSTANTS
  Half = 2
  N = 4
  Classes <- AllPredictors
  RawFirst <- Delta
  Prediction <- PredictFrom
  Inputs <- SomeBlocks
SPECIFICATION LoopSpec
INVARIANTS
  LoopTypeOK
  PrefixRestored
