CONSTANTS
  Half = 16
  WordBits = 5
  ScratchLen = 32
  Lanes128 = 2
  Lanes256 = 4
  OutRegs = 2
  Windows = {1, 2, 4, 8}
  OuterWindows = {8}
  Objects = {"a", "b"}
  None = None
  Suites <- SmallSuites
  Blocks <- SmallBlocks
SPECIFICATION Spec
INVARIANTS
  SumIsTrue
  HistoryFree
  LanesTrue
