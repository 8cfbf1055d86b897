CONSTANTS
  Half = 8
  WordBits = 4
  Codecs <- SmallCodecs
  Blocks <- SmallBlocks
SPECIFICATION Spec
INVARIANTS
  TypeOK
  RoundTrip
  HistoryFree
  FitsAllocation
