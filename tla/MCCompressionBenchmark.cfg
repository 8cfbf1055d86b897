CONSTANTS
  Half = 16
  WordBits = 5
  Collections <- OneOrTwo
  BlockSet <- FewBlocks
  NumBlocks = 2
  NumConfigs = 2
  Overflow = 1
SPECIFICATION BenchSpec
INVARIANTS
  FreshUnlessError
  OverwritingIsHonest
  UnharmedIsHonest
