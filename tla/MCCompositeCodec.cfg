CONSTANTS
  Half = 2
  WordBits = 2
  Firsts <- Logical
  Seconds <- ValuesAndSums
  Cascades <- SomeCascades
  Blocks <- SomeBlocks
  PutFirst <- PutU16
  GetFirst <- GetU16
  CodesOfFirst <- EncodingsU16
  StoredUnits <- SomeUnits
SPECIFICATION Spec
INVARIANTS
  TypeOK
  Restores
  SizeIsHonest
PROPERTIES
  ImplementsStore
