CONSTANTS
  ByteSize = 2
  HalfWord = 4
  HalfLong = 8
  DataTypes = {"Byte", "Int16", "UInt16", "Int32"}
  Pixels <- SomePixels
  RasterBlocks = 2
  BlockLength = 2
  NoDataValues <- SomeNoData
  Percentages = {0, 50}
SPECIFICATION Spec
INVARIANTS
  TypeOK
  NodataIsZero
  OrderKept
  NormalisedOtherwise
  SkipsByShareOtherwise
