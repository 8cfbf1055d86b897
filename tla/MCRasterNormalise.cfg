CONSTANTS
  ByteSize = 2
  HalfWord = 4
  HalfLong = 8
  DataTypes = {"Int16"}
  Pixels <- SomePixels
  RasterBlocks = 2
  BlockLength = 2
  NoDataValues <- SomeNoData
  Percentages = {0, 50}
SPECIFICATION Spec
INVARIANTS
  Normalised
