----------------------------- MODULE RasterSizes ---------------------------
(***************************************************************************)
(* The rasters and the requests of an instance: of BlockSampling and of    *)
(* the programs that sample with it.                                       *)
(***************************************************************************)
EXTENDS Integers

CONSTANTS Sides,     \* the values of blocksInWidth and of blocksInHeight
          Requests,  \* the values of numBlocks
          BlockSizes \* the values of blockSize

ASSUME SidesAssumption    == Sides \subseteq Nat
ASSUME RequestsAssumption == Requests \subseteq Nat
ASSUME SizeAssumption     == BlockSizes \subseteq Nat \ {0}

============================================================================
