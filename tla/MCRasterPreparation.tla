------------------------ MODULE MCRasterPreparation ------------------------
(***************************************************************************)
(* RasterPreparation on rasters of two blocks of two pixels, with a byte   *)
(* of one bit, short words of three and long words of four bits: for each  *)
(* data type its smallest and its largest pixel and some between, and      *)
(* nodata values that are among them, in the range of the type only, or    *)
(* outside of it.                                                          *)
(***************************************************************************)
EXTENDS RasterPreparation

SomePixels ==
  [type \in {"Byte", "Int16", "UInt16", "Int32"} |->
     CASE type = "Byte"   -> {0, 1}
       [] type = "UInt16" -> {0, 1, 3, 7}
       [] type = "Int16"  -> {-4, -2, 1, 3}
       [] type = "Int32"  -> {-8, -2, 1, 7}]

SomeNoData == {-9, -8, -2, 0, 1, 3}

============================================================================
