------------------------ MODULE MCSequentialPipeline -----------------------
(***************************************************************************)
(* SequentialPipeline with words of four bits and vectors of four words,   *)
(* on blocks of 3 x 3 words, which do not fill the vectors, and of 4 x 4   *)
(* words, as many as a word has values.  The rasters are those of up to    *)
(* 3 x 3 blocks, for every request up to two and a half times the largest; *)
(* all combinations are run for a raster of two blocks and a request of    *)
(* three, so that one block is in the grid twice, a few for the others.    *)
(***************************************************************************)
EXTENDS SequentialPipeline, SequencesExt

SmallSides    == 0 .. 3
SmallRequests == 0 .. 23

\* "low" words are below Half, "high" ones are not, "flat" ones are all above
\* the threshold; the two blocks of the raster differ.
SmallPixels(raster, o, length) ==
  LET b == IF o.x + o.y = 0 THEN 0 ELSE 1
  IN  [k \in 1 .. length |->
        CASE raster = "low"  -> (k * k + 2 * b) % Half
          [] raster = "high" -> (5 * k + b) % WordSize
          [] raster = "flat" -> CountThreshold + 1 + b]

SmallScratch    == {0, WordSize - 1}
SmallShuffles(k) ==
  IF k <= 3 THEN SetToSeqs(1 .. k) ELSE {Reverse([j \in 1 .. k |-> j])}

Direct      == [kind |-> "direct", overflow |-> 0]
Values      == [kind |-> "values", overflow |-> 0]
Roomy       == [kind |-> "values", overflow |-> 2]
Both        == [kind |-> "both", overflow |-> 2]
Sum         == [kind |-> "sum", overflow |-> 3]
Garbled     == [kind |-> "garbled", overflow |-> 0]

Basic == [path |-> "int32", base |-> Values, access |-> Direct, ordering |-> "default",
          initTrans |-> "none", accessTrans |-> "ValueShift", pattern |-> "random",
          raster |-> "low", numReps |-> 2, numSkip |-> 1]

Mutating == {"Threshold", "SmoothAndShift", "IndexBasedClassification",
             "ValueBasedClassification", "ValueShift"}

AccessCombosI32 ==
  {[Basic EXCEPT !.base = b, !.access = a, !.accessTrans = t, !.raster = r] :
     b \in {Direct, Values, Roomy, Both, Garbled}, a \in {Direct, Values},
     t \in Mutating \cup {"linearXOR", "linearSum", "linearSumSimd", "linearSumFused", "linearMin"},
     r \in {"low", "flat"}}

InitialCombosI32 ==
  {[Basic EXCEPT !.base = b, !.ordering = o, !.initTrans = i, !.accessTrans = t,
                 !.pattern = "linear"] :
     b \in {Direct, Both}, o \in {"default", "zigzag", "morton"},
     i \in Mutating \cup {"none"}, t \in {"linearSum", "Threshold"}}

CombosU16 ==
  {[Basic EXCEPT !.path = "uint16", !.base = b, !.access = a, !.accessTrans = t,
                 !.raster = r, !.numSkip = s] :
     b \in {Direct, Values, Roomy, Sum, Garbled}, a \in {Direct, Values},
     t \in {"randomXOR", "linearSum", "linearSumSimd", "linearSumSimdUnpack", "linearMin",
            "linearMax", "linearCountGtFxP", "linearCountGtFP", "linearSumFused", "Threshold"},
     r \in {"low", "high", "flat"}, s \in {0, 1}}

SmallCombos(total, request, side) ==
  IF total = 2 /\ request = 3 THEN AccessCombosI32 \cup InitialCombosI32 \cup CombosU16
  ELSE {[Basic EXCEPT !.numReps = 1, !.numSkip = 0],
        [Basic EXCEPT !.path = "uint16", !.base = Sum, !.accessTrans = "linearSumFused",
                      !.numReps = 1, !.numSkip = 0]}

============================================================================
