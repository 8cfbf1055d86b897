---------------------------- MODULE MCPredictLoop --------------------------
(***************************************************************************)
(* PredictLoop with the predictors of the code, on 2 x 2 blocks of two-bit *)
(* words.  Delta is the predictor "the element before, 0 at first".        *)
(***************************************************************************)
EXTENDS PredictLoop, Sequences

Code == INSTANCE PredictiveCodecsU16

DeltaCodec == <<"delta", 0>>

AllPredictors == Code!Predictors \cup {DeltaCodec}

PredictFrom(p, v, j) ==
  IF p = DeltaCodec THEN IF j = 0 THEN 0 ELSE v[j - 1]
  ELSE Code!Predict(p, Code!GetNeighbors(v, j, Code!BlockStride(N)))

Delta == {DeltaCodec}

\* Corners of the word range, so that differences wrap and neighbours tie.
SomeBlocks ==
  {v \in Buffers : v[0] \in {0, 3} /\ v[1] \in {0, 2} /\ v[2] \in {1, 3} /\ v[3] \in {0, 3}}

============================================================================
