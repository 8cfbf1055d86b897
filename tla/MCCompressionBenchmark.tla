----------------------- MODULE MCCompressionBenchmark ----------------------
(***************************************************************************)
(* Every logical and every predictive int32_t codec, alone and cascaded,   *)
(* and a collection of two, in two configurations of two blocks of up to   *)
(* four words of five bits.                                                *)
(***************************************************************************)
EXTENDS CompressionBenchmark, TLC

Kinds == {[kind |-> "delta"], [kind |-> "double"], [kind |-> "for"], [kind |-> "rle"]}
           \cup {[kind |-> "predict", predictor |-> p] : p \in Predictors}

With(k, cascaded) == k @@ [cascaded |-> cascaded]

OneOrTwo ==
  {<<With(k, b)>> : k \in Kinds, b \in BOOLEAN}
    \cup {<<With([kind |-> "delta"], TRUE), With([kind |-> "rle"], TRUE)>>}

FewBlocks == {<<3, 3, 3, 3>>, <<0, 1, 3, 1>>, <<2, 0, 0, 5>>, <<31, 2, 30, 16>>}

============================================================================
