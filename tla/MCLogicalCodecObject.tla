------------------------ MODULE MCLogicalCodecObject -----------------------
(***************************************************************************)
(* Words of four bits (0 .. 15), so that differences wrap and runs of 17   *)
(* must be split; blocks of up to six values, over several windows, the    *)
(* last one partial, and up to two rows of a predictor's neighbourhood;    *)
(* blocks of up to 20 values, over several vectors and with every length   *)
(* of the tail.  A vector has two or four lanes: the AVX2 codec needs four *)
(* for its pairs of words to differ.                                       *)
(***************************************************************************)
EXTENDS LogicalCodecObject

Vectors ==
  {[isa |-> "sse42", lanes |-> 2], [isa |-> "avx2", lanes |-> 4],
   [isa |-> "avx512", lanes |-> 4], [isa |-> "sse42u16", lanes |-> 2]}

SmallCodecs ==
  {[kind |-> "delta"], [kind |-> "double"], [kind |-> "rle"], [kind |-> "rle8"]}
    \cup {[kind |-> "for", w |-> w, sep |-> sep] : w \in {0, 2}, sep \in BOOLEAN}
    \cup {[kind |-> "hier", gw |-> 4, lw |-> 2, sep |-> sep] : sep \in BOOLEAN}
    \cup {[kind |-> "predict", predictor |-> p] : p \in Predictors}
    \cup {[kind |-> k, isa |-> v.isa, lanes |-> v.lanes] :
            k \in {"vdelta", "vfor", "vrle"}, v \in Vectors}

\* n words that climb by d and start again every m.
Sawtooth(n, d, m) == [i \in 1 .. n |-> (14 + d * (i % m)) % WordSize]

\* A step in the middle that a signed shift would not give back.
Peak(n) == [i \in 1 .. n |-> IF i = 10 THEN 12 ELSE 3]

SmallBlocks ==
  [1 .. 1 -> {0, 7, 8, 15}] \cup [1 .. 2 -> {0, 3, 7, 8, 15}] \cup [1 .. 4 -> {0, 12}]
    \cup {<<a, b, c, d, b, a>> : a, b \in {0, 15}, c, d \in {0, 9, 14}}
    \cup {Sawtooth(n, s[1], s[2]) : n \in {5, 9} \cup 17 .. 20, s \in {<<1, 2>>, <<1, 6>>, <<3, 6>>}}
    \cup {Peak(n) : n \in 17 .. 20}
    \cup {[i \in 1 .. n |-> 1] : n \in {7, 16, 33}}

============================================================================
