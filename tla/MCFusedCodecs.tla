---------------------------- MODULE MCFusedCodecs --------------------------
(***************************************************************************)
(* Words of five bits; registers of 2 and 4 words, packed blocks of two    *)
(* registers: 4 and 8 words.  Windows of 1, 2, 4 and 8 words then are what *)
(* windows of 4 to 256 words are for registers of 8 and 16: parts of one   *)
(* register, one, several, a whole block or more.                          *)
(***************************************************************************)
EXTENDS FusedCodecs

\* Anchors raw or packed; words widened by one instruction or the other, with
\* the anchors in the lanes or beside them.  Other combinations add no case.
Ways == {<<TRUE, "unpack", FALSE>>, <<TRUE, "madd", FALSE>>,
         <<FALSE, "madd", FALSE>>, <<FALSE, "madd", TRUE>>}

Regular ==
  UNION {{SimdCompFusedForCodecU16_128(w, way[1], way[2], way[3]),
          SimdCompFusedForCodecU16_256(w, way[1], way[2], way[3]),
          TurboPForFusedForCodecU16(w, way[1], way[2], way[3])} :
     w \in Windows, way \in Ways}

Hier ==
  UNION {{SimdCompFusedForHierarchicalCodecU16_128(W, w, "madd"),
          SimdCompFusedForHierarchicalCodecU16_256(W, w, "madd"),
          TurboPForFusedForHierarchicalCodecU16(W, w, "madd", nobc)} :
     W \in OuterWindows, w \in Windows, nobc \in BOOLEAN}

Others ==
  {SimdCompFusedCodecU16, SimdCompFusedCodecU16_128, SimdCompFusedDeltaLocalCodecU16,
   SimdCompFusedDeltaCarryCodecU16, SimdCompFusedForLocalCodecU16,
   SimdCompFusedForHierarchicalCodecU16, TurboPForFusedCodecU16, TurboPForFused256CodecU16}
  \cup {TurboPForFused256VariantCodecU16(agg) : agg \in {"unpack", "madd"}}
  \cup {SimdCompFusedForGlobalCodecU16(w) : w \in {4, 8}}
  \cup {FastPForFusedCorrectedForGlobalCodecU16(w) : w \in {4, 8}}
  \cup {FastPForFusedCodecU16, FastPForFusedCorrectedDeltaLocalCodecU16,
        FastPForFusedCorrectedDeltaCarryCodecU16}
  \cup {FastPForFusedCorrectedCodecU16(w) : w \in {4, 8}}

\* Each class beside one that packs anchors in the arrays of the same width.
Neighbours ==
  {SimdCompFusedForCodecU16_128(1, FALSE, "madd", FALSE),
   SimdCompFusedForCodecU16_256(1, FALSE, "madd", FALSE)}

SmallSuites ==
  {s \in [{"a", "b"} -> Regular \cup Hier \cup Others \cup Neighbours] :
     s["b"] \in Neighbours /\ s["a"].scratch \in {"none", s["b"].scratch}}

B(n, f(_)) == [n |-> n, v |-> [i \in 0 .. n - 1 |-> f(i)]]

\* Mixed words up to the largest; large words with small residuals; one block;
\* small words, so that madd is safe.
Mixed == B(32, LAMBDA i : (i * 11 + 7) % 32)
SmallBlocks ==
  [a |-> {Mixed, B(24, LAMBDA i : 20 + ((i * 5) % 7)),
          B(8, LAMBDA i : 31 - i), B(16, LAMBDA i : (i * 7 + i \div 8) % 16)},
   b |-> {Mixed}]

============================================================================
