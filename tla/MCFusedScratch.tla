---------------------------- MODULE MCFusedScratch -------------------------
(***************************************************************************)
(* Fused codecs as the second codecs of the cascades that BuildAllCodecsU16*)
(* registers: they are not given the block but what FORCodecU16 made of it.*)
(* With its anchors kept among the residuals (separateMeta false) that is  *)
(* longer than the block, and still a whole number of packed blocks.       *)
(***************************************************************************)
EXTENDS FusedCodecs, Sequences

Logical == INSTANCE LogicalCodecsU16

\* A block of the largest size, 256 * 256 words, as a sequence.
Largest == [i \in 1 .. ScratchLen |-> (i * 11) % 32]

\* The words that the second codec of a cascade encodes, for each window.
Forwarded(w, sep) ==
  LET data == Logical!FORPut(w, sep, Logical!Fresh, Largest).data
  IN  [n |-> Len(data), v |-> [i \in 0 .. Len(data) - 1 |-> data[i + 1]]]

SmallSuites ==
  [{"a"} -> {SimdCompFusedForCodecU16_256(4, TRUE, "madd", FALSE),
             TurboPForFusedForCodecU16(4, FALSE, "madd", TRUE)}]

SmallBlocks == [a |-> {Forwarded(w, sep) : w \in {2, 4}, sep \in BOOLEAN}]

============================================================================
