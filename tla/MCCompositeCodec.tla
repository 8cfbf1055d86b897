-------------------------- MODULE MCCompositeCodec -------------------------
(***************************************************************************)
(* Composites of the scalar logical codecs on two-bit words.  The blocks   *)
(* differ in length, in the number of their runs and in the number of      *)
(* windows, so that the intermediate arrays of one object grow and shrink, *)
(* and the padding of the hierarchical codec is met.                       *)
(***************************************************************************)
EXTENDS CompositeCodec

CONSTANT WordBits

U16 == INSTANCE CodecsU16

Logical ==
  {[kind |-> "delta"], [kind |-> "rle"]}
    \cup {[kind |-> "for", w |-> w, sep |-> sep] : w \in {0, 2}, sep \in BOOLEAN}
    \cup {[kind |-> "hier", gw |-> 4, lw |-> 2, sep |-> sep] : sep \in BOOLEAN}

\* Those that the codec collection cascades with the fused physical codecs.
Summed ==
  {c \in Logical : c.kind = "hier"} \cup {[kind |-> "for", w |-> 2, sep |-> sep] : sep \in BOOLEAN}

PutU16(c, s, b) == U16!Put(c, s, b)
GetU16(c, s, n) == U16!Get(c, s, n)
EncodingsU16(c, b) == U16!Encodings(c, b)

\* One byte for four words, and one for each of the first words that is large.
SomeUnits(v) == (Len(v) + 3) \div 4 + (IF Len(v) > 0 /\ v[1] > 1 THEN 1 ELSE 0)

\* TurboPForCodecU16 counts bytes, an int32_t codec counts words of four.
Values == {[fused |-> FALSE, unit |-> 1, overflow |-> 3],
           [fused |-> FALSE, unit |-> 4, overflow |-> 0]}

Sums == {[fused |-> TRUE, unit |-> 1, overflow |-> 2]}

ValuesAndSums == Values \cup Sums

SomeCascades == [first : Logical, second : Values] \cup [first : Summed, second : Sums]

SomeBlocks ==
  {<<2>>, <<3, 3>>, <<3, 0>>, <<1, 2, 2, 3>>, <<0, 0, 0, 0>>, <<3, 0, 3, 0, 3, 0>>,
   <<0, 0, 3, 3, 0, 0>>, <<3, 3, 2, 2, 3, 3>>, <<2, 2, 3, 3, 1, 1, 1, 1>>}

============================================================================
