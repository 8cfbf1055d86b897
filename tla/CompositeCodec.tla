---------------------------- MODULE CompositeCodec -------------------------
(***************************************************************************)
(* CompositeStatefulIntegerCodec: a logical codec followed by a physical   *)
(* one.  The composite keeps no buffer of its own: the first codec's       *)
(* vector carries the intermediate words both ways, so it is written by    *)
(* the first codec's encoder, by the composite's resizes and by the second *)
(* codec's decoder, and what one call leaves in it the next call finds.    *)
(*                                                                         *)
(* A first codec is known by PutFirst, GetFirst and CodesOfFirst, a second *)
(* one by the number of units it stores and by what its DecodeArray writes:*)
(* every value, or ("fused") only the two halves of their sum, behind the  *)
(* values.                                                                 *)
(***************************************************************************)
EXTENDS Words, Sequences

CONSTANTS Firsts,           \* the first codecs
          Seconds,          \* the second codecs: [fused, unit, overflow]
          Cascades,         \* the pairs of them that a codec collection builds
          Blocks,           \* the blocks that are encoded
          PutFirst(_, _, _),   \* PutFirst(c, s, b): the vectors s after encoding b
          GetFirst(_, _, _),   \* GetFirst(c, s, n): what DecodeArray(out, n) writes
          CodesOfFirst(_, _),  \* CodesOfFirst(c, b): the vectors that encode b
          StoredUnits(_)    \* the units in which the second codec stores words

VARIABLES codec,                    \* [first, second]
          first,                    \* the first codec's vectors [data, meta]
          packed,                   \* the words the second codec holds
          intermediateEncodedSize,
          block,                    \* the caller's block, None if not encoded
          out,                      \* what DecodeArray gave, None before
          benchOut                  \* what BenchDecode gave, None before

vars == <<codec, first, packed, intermediateEncodedSize, block, out, benchOut>>

None  == <<>>
Fresh == [data |-> <<>>, meta |-> <<>>]

\* std::vector::resize: the new elements are zero.
Resized(v, n) == [k \in 1 .. n |-> IF k <= Len(v) THEN v[k] ELSE 0]

\* What the second codec's DecodeArray leaves in v, when it is given room for
\* n words and may write behind them as well.
FromSecond(v, n) ==
  [k \in 1 .. Len(v) |->
     IF k > n \/ codec.second.fused \/ k > Len(packed) THEN v[k] ELSE packed[k]]

Init ==
  /\ codec \in Cascades
  /\ first = Fresh
  /\ packed = <<>>
  /\ intermediateEncodedSize = 0
  /\ block = None
  /\ out = None
  /\ benchOut = None

\* (Mutant: the size of the intermediate array is the caller's length.)
EncodeArrayByLength(b) ==
  LET e == PutFirst(codec.first, first, b)
  IN  /\ intermediateEncodedSize' = Len(b)
      /\ packed' = e.data
      /\ first' = [e EXCEPT !.data = <<>>]
      /\ block' = b
      /\ out' = None
      /\ benchOut' = None
      /\ UNCHANGED codec

\* EncodeArray, and BenchEncode, which is the same calls around two timers.
EncodeArray(b) ==
  LET e == PutFirst(codec.first, first, b)
  IN  /\ intermediateEncodedSize' = Len(e.data)
      /\ packed' = e.data
      /\ first' = [e EXCEPT !.data = <<>>]
      /\ block' = b
      /\ out' = None
      /\ benchOut' = None
      /\ UNCHANGED codec

\* (Mutant: the room for the second codec's overflow is not taken back.)
DecodedIntermediateUntrimmed ==
  LET n == intermediateEncodedSize
  IN  FromSecond(Resized(first.data, n + codec.second.overflow), n)

\* The intermediate vector that DecodeArray hands to the first codec.
DecodedIntermediate ==
  LET n    == intermediateEncodedSize
      room == Resized(first.data, n + codec.second.overflow)
  IN  Resized(FromSecond(room, n), n)

DecodeArray ==
  /\ block # None
  /\ first' = [first EXCEPT !.data = DecodedIntermediate]
  /\ out' = GetFirst(codec.first, first', Len(block))
  /\ UNCHANGED <<codec, packed, intermediateEncodedSize, block, benchOut>>

\* The same with reserve in place of the first resize: only the elements the
\* vector already has survive the resize that follows.
BenchDecode ==
  /\ block # None
  /\ first' = [first EXCEPT !.data =
                 Resized(FromSecond(first.data, intermediateEncodedSize),
                         intermediateEncodedSize)]
  /\ benchOut' = GetFirst(codec.first, first', Len(block))
  /\ packed' = <<>>
  /\ block' = None
  /\ out' = None
  /\ UNCHANGED <<codec, intermediateEncodedSize>>

\* The first codec's metadata and the cached size stay.
clear ==
  /\ first' = [first EXCEPT !.data = <<>>]
  /\ packed' = <<>>
  /\ block' = None
  /\ out' = None
  /\ benchOut' = None
  /\ UNCHANGED <<codec, intermediateEncodedSize>>

CloneFresh ==
  /\ first' = Fresh
  /\ packed' = <<>>
  /\ intermediateEncodedSize' = 0
  /\ block' = None
  /\ out' = None
  /\ benchOut' = None
  /\ UNCHANGED codec

\* (Mutant: side metadata of less than a unit is free.)
EncodedNumValuesFloored ==
  StoredUnits(packed) + (2 * Len(first.meta)) \div codec.second.unit

EncodedNumValues ==
  LET extra == 2 * Len(first.meta)   \* ExtraEncodedBytes
      unit  == codec.second.unit     \* EncodedSizeValue
  IN  StoredUnits(packed) + (extra + unit - 1) \div unit

Next ==
  \/ \E b \in Blocks : EncodeArray(b)
  \/ DecodeArray
  \/ BenchDecode
  \/ clear
  \/ CloneFresh

Spec == Init /\ [][Next]_vars

----------------------------------------------------------------------------
(***************************************************************************)
(* What a first codec must do for the composite to work.                   *)
(***************************************************************************)

\* What the composite may leave in the vectors of a first codec.
Residues(c) ==
  LET codes == UNION {CodesOfFirst(c, b) : b \in Blocks}
  IN  [data : {<<>>} \cup {e.data : e \in codes} \cup {Resized(<<>>, Len(e.data)) : e \in codes},
       meta : {<<>>} \cup {e.meta : e \in codes}]

\* The codec overwrites whatever it finds in its vectors, or what it leaves of
\* it does not matter.
ASSUME OverwriteAssumption ==
  \A c \in Firsts, b \in Blocks : \A s \in Residues(c) : PutFirst(c, s, b) \in CodesOfFirst(c, b)

\* It decodes what it has encoded.
ASSUME InverseAssumption ==
  \A c \in Firsts, b \in Blocks : \A e \in CodesOfFirst(c, b) : GetFirst(c, e, Len(b)) = b

\* Its vectors are two sequences of words.
ASSUME VectorsAssumption ==
  \A c \in Firsts, b \in Blocks : \A e \in CodesOfFirst(c, b) :
    e \in [data : Seq(Word), meta : Seq(Word)]

\* The second codec stores the words in a number of whole units.
ASSUME UnitsAssumption ==
  \A c \in Firsts, b \in Blocks : \A e \in CodesOfFirst(c, b) : StoredUnits(e.data) \in Nat

ASSUME BlocksAssumption == None \notin Blocks

ASSUME SecondsAssumption ==
  Seconds \subseteq [fused : BOOLEAN, unit : Nat \ {0}, overflow : Nat]

ASSUME CascadesAssumption == Cascades \subseteq [first : Firsts, second : Seconds]

----------------------------------------------------------------------------
\* The first codec's vectors never hold anything but an intermediate array of
\* one block, zeros of the length of one, or nothing.
TypeOK ==
  /\ codec \in [first : Firsts, second : Seconds]
  /\ first \in Residues(codec.first)
  /\ intermediateEncodedSize
       \in {0} \cup UNION {{Len(e.data) : e \in CodesOfFirst(codec.first, b)} : b \in Blocks}
  /\ block \in Blocks \cup {None}

\* DecodeArray gives the block of the last EncodeArray, whatever was encoded,
\* decoded or half decoded in the same object before, if the second codec
\* gives its values back.
Restores == ~codec.second.fused /\ out # None => out = block

\* The reported size is that of the physical words and of this block's side
\* metadata, in whole units: nothing is dropped and nothing is left over from
\* an earlier block.
SizeIsHonest ==
  block # None =>
    \E e \in CodesOfFirst(codec.first, block) :
      LET unit  == codec.second.unit
          bytes == StoredUnits(e.data) * unit + 2 * Len(e.meta)
      IN  /\ e.data = packed
          /\ EncodedNumValues * unit >= bytes
          /\ EncodedNumValues * unit < bytes + unit

\* What the codec would decode to in any state, from its vectors alone.
Held ==
  IF block = None THEN None
  ELSE GetFirst(codec.first, [data |-> packed, meta |-> first.meta], Len(block))

Store == INSTANCE BlockStore WITH held <- Held

\* A composite whose second codec gives its values back is a block store.
ImplementsStore ==
  Store!Init /\ [][~codec.second.fused => Store!Next]_<<Held, out>>

============================================================================
