------------------------------ MODULE CodecsI32 ----------------------------
(***************************************************************************)
(* The scalar logical and the predictive int32_t codecs.  They compute as  *)
(* the uint16_t ones do, on words that are signed, but the logical ones    *)
(* append to their vector: what it holds when EncodeArray is called stays  *)
(* in front of the new code.  An object is its vector compressed_data, a   *)
(* word is kept as its two's complement in 0 .. WordSize - 1.              *)
(***************************************************************************)
EXTENDS CodecsU16

\* *std::min_element, which compares signed words.
LeastSigned(b) == CHOOSE x \in ToSet(b) : \A y \in ToSet(b) : Signed(x) <= Signed(y)

FORCode(b) ==
  <<LeastSigned(b)>> \o [i \in DOMAIN b |-> ZigzagEnc16(Minus(b[i], LeastSigned(b)))]

FORDecoded(v, n) == [i \in 1 .. n |-> Plus(ZigzagDec16(v[i + 1]), v[1])]

\* Pairs (value, run); the length of a run is stored in a word.
RLECode(b) ==
  LET from[i \in 1 .. Len(b) + 1] ==
        IF i > Len(b) THEN <<>>
        ELSE <<b[i], (RunEnd(b, i) - i) % WordSize>> \o from[RunEnd(b, i)]
  IN  from[1]

\* It reads to the end of the vector, whatever length it is asked for.
RLEDecoded(v) ==
  FlattenSeq([k \in 1 .. Len(v) \div 2 |-> [j \in 1 .. v[2 * k] |-> v[2 * k - 1]]])

Neighbors32(v, i, stride) ==
  LET g == GetNeighbors(v, i, stride)
  IN  [A |-> Signed(g.A), B |-> Signed(g.B), C |-> Signed(g.C)]

PredictCode(p, b) ==
  LET v == [i \in 0 .. Len(b) - 1 |-> b[i + 1]]
  IN  [i \in DOMAIN b |->
         ZigzagEnc16(Minus(b[i], Predict(p, Neighbors32(v, i - 1, BlockStride(Len(b))))))]

PredictDecoded(p, v, n) ==
  LET out[i \in 0 .. n - 1] ==
        Plus(Predict(p, Neighbors32(out, i, BlockStride(n))), ZigzagDec16(v[i + 1]))
  IN  [i \in 1 .. n |-> out[i - 1]]

\* (Mutant: run lengths are only reserved for, too.)
AllocEncodedReserve(c, v, n) == IF c.kind = "predict" THEN Resize(v, n) ELSE v

\* AllocEncoded, on the vector v for n values: delta, double delta and FoR
\* only reserve; run lengths begin with two zeros, an empty run.
AllocEncoded(c, v, n) ==
  CASE c.kind = "rle"     -> Resize(v, 2)
    [] c.kind = "predict" -> Resize(v, n)
    [] OTHER              -> v

\* EncodeArray.  A predictive codec writes its vector by index, from the start.
EncodeArray(c, v, b) ==
  CASE c.kind = "delta"   -> v \o ZigzagTail(Differences(b))
    [] c.kind = "double"  -> v \o ZigzagTail(Differences(Differences(b)))
    [] c.kind = "for"     -> v \o FORCode(b)
    [] c.kind = "rle"     -> v \o RLECode(b)
    [] c.kind = "predict" -> PredictCode(c.predictor, b) \o SubSeq(v, Len(b) + 1, Len(v))

DecodeArray(c, v, n) ==
  CASE c.kind = "delta"   -> PrefixSums(v, n, ZigzagDec16)
    [] c.kind = "double"  -> PrefixSums(PrefixSums(v, n, ZigzagDec16), n, Plain)
    [] c.kind = "for"     -> FORDecoded(v, n)
    [] c.kind = "rle"     -> RLEDecoded(v)
    [] c.kind = "predict" -> PredictDecoded(c.predictor, v, n)

============================================================================
