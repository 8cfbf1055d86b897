------------------------------ MODULE CodecsU16 ----------------------------
(***************************************************************************)
(* The logical and the predictive uint16_t codecs, and the vectorised      *)
(* codecs, behind the one interface they all implement,                    *)
(* StatefulIntegerCodec: a codec is a record [kind, ...] with its          *)
(* settings, an object of it a record [data, meta].                        *)
(***************************************************************************)
EXTENDS VectorCodecs, PredictiveCodecsU16

\* AllocEncoded(b), EncodeArray(b)
Put(c, s, b) ==
  CASE c.kind = "delta"   -> DeltaPut(s, b)
    [] c.kind = "double"  -> DoubleDeltaPut(s, b)
    [] c.kind = "for"     -> FORPut(c.w, c.sep, s, b)
    [] c.kind = "hier"    -> HierPut(c, s, b)
    [] c.kind = "rle"     -> RLEPut(s, b)
    [] c.kind = "predict" -> PredictPut(c.predictor, s, b)
    [] c.kind = "vdelta"  -> [s EXCEPT !.data = VectorDeltaCode(c, b)]
    [] c.kind = "vfor"    -> [s EXCEPT !.data = VectorFORCode(c, b)]
    [] c.kind = "vrle"    -> [s EXCEPT !.data = VectorRLECode(c, @, b)]
    [] c.kind = "rle8"    -> RLECodecU8Put(s, b)

\* DecodeArray(out, n)
Get(c, s, n) ==
  CASE c.kind = "delta"   -> DeltaGet(s, n)
    [] c.kind = "double"  -> DoubleDeltaGet(s, n)
    [] c.kind = "for"     -> FORGet(c.w, c.sep, s, n)
    [] c.kind = "hier"    -> HierGet(c, s, n)
    [] c.kind = "rle"     -> RLEGet(s, n)
    [] c.kind = "predict" -> PredictGet(c.predictor, s, n)
    [] c.kind = "vdelta"  -> VectorDeltaGet(c, s, n)
    [] c.kind = "vfor"    -> VectorFORGet(c, s, n)
    [] c.kind = "vrle"    -> VectorRLEGet(s)
    [] c.kind = "rle8"    -> RLECodecU8Get(s, n)

\* The codes of block b: a byte of padding may keep what was there before.
Encodings(c, b) ==
  IF c.kind = "hier" THEN {HierCode(c, b, w) : w \in Word} ELSE {Put(c, Fresh, b)}

Vectorised(c) == c.kind \in {"vdelta", "vfor", "vrle"}

\* The blocks EncodeArray accepts: the assertion of the hierarchical codec,
\* and what the vectorised codecs leave to their callers.
Accepts(c, b) ==
  /\ c.kind = "hier" => HierAccepts(c, Len(b))
  /\ Vectorised(c) => VectorAccepts(c, b)

\* The objects that need no clear() before they take b, once they hold a block
\* of n words: a vectorised run length codec cuts its vector back to the zeros
\* in front only for a block of the same length.
Reusable(c, n, b) == c.kind = "vrle" => n = Len(b)

============================================================================
