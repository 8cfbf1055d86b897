------------------------- MODULE PredictiveCodecsU16 -----------------------
(***************************************************************************)
(* The predictive codecs on uint16_t.  A block is read as rows of          *)
(* BlockStride values; each value is replaced by the zigzag of its         *)
(* distance to a prediction from its left (A), upper (B) and upper left    *)
(* (C) neighbours.  The encoder reads the neighbours in the block, the     *)
(* decoder in what it has decoded so far: they must agree on every         *)
(* prediction, wrapped or not.                                             *)
(***************************************************************************)
EXTENDS Words, Sequences

\* floor(sqrt(length))
BlockStride(n) == CHOOSE s \in 0 .. n : s * s <= n /\ (s + 1) * (s + 1) > n

\* GetNeighbors: v maps 0-based positions to values, 0 outside the block.
GetNeighbors(v, i, stride) ==
  LET row == i \div stride
      col == i % stride
  IN  [A |-> IF col > 0 THEN v[i - 1] ELSE 0,
       B |-> IF row > 0 THEN v[i - stride] ELSE 0,
       C |-> IF row > 0 /\ col > 0 THEN v[i - stride - 1] ELSE 0]

\* Division by two in C++ truncates towards zero.
Halved(x) == IF x >= 0 THEN x \div 2 ELSE -((-x) \div 2)

Distance(x, y) == IF x >= y THEN x - y ELSE y - x

JpegPredict(v, id) ==
  CASE id = 1 -> v.A
    [] id = 2 -> v.B
    [] id = 3 -> v.C
    [] id = 4 -> v.A + v.B - v.C
    [] id = 5 -> v.A + Halved(v.B - v.C)
    [] id = 6 -> v.B + Halved(v.A - v.C)
    [] id = 7 -> Halved(v.A + v.B)

\* The median of A, B and A + B - C.
JpegLSMed(v) ==
  LET x  == v.A + v.B - v.C
      lo == IF v.A < v.B THEN v.A ELSE v.B
      hi == IF v.A < v.B THEN v.B ELSE v.A
  IN  IF x < lo THEN lo ELSE IF x > hi THEN hi ELSE x

\* The neighbour nearest to A + B - C; A before B before C on a tie.
PaethPredict16(v) ==
  LET p  == v.A + v.B - v.C
      pa == Distance(p, v.A)
      pb == Distance(p, v.B)
      pc == Distance(p, v.C)
  IN  IF pa <= pb /\ pa <= pc THEN v.A ELSE IF pb <= pc THEN v.B ELSE v.C

\* The predictors: JPEG 1 to 7, and the JPEG-LS median and Paeth predictors.
Predictors == {<<"jpeg", id>> : id \in 1 .. 7} \cup {<<"med", 0>>, <<"paeth", 1>>}

Predict(p, v) ==
  CASE p[1] = "jpeg"  -> JpegPredict(v, p[2]) % WordSize
    [] p[1] = "med"   -> JpegLSMed(v) % WordSize
    [] p[1] = "paeth" -> PaethPredict16(v) % WordSize

PredictPut(p, st, b) ==
  LET stride == BlockStride(Len(b))
      v      == [i \in 0 .. Len(b) - 1 |-> b[i + 1]]
  IN  [st EXCEPT !.data = [i \in DOMAIN b |->
         ZigzagEnc16(Minus(b[i], Predict(p, GetNeighbors(v, i - 1, stride))))]]

PredictGet(p, st, n) ==
  LET stride == BlockStride(n)
      out[i \in 0 .. n - 1] ==
        Plus(Predict(p, GetNeighbors(out, i, stride)), ZigzagDec16(st.data[i + 1]))
  IN  [i \in 1 .. n |-> out[i - 1]]

============================================================================
