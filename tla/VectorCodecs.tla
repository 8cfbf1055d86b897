---------------------------- MODULE VectorCodecs ---------------------------
(***************************************************************************)
(* The vectorised logical codecs, on int32_t for three instruction sets    *)
(* and on uint16_t for one, and the run lengths on uint8_t.  What matters  *)
(* of a vector instruction here is which word each lane is computed from,  *)
(* and where the loop over whole vectors of W lanes hands over to the one  *)
(* over single words.  A word is kept as its two's complement.             *)
(***************************************************************************)
EXTENDS LogicalCodecsU16

InstructionSets == {"sse42", "avx2", "avx512", "sse42u16"}

Resize(v, n) == [k \in 1 .. n |-> IF k <= Len(v) THEN v[k] ELSE 0]

\* (z >> 1) ^ -(z & 1) on a signed z: the shift copies the sign bit.
ZigzagDecSigned(z) ==
  LET h == z \div 2 + (IF z < Half THEN 0 ELSE Half)
  IN  IF z % 2 = 0 THEN h ELSE WordSize - 1 - h

\* Where the vector loop ends that starts at from: it goes on while
\* i < n - W, or while i + W <= n.
EndBefore(from, W, n) == from + W * CeilDiv(Max({0, n - W - from}), W)
EndWithin(from, W, n) == from + W * ((n - from) \div W)

(***************************************************************************)
(* Delta codecs.  pred[i] is the word the i-th one is subtracted from, 0   *)
(* if it is stored as it is; shifted are the words decoded by a signed     *)
(* shift.  The two wider ones store their first vector as it is, subtract  *)
(* it lane by lane from the second, and broadcast the end of a vector to   *)
(* the lanes of the next one only from there on; the permutation of the    *)
(* AVX2 one, which moves pairs of words, broadcasts the last two.          *)
(***************************************************************************)
LastOfPrevious(W, i) == W * ((i - 1) \div W)

DeltaCodecSSE42(W, n) ==
  LET end == EndBefore(1, W, n)
  IN  [pred    |-> [i \in 1 .. n |->
                     IF i = 1 THEN 0 ELSE IF i <= end THEN 1 + W * ((i - 2) \div W)
                     ELSE i - 1],
       shifted |-> 1 .. n]

DeltaCodecAVX2(W, n) ==
  LET end == EndBefore(W, W, n)
  IN  [pred    |-> [i \in 1 .. n |->
                     IF i <= W THEN 0 ELSE IF i > end THEN i - 1
                     ELSE IF i <= 2 * W THEN i - W ELSE LastOfPrevious(W, i) - (i % 2)],
       shifted |-> 1 .. W \cup end + 1 .. n]

DeltaCodecAVX512(W, n) ==
  LET head == IF n < W THEN 0 ELSE W
      end  == IF n < W THEN 0 ELSE EndBefore(W, W, n)
  IN  [pred    |-> [i \in 1 .. n |->
                     IF i <= head THEN 0 ELSE IF i > end THEN i - 1
                     ELSE IF i <= 2 * W THEN i - W ELSE LastOfPrevious(W, i)],
       shifted |-> 1 .. head \cup end + 1 .. n]

DeltaCodecSSE42U16(W, n) ==
  LET end == EndWithin(1, W, n)
  IN  [pred    |-> [i \in 1 .. n |->
                     IF i = 1 THEN 0 ELSE IF i <= end THEN 1 + W * ((i - 2) \div W)
                     ELSE i - 1],
       shifted |-> {}]

Lanes(c, n) ==
  CASE c.isa = "sse42"    -> DeltaCodecSSE42(c.lanes, n)
    [] c.isa = "avx2"     -> DeltaCodecAVX2(c.lanes, n)
    [] c.isa = "avx512"   -> DeltaCodecAVX512(c.lanes, n)
    [] c.isa = "sse42u16" -> DeltaCodecSSE42U16(c.lanes, n)

\* The AVX2 codec copies a block that does not fill a vector.
Copied(c, n) == c.isa = "avx2" /\ n < c.lanes

VectorDeltaCode(c, b) ==
  LET pred == Lanes(c, Len(b)).pred
  IN  IF Copied(c, Len(b)) THEN b
      ELSE [i \in DOMAIN b |->
             ZigzagEnc16(Minus(b[i], IF pred[i] = 0 THEN 0 ELSE b[pred[i]]))]

VectorDeltaGet(c, st, n) ==
  LET l      == Lanes(c, n)
      d(i)   == IF i \in l.shifted THEN ZigzagDecSigned(st.data[i])
                ELSE ZigzagDec16(st.data[i])
      s[i \in 1 .. n] == Plus(d(i), IF l.pred[i] = 0 THEN 0 ELSE s[l.pred[i]])
  IN  IF Copied(c, n) THEN SubSeq(st.data, 1, n) ELSE s

(***************************************************************************)
(* Frame of reference over the whole block.  The minimum is taken in every *)
(* lane, from the largest value on, then over the lanes and the tail; the  *)
(* int32_t codecs zigzag the differences as well, and shift them signed.   *)
(***************************************************************************)
Reference(v, W, end, largest) ==
  LET lane(j) == Min({largest} \cup {v[i] : i \in {k \in 1 .. end : k % W = j}})
  IN  Min({lane(j) : j \in 0 .. W - 1} \cup {v[i] : i \in end + 1 .. Len(v)}) % WordSize

ZigzagFrom(b, r) == <<r>> \o [i \in DOMAIN b |-> ZigzagEnc16(Minus(b[i], r))]

SignedWords(b) == [i \in DOMAIN b |-> Signed(b[i])]

FORCodecSSE42(W, b) ==
  ZigzagFrom(b, Reference(SignedWords(b), W, EndBefore(0, W, Len(b)), Half - 1))

FORCodecAVX2(W, b) ==
  ZigzagFrom(b, Reference(SignedWords(b), W, EndWithin(0, W, Len(b)), Half - 1))

FORCodecAVX512(W, b) ==
  ZigzagFrom(b, Reference(SignedWords(b), W, EndWithin(0, W, Len(b)), Half - 1))

FORCodecSSE42U16(W, b) ==
  LET r == Reference(b, W, EndWithin(0, W, Len(b)), WordSize - 1)
  IN  <<r>> \o [i \in DOMAIN b |-> Minus(b[i], r)]

VectorFORCode(c, b) ==
  CASE c.isa = "sse42"    -> FORCodecSSE42(c.lanes, b)
    [] c.isa = "avx2"     -> FORCodecAVX2(c.lanes, b)
    [] c.isa = "avx512"   -> FORCodecAVX512(c.lanes, b)
    [] c.isa = "sse42u16" -> FORCodecSSE42U16(c.lanes, b)

VectorFORGet(c, st, n) ==
  [i \in 1 .. n |->
    Plus(st.data[1], IF c.isa = "sse42u16" THEN st.data[i + 1]
                     ELSE ZigzagDecSigned(st.data[i + 1]))]

(***************************************************************************)
(* Run lengths.  AllocEncoded gives the vector words, to which EncodeArray *)
(* then appends: in front of the pairs are zeros, which decode to empty    *)
(* runs, or the words the object has kept.                                 *)
(***************************************************************************)
\* The run at i: vectors are compared with themselves one word further on,
\* until one differs; the rest is compared with the first word.
VectorRun(b, i, W) ==
  LET scan[r \in 1 .. Len(b)] ==
        LET differ == {k \in 0 .. W - 1 : b[i + r + k - 1] # b[i + r + k]}
        IN  IF i + r + W - 2 >= Len(b) THEN r
            ELSE IF differ = {} THEN scan[r + W] ELSE r + Min(differ)
  IN  Min({j \in i + scan[1] .. Len(b) + 1 : j = Len(b) + 1 \/ b[j] # b[i]}) - i

\* A run is stored in a word: 2^16 repetitions are none.
VectorPairs(b, W) ==
  LET from[i \in 1 .. Len(b) + 1] ==
        IF i > Len(b) THEN <<>>
        ELSE LET run == VectorRun(b, i, W)
             IN  <<b[i], run % WordSize>> \o from[i + run]
  IN  from[1]

RLEAppended(v, W, b) == Resize(v, 2 * (Len(b) \div W + 1)) \o VectorPairs(b, W)

RLECodecSSE42(v, W, b)    == RLEAppended(v, W, b)
RLECodecAVX2(v, W, b)     == RLEAppended(v, W, b)
RLECodecAVX512(v, W, b)   == RLEAppended(v, W, b)
RLECodecSSE42U16(v, W, b) == RLEAppended(v, W, b)

VectorRLECode(c, v, b) ==
  CASE c.isa = "sse42"    -> RLECodecSSE42(v, c.lanes, b)
    [] c.isa = "avx2"     -> RLECodecAVX2(v, c.lanes, b)
    [] c.isa = "avx512"   -> RLECodecAVX512(v, c.lanes, b)
    [] c.isa = "sse42u16" -> RLECodecSSE42U16(v, c.lanes, b)

\* It reads to the end of the vector, whatever length it is asked for.
VectorRLEGet(st) ==
  FlattenSeq([k \in 1 .. Len(st.data) \div 2 |->
    [j \in 1 .. st.data[2 * k] |-> st.data[2 * k - 1]]])

\* RLECodecU8 is RLECodecU16 on words of eight bits.
RLECodecU8Put(st, b) == RLEPut(st, b)
RLECodecU8Get(st, n) == RLEGet(st, n)

(***************************************************************************)
(* The blocks these codecs restore.  The loop condition i < length - 4 is  *)
(* unsigned and wraps for a block shorter than a vector; a code with the   *)
(* sign bit set is not restored by a signed shift; and a run has to fit a  *)
(* word, a signed one for int32_t.                                         *)
(***************************************************************************)
FillsVector(c, n) == c.isa = "sse42" => n >= c.lanes

VectorAccepts(c, b) ==
  CASE c.kind = "vdelta" ->
         /\ FillsVector(c, Len(b))
         /\ ~Copied(c, Len(b)) =>
              \A i \in Lanes(c, Len(b)).shifted : VectorDeltaCode(c, b)[i] < Half
    [] c.kind = "vfor"   ->
         /\ FillsVector(c, Len(b))
         /\ c.isa # "sse42u16" => \A i \in DOMAIN b : VectorFORCode(c, b)[i + 1] < Half
    [] c.kind = "vrle"   ->
         \A i \in DOMAIN b :
           VectorRun(b, i, c.lanes) < (IF c.isa = "sse42u16" THEN WordSize ELSE Half)

============================================================================
