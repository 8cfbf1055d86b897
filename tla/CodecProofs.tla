---------------------------- MODULE CodecProofs ----------------------------
(***************************************************************************)
(* The codecs give back what they were given, for every block, setting and *)
(* width of a word.                                                        *)
(*                                                                         *)
(* The first sections prove it of the codes: a decoder undoes an encoder.  *)
(* Three inductive invariants carry it to what the runs check.             *)
(*                                                                         *)
(* ObjectInv (LogicalCodecObject): RoundTrip speaks of the block at hand   *)
(* and is not inductive, since an object is used again.  ObjectInv adds    *)
(* that the object holds one of the codes its class has for that block,    *)
(* and that a class without a side vector never filled one.                *)
(*                                                                         *)
(* BenchInv (CompressionBenchmark): the vectors of a codec survive a block *)
(* that ended in an error.  BenchInv says what each object holds between   *)
(* two blocks, which codec is still as CloneFresh made it, what the words  *)
(* in front of a run-length code are, and which records are true.          *)
(*                                                                         *)
(* IInv (PredictLoop): PrefixRestored is not inductive, because a decoding *)
(* step also needs the coded words to be those of the block, which the     *)
(* encoder wrote one by one over those of an earlier block.  Coding says   *)
(* how far it is.                                                          *)
(***************************************************************************)
EXTENDS PredictLoop, LogicalCodecObject, CompressionBenchmark, Foundations,
        SequenceTheorems, TLAPS

----------------------------------------------------------------------------
(* What the codecs rely on in the arithmetic of Words, for every width. *)

\* A number less than one word size off the words wraps at most once.
LEMMA WrapOnce ==
  ASSUME NEW x \in Int, -WordSize <= x, x < 2 * WordSize
  PROVE  x % WordSize = IF x < 0 THEN x + WordSize
                        ELSE IF x < WordSize THEN x ELSE x - WordSize
<1>1. WordSize \in Nat \ {0}
  BY HalfAssumption DEF WordSize
<1>2. CASE x < 0
  BY <1>1, <1>2
<1>3. CASE 0 <= x /\ x < WordSize
  BY <1>1, <1>3
<1>4. CASE WordSize <= x
  BY <1>1, <1>4
<1>5. QED
  BY <1>1, <1>2, <1>3, <1>4

\* The words are closed under the arithmetic of the codecs.
LEMMA WordsClosed ==
  ASSUME NEW a \in Word, NEW b \in Word
  PROVE  /\ Plus(a, b) \in Word
         /\ Minus(a, b) \in Word
         /\ ZigzagEnc16(a) \in Word
         /\ ZigzagDec16(a) \in Word
<1>1. WordSize \in Nat \ {0} /\ a \in 0 .. WordSize - 1 /\ b \in 0 .. WordSize - 1
  BY HalfAssumption DEF WordSize, Word
<1>2. Plus(a, b) \in Word /\ Minus(a, b) \in Word
  <2>1. Plus(a, b) = IF a + b < WordSize THEN a + b ELSE a + b - WordSize
    BY <1>1, WrapOnce DEF Plus
  <2>2. Minus(a, b) = IF a - b < 0 THEN a - b + WordSize ELSE a - b
    BY <1>1, WrapOnce DEF Minus
  <2>3. QED
    BY <1>1, <2>1, <2>2 DEF Word
<1>3. ZigzagEnc16(a) \in Word
  BY <1>1, HalfAssumption DEF ZigzagEnc16, Word, WordSize
<1>4. ZigzagDec16(a) \in Word
  BY <1>1 DEF ZigzagDec16, Word
<1>5. QED
  BY <1>2, <1>3, <1>4

\* ZigzagDec16 undoes ZigzagEnc16 on every word: no difference is lost by the
\* map, the most negative one, 2^15, included.
THEOREM ZigzagInverse == \A d \in Word : ZigzagDec16(ZigzagEnc16(d)) = d
<1> SUFFICES ASSUME NEW d \in Word
             PROVE  ZigzagDec16(ZigzagEnc16(d)) = d
  OBVIOUS
<1>1. Half \in Nat /\ d \in Int /\ 0 <= d /\ d < WordSize /\ WordSize = 2 * Half
  BY HalfAssumption DEF Word, WordSize
<1>2. CASE d < Half
  <2>1. ZigzagEnc16(d) = 2 * d
    BY <1>2 DEF ZigzagEnc16
  <2>2. (2 * d) % 2 = 0 /\ (2 * d) \div 2 = d
    BY <1>1
  <2>3. QED
    BY <2>1, <2>2 DEF ZigzagDec16
<1>3. CASE ~(d < Half)
  <2> DEFINE k == WordSize - d - 1
  <2>1. ZigzagEnc16(d) = 2 * (WordSize - d) - 1
    BY <1>3 DEF ZigzagEnc16
  <2>2. k \in Int /\ 2 * (WordSize - d) - 1 = 2 * k + 1
    BY <1>1
  <2>3. (2 * k + 1) % 2 = 1 /\ (2 * k + 1) \div 2 = k
    BY <2>2
  <2>4. ZigzagDec16(2 * k + 1) = WordSize - 1 - k
    BY <2>3 DEF ZigzagDec16
  <2>5. QED
    BY <1>1, <2>1, <2>2, <2>4
<1>4. QED
  BY <1>2, <1>3

\* "(pred + ZigzagDec16(ZigzagEnc16(x - pred))) == x": the stored difference
\* of a value from its prediction gives the value back, however far apart the
\* two are; what the subtraction wraps, the addition wraps back.
THEOREM ResidualRecovered ==
  \A x \in Word, p \in Word :
    /\ Plus(p, Minus(x, p)) = x
    /\ Plus(p, ZigzagDec16(ZigzagEnc16(Minus(x, p)))) = x
<1> SUFFICES ASSUME NEW x \in Word, NEW p \in Word
             PROVE  /\ Plus(p, Minus(x, p)) = x
                    /\ Plus(p, ZigzagDec16(ZigzagEnc16(Minus(x, p)))) = x
  OBVIOUS
<1>1. /\ WordSize \in Nat \ {0}
      /\ x \in Int /\ 0 <= x /\ x < WordSize
      /\ p \in Int /\ 0 <= p /\ p < WordSize
  BY HalfAssumption DEF WordSize, Word
<1>2. Minus(x, p) = IF x - p < 0 THEN x - p + WordSize ELSE x - p
  BY <1>1, WrapOnce DEF Minus
<1>3. Plus(p, Minus(x, p)) = x
  <2>1. CASE x < p
    <3>1. Minus(x, p) = x - p + WordSize
      BY <1>1, <1>2, <2>1
    <3>2. p + Minus(x, p) = x + WordSize
      BY <1>1, <3>1
    <3>3. (x + WordSize) % WordSize = x
      BY <1>1, WrapOnce
    <3>4. QED
      BY <3>2, <3>3 DEF Plus
  <2>2. CASE p <= x
    <3>1. Minus(x, p) = x - p
      BY <1>1, <1>2, <2>2
    <3>2. p + Minus(x, p) = x
      BY <1>1, <3>1
    <3>3. x % WordSize = x
      BY <1>1, WrapOnce
    <3>4. QED
      BY <3>2, <3>3 DEF Plus
  <2>3. QED
    BY <1>1, <2>1, <2>2
<1>4. ZigzagDec16(ZigzagEnc16(Minus(x, p))) = Minus(x, p)
  BY WordsClosed, ZigzagInverse
<1>5. QED
  BY <1>3, <1>4

----------------------------------------------------------------------------
(* Recursive functions on the positions of a sequence *)

\* Two functions that agree on a position if they agree on those before it
\* agree everywhere.
AgreeNext(m, n, f, g) == \A j \in m .. n : (\A k \in m .. j - 1 : f[k] = g[k]) => f[j] = g[j]

\* Functions that agree at the foot and step alike agree at every step.
LEMMA AgreeUpwards ==
  ASSUME NEW m \in Nat, NEW n \in Int, NEW f, NEW g, AgreeNext(m, n, f, g)
  PROVE  \A j \in m .. n : f[j] = g[j]
<1> DEFINE T == {j \in Nat : j \in m .. n /\ f[j] # g[j]}
<1>1. ASSUME T # {} PROVE FALSE
  <2>1. T \in SUBSET Nat /\ T # {}
    BY <1>1
  <2>2. PICK j \in T : \A k \in T : j <= k
    BY ONLY <2>1, LeastNatural
  <2>3. \A k \in m .. j - 1 : f[k] = g[k]
    BY <2>2
  <2>. QED BY <2>2, <2>3 DEF AgreeNext
<1>. QED BY <1>1

\* s is summed up from e, as a decoder of differences does.
Chain(n, e, s) == \A j \in 1 .. n : s[j] = IF j = 1 THEN e[1] ELSE Plus(s[j - 1], e[j])

\* A chain of sums is determined by its differences.
LEMMA OneChain ==
  ASSUME NEW n \in Nat, NEW e, NEW s, NEW b, Chain(n, e, s), Chain(n, e, b)
  PROVE  \A j \in 1 .. n : s[j] = b[j]
<1>1. AgreeNext(1, n, s, b)
  <2> SUFFICES ASSUME NEW j \in 1 .. n, \A k \in 1 .. j - 1 : s[k] = b[k] PROVE s[j] = b[j]
    BY DEF AgreeNext
  <2>1. j # 1 => s[j - 1] = b[j - 1]
    <3>1. j # 1 => j - 1 \in 1 .. j - 1
      OBVIOUS
    <3>. QED BY <3>1
  <2>. QED BY <2>1 DEF Chain
<1>. QED BY <1>1, AgreeUpwards

\* What the decoder of zigzagged differences accumulates is the block.
LEMMA ZigzaggedChainDecodes ==
  ASSUME NEW b \in Seq(Word), NEW d, Chain(Len(b), [j \in 1 .. Len(b) |-> IF j = 1 THEN d[1] ELSE ZigzagDec16(d[j])], b)
  PROVE  PrefixSums(d, Len(b), ZigzagDec16) = b
<1> DEFINE Step(s) == [j \in 1 .. Len(b) |-> IF j = 1 THEN d[1] ELSE Plus(s[j - 1], ZigzagDec16(d[j]))]
           P(s) == s = Step(s)
           e == [j \in 1 .. Len(b) |-> IF j = 1 THEN d[1] ELSE ZigzagDec16(d[j])]
<1>0. Len(b) \in Nat /\ \A j \in 1 .. Len(b) : e[j] = IF j = 1 THEN d[1] ELSE ZigzagDec16(d[j])
  OBVIOUS
<1>1. \A j \in 1 .. Len(b) : b[j] = IF j = 1 THEN d[1] ELSE Plus(b[j - 1], ZigzagDec16(d[j]))
  BY <1>0 DEF Chain
<1>2. P(b)
  <2>1. b = [j \in 1 .. Len(b) |-> b[j]]
    OBVIOUS
  <2>. QED BY <1>1, <2>1
<1>3. ASSUME NEW s, P(s) PROVE s = b
  <2>1. s = Step(s)
    BY <1>3
  <2>2. /\ DOMAIN s = 1 .. Len(b)
        /\ \A j \in 1 .. Len(b) : s[j] = IF j = 1 THEN d[1] ELSE Plus(s[j - 1], ZigzagDec16(d[j]))
    BY <2>1
  <2>3. Chain(Len(b), e, s)
    BY <1>0, <2>2 DEF Chain
  <2>4. s = [j \in 1 .. Len(b) |-> s[j]]
    BY <2>1
  <2>5. Len(b) \in Nat /\ Chain(Len(b), e, b) /\ b = [j \in 1 .. Len(b) |-> b[j]]
    OBVIOUS
  <2> HIDE DEF Step, P, e
  <2>6. \A j \in 1 .. Len(b) : s[j] = b[j]
    BY <2>3, <2>5, OneChain
  <2>. QED BY <2>4, <2>5, <2>6
<1>4. PrefixSums(d, Len(b), ZigzagDec16) = CHOOSE s : P(s)
  BY DEF PrefixSums
<1> HIDE DEF P
<1>. QED BY <1>2, <1>3, <1>4

\* What the decoder of plain differences accumulates is the block.
LEMMA PlainChainDecodes ==
  ASSUME NEW b \in Seq(Word), NEW d, Chain(Len(b), [j \in 1 .. Len(b) |-> IF j = 1 THEN d[1] ELSE Plain(d[j])], b)
  PROVE  PrefixSums(d, Len(b), Plain) = b
<1> DEFINE Step(s) == [j \in 1 .. Len(b) |-> IF j = 1 THEN d[1] ELSE Plus(s[j - 1], Plain(d[j]))]
           P(s) == s = Step(s)
           e == [j \in 1 .. Len(b) |-> IF j = 1 THEN d[1] ELSE Plain(d[j])]
<1>0. Len(b) \in Nat /\ \A j \in 1 .. Len(b) : e[j] = IF j = 1 THEN d[1] ELSE Plain(d[j])
  OBVIOUS
<1>1. \A j \in 1 .. Len(b) : b[j] = IF j = 1 THEN d[1] ELSE Plus(b[j - 1], Plain(d[j]))
  BY <1>0 DEF Chain
<1>2. P(b)
  <2>1. b = [j \in 1 .. Len(b) |-> b[j]]
    OBVIOUS
  <2>. QED BY <1>1, <2>1
<1>3. ASSUME NEW s, P(s) PROVE s = b
  <2>1. s = Step(s)
    BY <1>3
  <2>2. /\ DOMAIN s = 1 .. Len(b)
        /\ \A j \in 1 .. Len(b) : s[j] = IF j = 1 THEN d[1] ELSE Plus(s[j - 1], Plain(d[j]))
    BY <2>1
  <2>3. Chain(Len(b), e, s)
    BY <1>0, <2>2 DEF Chain
  <2>4. s = [j \in 1 .. Len(b) |-> s[j]]
    BY <2>1
  <2>5. Len(b) \in Nat /\ Chain(Len(b), e, b) /\ b = [j \in 1 .. Len(b) |-> b[j]]
    OBVIOUS
  <2> HIDE DEF Step, P, e
  <2>6. \A j \in 1 .. Len(b) : s[j] = b[j]
    BY <2>3, <2>5, OneChain
  <2>. QED BY <2>4, <2>5, <2>6
<1>4. PrefixSums(d, Len(b), Plain) = CHOOSE s : P(s)
  BY DEF PrefixSums
<1> HIDE DEF P
<1>. QED BY <1>2, <1>3, <1>4

\* The differences of words are words, as many as there are words.
LEMMA DifferencesAreWords ==
  ASSUME NEW b \in Seq(Word)
  PROVE  /\ Differences(b) \in Seq(Word) /\ Len(Differences(b)) = Len(b)
         /\ ZigzagTail(b) \in Seq(Word) /\ Len(ZigzagTail(b)) = Len(b)
<1>1. DOMAIN b = 1 .. Len(b) /\ Len(b) \in Nat /\ \A j \in 1 .. Len(b) : b[j] \in Word
  OBVIOUS
<1>2. ASSUME NEW j \in 1 .. Len(b)
      PROVE  (IF j = 1 THEN b[1] ELSE Minus(b[j], b[j - 1])) \in Word
             /\ (IF j = 1 THEN b[1] ELSE ZigzagEnc16(b[j])) \in Word
  <2>1. b[j] \in Word /\ (j # 1 => b[j - 1] \in Word)
    BY <1>1
  <2>. QED BY <2>1, WordsClosed
<1>. QED BY <1>1, <1>2 DEF Differences, ZigzagTail

\* Delta coding, with its tail zigzagged or not, is undone by prefix sums.
LEMMA DeltaDecodes ==
  ASSUME NEW b \in Seq(Word)
  PROVE  /\ PrefixSums(ZigzagTail(Differences(b)), Len(b), ZigzagDec16) = b
         /\ PrefixSums(Differences(b), Len(b), Plain) = b
<1> DEFINE d == Differences(b)
           z == ZigzagTail(d)
<1>1. DOMAIN b = 1 .. Len(b) /\ Len(b) \in Nat /\ \A j \in 1 .. Len(b) : b[j] \in Word
  OBVIOUS
<1>2. \A j \in 1 .. Len(b) : d[j] = IF j = 1 THEN b[1] ELSE Minus(b[j], b[j - 1])
  BY <1>1 DEF Differences
<1>3. \A j \in 1 .. Len(b) : z[j] = IF j = 1 THEN d[1] ELSE ZigzagEnc16(d[j])
  BY <1>1 DEF ZigzagTail, Differences
<1> HIDE DEF d, z
<1>4. \A j \in 1 .. Len(b) : b[j] = IF j = 1 THEN z[1] ELSE Plus(b[j - 1], ZigzagDec16(z[j]))
  <2> SUFFICES ASSUME NEW j \in 1 .. Len(b), j # 1 PROVE b[j] = Plus(b[j - 1], ZigzagDec16(z[j]))
    BY <1>2, <1>3
  <2>1. b[j] \in Word /\ b[j - 1] \in Word /\ z[j] = ZigzagEnc16(Minus(b[j], b[j - 1]))
    BY <1>1, <1>2, <1>3
  <2>. QED BY <2>1, ResidualRecovered
<1>5. \A j \in 1 .. Len(b) : b[j] = IF j = 1 THEN d[1] ELSE Plus(b[j - 1], Plain(d[j]))
  <2> SUFFICES ASSUME NEW j \in 1 .. Len(b), j # 1 PROVE b[j] = Plus(b[j - 1], Plain(d[j]))
    BY <1>2
  <2>1. b[j] \in Word /\ b[j - 1] \in Word /\ Plain(d[j]) = Minus(b[j], b[j - 1])
    BY <1>1, <1>2 DEF Plain
  <2>. QED BY <2>1, ResidualRecovered
<1>6. /\ Chain(Len(b), [j \in 1 .. Len(b) |-> IF j = 1 THEN z[1] ELSE ZigzagDec16(z[j])], b)
      /\ Chain(Len(b), [j \in 1 .. Len(b) |-> IF j = 1 THEN d[1] ELSE Plain(d[j])], b)
  BY <1>1, <1>4, <1>5 DEF Chain
<1>. QED BY <1>6, ZigzaggedChainDecodes, PlainChainDecodes DEF d, z

\* Differences of differences are undone by two rounds of prefix sums.
LEMMA DoubleDeltaDecodes ==
  ASSUME NEW b \in Seq(Word)
  PROVE  PrefixSums(PrefixSums(ZigzagTail(Differences(Differences(b))), Len(b), ZigzagDec16),
                    Len(b), Plain) = b
<1>1. Differences(b) \in Seq(Word) /\ Len(Differences(b)) = Len(b)
  BY DifferencesAreWords
<1>2. PrefixSums(ZigzagTail(Differences(Differences(b))), Len(b), ZigzagDec16) = Differences(b)
  BY <1>1, DeltaDecodes
<1>. QED BY <1>2, DeltaDecodes

----------------------------------------------------------------------------
(* Predictors *)

\* The rows of a block that is not empty are not empty.
LEMMA StrideIsPositive ==
  ASSUME NEW n \in Nat \ {0}
  PROVE  BlockStride(n) \in 1 .. n
<1> DEFINE T == {s \in Nat : (s + 1) * (s + 1) > n}
<1>1. T \in SUBSET Nat /\ T # {}
  <2>1. (n + 1) * (n + 1) = n * n + 2 * n + 1 /\ n * n >= 0
    BY SMT
  <2>2. n \in T
    BY <2>1
  <2>. QED BY <2>2
<1>2. PICK s \in T : \A t \in T : s <= t
  BY ONLY <1>1, LeastNatural
<1>3. s \in Nat /\ (s + 1) * (s + 1) > n
  OBVIOUS
<1>4. s * s <= n
  <2>1. CASE s = 0
    BY <2>1
  <2>2. CASE s # 0
    <3>1. s - 1 \in Nat /\ ~(s - 1 \in T) /\ (s - 1) + 1 = s
      BY <1>2, <1>3, <2>2
    <3>2. ~(s * s > n) /\ s * s \in Int
      BY <3>1
    <3>. QED BY <3>2
  <2>. QED BY <2>1, <2>2
<1>5. s \in 0 .. n
  <2>1. CASE s = 0
    BY <2>1
  <2>2. CASE s # 0
    <3>1. s * s >= s
      BY <1>3, <2>2, MulMono, SMT
    <3>. QED BY <1>3, <1>4, <3>1
  <2>. QED BY <2>1, <2>2
<1> DEFINE P(x) == x * x <= n /\ (x + 1) * (x + 1) > n
<1>6. \E x \in 0 .. n : P(x)
  BY <1>3, <1>4, <1>5
<1>7. BlockStride(n) = CHOOSE x \in 0 .. n : P(x)
  BY DEF BlockStride
<1> HIDE DEF P
<1>8. BlockStride(n) \in 0 .. n /\ P(BlockStride(n))
  BY <1>6, <1>7
<1>9. BlockStride(n) # 0
  BY <1>8, SMT DEF P
<1>. QED BY <1>8, <1>9

\* The neighbours of an element are before it.
SameBefore(j, v, w) == \A k \in 0 .. j - 1 : v[k] = w[k]

\* GetNeighbors reads no element from the predicted one on.
LEMMA NeighborsAreBefore ==
  ASSUME NEW n \in Nat \ {0}, NEW j \in 0 .. n - 1, NEW v, NEW w,
         NEW stride \in Nat \ {0}, SameBefore(j, v, w)
  PROVE  GetNeighbors(v, j, stride) = GetNeighbors(w, j, stride)
<1>1. /\ j \div stride \in Nat /\ j % stride \in 0 .. stride - 1
      /\ j = (j \div stride) * stride + (j % stride)
  <2>1. j \in Nat
    OBVIOUS
  <2>. QED BY <2>1, Division
<1>2. j % stride > 0 => j - 1 \in 0 .. j - 1
  <2>1. (j \div stride) * stride \in Nat
    BY <1>1, Product
  <2>. QED BY <1>1, <2>1
<1>3. j \div stride > 0 => (j \div stride) * stride >= stride
  <2> SUFFICES ASSUME j \div stride > 0 PROVE (j \div stride) * stride >= stride
    OBVIOUS
  <2>1. 1 * stride <= (j \div stride) * stride
    BY <1>1, MulMono
  <2>. QED BY <2>1
<1>4. j \div stride > 0 => j - stride \in 0 .. j - 1
  <2>1. (j \div stride) * stride \in Nat
    BY <1>1, Product
  <2>. QED BY <1>1, <1>3, <2>1
<1>5. j \div stride > 0 /\ j % stride > 0 => j - stride - 1 \in 0 .. j - 1
  <2>1. (j \div stride) * stride \in Nat
    BY <1>1, Product
  <2>. QED BY <1>1, <1>3, <2>1
<1>. QED BY <1>2, <1>4, <1>5, Zenon DEF GetNeighbors, SameBefore

\* Whatever the neighbours are, the prediction is a word.
LEMMA PredictionIsWord ==
  ASSUME NEW p \in Predictors, NEW v, v.A \in Int, v.B \in Int, v.C \in Int
  PROVE  Predict(p, v) \in Word
<1>0. \A x \in Int : x % WordSize \in Word
  BY HalfAssumption DEF Word, WordSize
<1>1. \A x \in Int : Halved(x) \in Int
  BY DEF Halved
<1>2. CASE p[1] = "jpeg"
  <2>1. p[2] \in 1 .. 7
    BY <1>2 DEF Predictors
  <2>2. JpegPredict(v, p[2]) \in Int
    <3>1. v.B - v.C \in Int /\ v.A - v.C \in Int /\ v.A + v.B \in Int
      OBVIOUS
    <3>2. Halved(v.B - v.C) \in Int /\ Halved(v.A - v.C) \in Int /\ Halved(v.A + v.B) \in Int
      BY <1>1, <3>1
    <3>. QED BY <2>1, <3>2 DEF JpegPredict
  <2>. QED BY <1>0, <1>2, <2>2 DEF Predict
<1>3. CASE p = <<"med", 0>>
  <2>1. JpegLSMed(v) \in Int
    BY DEF JpegLSMed
  <2>2. p[1] = "med"
    BY <1>3
  <2>. QED BY <1>0, <2>1, <2>2 DEF Predict
<1>4. CASE p = <<"paeth", 1>>
  <2>1. PaethPredict16(v) \in Int
    BY DEF PaethPredict16
  <2>2. p[1] = "paeth"
    BY <1>4
  <2>. QED BY <1>0, <2>1, <2>2 DEF Predict
<1>. QED BY <1>2, <1>3, <1>4 DEF Predictors

\* The neighbours are words or, outside the block, zero.
LEMMA NeighborsAreWords ==
  ASSUME NEW n \in Nat \ {0}, NEW j \in 0 .. n - 1, NEW v \in [0 .. n - 1 -> Word],
         NEW stride \in Nat \ {0}
  PROVE  LET g == GetNeighbors(v, j, stride)
         IN  g.A \in Word /\ g.B \in Word /\ g.C \in Word
<1>0. 0 \in Word
  BY HalfAssumption DEF Word, WordSize
<1>1. /\ j \div stride \in Nat /\ j % stride \in 0 .. stride - 1
      /\ j = (j \div stride) * stride + (j % stride)
  <2>1. j \in Nat
    OBVIOUS
  <2>. QED BY <2>1, Division
<1>2. (j \div stride) * stride \in Nat
  BY <1>1, Product
<1>3. j \div stride > 0 => (j \div stride) * stride >= stride
  <2> SUFFICES ASSUME j \div stride > 0 PROVE (j \div stride) * stride >= stride
    OBVIOUS
  <2>1. 1 * stride <= (j \div stride) * stride
    BY <1>1, MulMono
  <2>. QED BY <2>1
<1>4. /\ j % stride > 0 => j - 1 \in 0 .. n - 1
      /\ j \div stride > 0 => j - stride \in 0 .. n - 1
      /\ j \div stride > 0 /\ j % stride > 0 => j - stride - 1 \in 0 .. n - 1
  BY <1>1, <1>2, <1>3
<1>. QED BY <1>0, <1>4 DEF GetNeighbors

\* Every predictor predicts a word from every block.
LEMMA PredictionsAreWords ==
  ASSUME NEW n \in Nat \ {0}, NEW j \in 0 .. n - 1, NEW v \in [0 .. n - 1 -> Word],
         NEW stride \in Nat \ {0}, NEW p \in Predictors
  PROVE  /\ Predict(p, GetNeighbors(v, j, stride)) \in Word
         /\ Predict(p, Neighbors32(v, j, stride)) \in Word
<1> DEFINE g == GetNeighbors(v, j, stride)
<1>1. g.A \in Word /\ g.B \in Word /\ g.C \in Word
  BY NeighborsAreWords
<1>2. \A x \in Word : x \in Int /\ Signed(x) \in Int
  BY HalfAssumption DEF Word, WordSize, Signed
<1> DEFINE h == Neighbors32(v, j, stride)
<1>3. h.A \in Int /\ h.B \in Int /\ h.C \in Int
  BY <1>1, <1>2 DEF Neighbors32
<1> HIDE DEF g, h
<1>4. Predict(p, g) \in Word /\ Predict(p, h) \in Word
  BY <1>1, <1>2, <1>3, PredictionIsWord
<1>. QED BY <1>4 DEF g, h

\* The decoder of a predictive codec restores the block: its predictions are
\* the encoder's, since they are made from what it has restored.
LEMMA PredictDecodes ==
  ASSUME NEW b \in Seq(Word), b # <<>>, NEW p \in Predictors,
         NEW s \in [data : Seq(Word), meta : Seq(Word)]
  PROVE  PredictGet(p, PredictPut(p, s, b), Len(b)) = b
<1> DEFINE n        == Len(b)
           stride   == BlockStride(n)
           v        == [k \in 0 .. n - 1 |-> b[k + 1]]
           pred(w, k) == Predict(p, GetNeighbors(w, k, stride))
           z        == [k \in DOMAIN b |-> ZigzagEnc16(Minus(b[k], pred(v, k - 1)))]
           d        == PredictPut(p, s, b).data
           Step(w)  == [k \in 0 .. n - 1 |-> Plus(pred(w, k), ZigzagDec16(d[k + 1]))]
           P(w)     == w = Step(w)
<1>1. /\ n \in Nat \ {0} /\ DOMAIN b = 1 .. n
      /\ \A k \in 1 .. n : b[k] \in Word
      /\ v \in [0 .. n - 1 -> Word] /\ \A k \in 0 .. n - 1 : v[k] = b[k + 1]
  OBVIOUS
<1>2. stride \in Nat \ {0}
  BY <1>1, StrideIsPositive
<1>3. d = z
  BY DEF PredictPut
<1>4. \A k \in 0 .. n - 1 : d[k + 1] = ZigzagEnc16(Minus(v[k], pred(v, k)))
  BY <1>1, <1>3
<1> HIDE DEF d, z, v, n, stride
<1>5. \A k \in 0 .. n - 1 : Plus(pred(v, k), ZigzagDec16(d[k + 1])) = v[k]
  <2> SUFFICES ASSUME NEW k \in 0 .. n - 1 PROVE Plus(pred(v, k), ZigzagDec16(d[k + 1])) = v[k]
    OBVIOUS
  <2>1. v[k] \in Word /\ pred(v, k) \in Word
    BY <1>1, <1>2, PredictionsAreWords
  <2>. QED BY <1>4, <2>1, ResidualRecovered
<1>6. P(v)
  <2>1. v = [k \in 0 .. n - 1 |-> v[k]]
    BY <1>1
  <2>. QED BY <1>5, <2>1
<1>7. ASSUME NEW w, P(w) PROVE w = v
  <2>1. w = Step(w)
    BY <1>7
  <2>2. w = [k \in 0 .. n - 1 |-> w[k]] /\ v = [k \in 0 .. n - 1 |-> v[k]]
    BY <1>1, <2>1
  <2>3. \A k \in 0 .. n - 1 : w[k] = Plus(pred(w, k), ZigzagDec16(d[k + 1]))
    BY <2>1
  <2>4. AgreeNext(0, n - 1, w, v)
    <3> SUFFICES ASSUME NEW k \in 0 .. n - 1, \A m \in 0 .. k - 1 : w[m] = v[m]
                 PROVE  w[k] = v[k]
      BY DEF AgreeNext
    <3>0. SameBefore(k, w, v)
      BY DEF SameBefore
    <3>1. GetNeighbors(w, k, stride) = GetNeighbors(v, k, stride)
      BY <1>1, <1>2, <3>0, NeighborsAreBefore
    <3>. QED BY <1>5, <2>3, <3>1
  <2>5. n - 1 \in Int /\ 0 \in Nat
    BY <1>1
  <2>6. \A k \in 0 .. n - 1 : w[k] = v[k]
    BY <2>4, <2>5, AgreeUpwards
  <2>. QED BY <2>2, <2>6
<1>8. PredictGet(p, PredictPut(p, s, b), n) = [k \in 1 .. n |-> (CHOOSE w : P(w))[k - 1]]
  BY DEF PredictGet, d, stride
<1> HIDE DEF P
<1>9. (CHOOSE w : P(w)) = v
  BY <1>6, <1>7
<1>10. [k \in 1 .. n |-> v[k - 1]] = b
  <2>1. \A k \in 1 .. n : v[k - 1] = b[k]
    BY <1>1
  <2>2. b = [k \in 1 .. n |-> b[k]]
    BY <1>1
  <2>. QED BY <2>1, <2>2
<1>. QED BY <1>8, <1>9, <1>10 DEF n
\* The same of the int32_t codecs, which predict from signed words.
LEMMA PredictDecodes32 ==
  ASSUME NEW b \in Seq(Word), b # <<>>, NEW p \in Predictors
  PROVE  PredictDecoded(p, PredictCode(p, b), Len(b)) = b
<1> DEFINE n        == Len(b)
           stride   == BlockStride(n)
           v        == [k \in 0 .. n - 1 |-> b[k + 1]]
           pred(w, k) == Predict(p, Neighbors32(w, k, stride))
           z        == [k \in DOMAIN b |-> ZigzagEnc16(Minus(b[k], pred(v, k - 1)))]
           d        == PredictCode(p, b)
           Step(w)  == [k \in 0 .. n - 1 |-> Plus(pred(w, k), ZigzagDec16(d[k + 1]))]
           P(w)     == w = Step(w)
<1>1. /\ n \in Nat \ {0} /\ DOMAIN b = 1 .. n
      /\ \A k \in 1 .. n : b[k] \in Word
      /\ v \in [0 .. n - 1 -> Word] /\ \A k \in 0 .. n - 1 : v[k] = b[k + 1]
  OBVIOUS
<1>2. stride \in Nat \ {0}
  BY <1>1, StrideIsPositive
<1>3. d = z
  BY DEF PredictCode
<1>4. \A k \in 0 .. n - 1 : d[k + 1] = ZigzagEnc16(Minus(v[k], pred(v, k)))
  BY <1>1, <1>3
<1> HIDE DEF d, z, v, n, stride
<1>5. \A k \in 0 .. n - 1 : Plus(pred(v, k), ZigzagDec16(d[k + 1])) = v[k]
  <2> SUFFICES ASSUME NEW k \in 0 .. n - 1 PROVE Plus(pred(v, k), ZigzagDec16(d[k + 1])) = v[k]
    OBVIOUS
  <2>1. v[k] \in Word /\ pred(v, k) \in Word
    BY <1>1, <1>2, PredictionsAreWords
  <2>. QED BY <1>4, <2>1, ResidualRecovered
<1>6. P(v)
  <2>1. v = [k \in 0 .. n - 1 |-> v[k]]
    BY <1>1
  <2>. QED BY <1>5, <2>1
<1>7. ASSUME NEW w, P(w) PROVE w = v
  <2>1. w = Step(w)
    BY <1>7
  <2>2. w = [k \in 0 .. n - 1 |-> w[k]] /\ v = [k \in 0 .. n - 1 |-> v[k]]
    BY <1>1, <2>1
  <2>3. \A k \in 0 .. n - 1 : w[k] = Plus(pred(w, k), ZigzagDec16(d[k + 1]))
    BY <2>1
  <2>4. AgreeNext(0, n - 1, w, v)
    <3> SUFFICES ASSUME NEW k \in 0 .. n - 1, \A m \in 0 .. k - 1 : w[m] = v[m]
                 PROVE  w[k] = v[k]
      BY DEF AgreeNext
    <3>0. SameBefore(k, w, v)
      BY DEF SameBefore
    <3>1. GetNeighbors(w, k, stride) = GetNeighbors(v, k, stride)
      BY <1>1, <1>2, <3>0, NeighborsAreBefore
    <3>2. Neighbors32(w, k, stride) = Neighbors32(v, k, stride)
      BY <3>1 DEF Neighbors32
    <3>. QED BY <1>5, <2>3, <3>2
  <2>5. n - 1 \in Int /\ 0 \in Nat
    BY <1>1
  <2>6. \A k \in 0 .. n - 1 : w[k] = v[k]
    BY <2>4, <2>5, AgreeUpwards
  <2>. QED BY <2>2, <2>6
<1>8. PredictDecoded(p, PredictCode(p, b), n) = [k \in 1 .. n |-> (CHOOSE w : P(w))[k - 1]]
  BY DEF PredictDecoded, d, stride
<1> HIDE DEF P
<1>9. (CHOOSE w : P(w)) = v
  BY <1>6, <1>7
<1>10. [k \in 1 .. n |-> v[k - 1]] = b
  <2>1. \A k \in 1 .. n : v[k - 1] = b[k]
    BY <1>1
  <2>2. b = [k \in 1 .. n |-> b[k]]
    BY <1>1
  <2>. QED BY <2>1, <2>2
<1>. QED BY <1>8, <1>9, <1>10 DEF n

----------------------------------------------------------------------------
(* Sequences of sequences *)

\* A function that starts at base and goes on with next.
Iterates(f, n, base, next) == f[0] = base /\ \A k \in 1 .. n : f[k] = next[<<k, f[k - 1]>>]

\* A step function can be iterated from any base.
LEMMA IterationExists ==
  ASSUME NEW n \in Nat, NEW V, NEW base \in V, NEW next \in [(1 .. n) \X V -> V]
  PROVE  \E f \in [0 .. n -> V] : Iterates(f, n, base, next)
<1> DEFINE Good(m) == \E f \in [0 .. m -> V] : Iterates(f, m, base, next)
           T == {m \in Nat : m <= n /\ ~Good(m)}
<1>1. Good(0)
  <2> DEFINE f == [k \in 0 .. 0 |-> base]
  <2>1. f \in [0 .. 0 -> V] /\ f[0] = base
    OBVIOUS
  <2>2. \A k \in 1 .. 0 : f[k] = next[<<k, f[k - 1]>>]
    OBVIOUS
  <2> HIDE DEF f
  <2>. QED BY ONLY <2>1, <2>2, Zenon DEF Iterates
<1>2. ASSUME NEW m \in 1 .. n, Good(m - 1) PROVE Good(m)
  <2>1. PICK g \in [0 .. m - 1 -> V] : Iterates(g, m - 1, base, next)
    BY <1>2
  <2> DEFINE f == [k \in 0 .. m |-> IF k = m THEN next[<<m, g[m - 1]>>] ELSE g[k]]
  <2>2. g[m - 1] \in V /\ next[<<m, g[m - 1]>>] \in V
    <3>1. g[m - 1] \in V
      OBVIOUS
    <3>2. <<m, g[m - 1]>> \in (1 .. n) \X V
      BY <3>1
    <3>. QED BY <3>1, <3>2
  <2>3. f \in [0 .. m -> V]
    BY <2>2
  <2>4. f[0] = base /\ f[m] = next[<<m, g[m - 1]>>] /\ \A k \in 0 .. m - 1 : f[k] = g[k]
    BY <2>1 DEF Iterates
  <2>5. \A k \in 1 .. m : f[k] = next[<<k, f[k - 1]>>]
    <3> SUFFICES ASSUME NEW k \in 1 .. m PROVE f[k] = next[<<k, f[k - 1]>>]
      OBVIOUS
    <3>1. f[k - 1] = g[k - 1]
      BY <2>4
    <3>2. k # m => k \in 1 .. m - 1 /\ f[k] = g[k]
      BY <2>4
    <3> HIDE DEF f
    <3>. QED BY <2>1, <2>4, <3>1, <3>2 DEF Iterates
  <2> HIDE DEF f
  <2>. QED BY <2>3, <2>4, <2>5 DEF Iterates
<1> HIDE DEF Good
<1>3. ASSUME T # {} PROVE FALSE
  <2>1. T \in SUBSET Nat /\ T # {}
    BY <1>3
  <2>2. PICK m \in T : \A k \in T : m <= k
    BY ONLY <2>1, LeastNatural
  <2>3. m # 0
    BY <1>1
  <2>4. m \in 1 .. n /\ m - 1 \in Nat /\ m - 1 <= n /\ ~Good(m)
    BY <2>3
  <2>5. Good(m - 1)
    BY <2>2, <2>4
  <2>. QED BY <1>2, <2>4, <2>5
<1>. QED BY <1>3 DEF Good

\* f[k] is what the first k sequences of ss give one after the other.
Flattening(f, ss) == f[0] = <<>> /\ \A k \in 1 .. Len(ss) : f[k] = f[k - 1] \o ss[k]

\* FlattenSeq appends one sequence after another.
LEMMA FlattenedInSteps ==
  ASSUME NEW S, NEW ss \in Seq(Seq(S))
  PROVE  \E f \in [0 .. Len(ss) -> Seq(S)] : Flattening(f, ss) /\ FlattenSeq(ss) = f[Len(ss)]
<1> DEFINE n == Len(ss)
           V == Seq(S)
           next == [p \in (1 .. n) \X V |-> p[2] \o ss[p[1]]]
<1>0. n \in Nat /\ \A k \in 1 .. n : ss[k] \in V
  OBVIOUS
<1>1. next \in [(1 .. n) \X V -> V]
  BY <1>0
<1>2. \A k \in 1 .. n, x \in V : next[<<k, x>>] = x \o ss[k]
  BY <1>0
<1>3. <<>> \in V
  OBVIOUS
<1> HIDE DEF next
<1>4. PICK f \in [0 .. n -> V] : Iterates(f, n, <<>>, next)
  <2> HIDE DEF n, V
  <2>. QED BY <1>0, <1>1, <1>3, IterationExists
<1>5. Flattening(f, ss)
  <2> SUFFICES ASSUME NEW k \in 1 .. n PROVE f[k] = f[k - 1] \o ss[k]
    BY <1>4 DEF Iterates, Flattening
  <2>0. k - 1 \in 0 .. n
    BY <1>0
  <2>1. f[k] = next[<<k, f[k - 1]>>] /\ f[k - 1] \in V
    BY <1>4, <2>0, Zenon DEF Iterates
  <2>. QED BY <1>2, <2>1
<1>6. CASE n = 0
  <2>1. ss = <<>>
    BY <1>6
  <2>2. FlattenSeq(ss) = <<>>
    BY <2>1 DEF FlattenSeq
  <2>. QED BY <1>5, <1>6, <2>2 DEF Flattening
<1>7. CASE n # 0
  <2> DEFINE P(g) == g = [k \in 1 .. n |-> IF k = 1 THEN ss[k] ELSE g[k - 1] \o ss[k]]
             h == [k \in 1 .. n |-> f[k]]
  <2>1. FlattenSeq(ss) = (CHOOSE g : P(g))[n]
    BY <1>7 DEF FlattenSeq
  <2>2. P(h)
    <3>1. \A k \in 1 .. n : f[k] = IF k = 1 THEN ss[k] ELSE h[k - 1] \o ss[k]
      <4> SUFFICES ASSUME NEW k \in 1 .. n PROVE f[k] = IF k = 1 THEN ss[k] ELSE h[k - 1] \o ss[k]
        OBVIOUS
      <4>1. CASE k = 1
        <5>1. f[1] = <<>> \o ss[1]
          <6>1. 1 \in 1 .. n
            BY <4>1
          <6>2. f[1] = f[1 - 1] \o ss[1] /\ f[0] = <<>>
            BY <1>5, <6>1, Zenon DEF Flattening
          <6>3. 1 - 1 = 0
            OBVIOUS
          <6>. QED BY ONLY <6>2, <6>3, Zenon
        <5>. QED BY <1>0, <4>1, <5>1
      <4>2. CASE k # 1
        <5>1. h[k - 1] = f[k - 1] /\ f[k] = f[k - 1] \o ss[k]
          <6>1. k - 1 \in 1 .. n
            BY <1>0, <4>2
          <6>2. f[k] = f[k - 1] \o ss[k]
            BY <1>5, Zenon DEF Flattening
          <6>. QED BY ONLY <6>1, <6>2
        <5>. QED BY <4>2, <5>1
      <4>. QED BY <4>1, <4>2
    <3>. QED BY <3>1
  <2>3. ASSUME NEW g, P(g) PROVE g = h
    <3>1. g = [k \in 1 .. n |-> IF k = 1 THEN ss[k] ELSE g[k - 1] \o ss[k]]
      BY <2>3
    <3>2. g = [k \in 1 .. n |-> g[k]]
      BY <3>1
    <3>3. \A k \in 1 .. n : g[k] = IF k = 1 THEN ss[k] ELSE g[k - 1] \o ss[k]
      BY <3>1
    <3>4. \A k \in 1 .. n : h[k] = IF k = 1 THEN ss[k] ELSE h[k - 1] \o ss[k]
      BY <2>2
    <3> HIDE DEF P, h
    <3>5. AgreeNext(1, n, g, h)
      <4> SUFFICES ASSUME NEW k \in 1 .. n, \A j \in 1 .. k - 1 : g[j] = h[j] PROVE g[k] = h[k]
        BY DEF AgreeNext
      <4>1. k # 1 => k - 1 \in 1 .. k - 1
        BY <1>0
      <4>2. k # 1 => g[k - 1] = h[k - 1]
        BY <4>1
      <4>. QED BY <3>3, <3>4, <4>2
    <3>6. \A k \in 1 .. n : g[k] = h[k]
      BY <1>0, <3>5, AgreeUpwards
    <3>. QED BY <3>2, <3>6 DEF h
  <2> HIDE DEF P
  <2>4. (CHOOSE g : P(g)) = h
    BY <2>2, <2>3
  <2>5. FlattenSeq(ss) = f[n]
    <3>1. n \in 1 .. n
      BY <1>0, <1>7
    <3>2. h[n] = f[n]
      BY <3>1
    <3>. QED BY <2>1, <2>4, <3>2
  <2>. QED BY <1>5, <2>5
<1>. QED BY <1>6, <1>7

\* There is one such function.
LEMMA OneFlattening ==
  ASSUME NEW ss, Len(ss) \in Nat, NEW f, NEW g, Flattening(f, ss), Flattening(g, ss)
  PROVE  \A k \in 0 .. Len(ss) : f[k] = g[k]
<1> DEFINE n == Len(ss)
<1>1. AgreeNext(0, n, f, g)
  <2> SUFFICES ASSUME NEW k \in 0 .. n, \A j \in 0 .. k - 1 : f[j] = g[j] PROVE f[k] = g[k]
    BY DEF AgreeNext
  <2>1. k # 0 => k - 1 \in 0 .. k - 1 /\ k \in 1 .. n
    OBVIOUS
  <2>2. k # 0 => f[k - 1] = g[k - 1]
    BY <2>1
  <2>. QED BY <2>1, <2>2 DEF Flattening
<1>2. 0 \in Nat /\ n \in Int
  OBVIOUS
<1> HIDE DEF n
<1>3. \A k \in 0 .. n : f[k] = g[k]
  BY <1>1, <1>2, AgreeUpwards
<1>. QED BY <1>3 DEF n

\* To flatten is to flatten step by step.
LEMMA FlattenIs ==
  ASSUME NEW S, NEW ss \in Seq(Seq(S)), NEW f, Flattening(f, ss)
  PROVE  FlattenSeq(ss) = f[Len(ss)] /\ FlattenSeq(ss) \in Seq(S)
<1>1. PICK g \in [0 .. Len(ss) -> Seq(S)] : Flattening(g, ss) /\ FlattenSeq(ss) = g[Len(ss)]
  BY FlattenedInSteps
<1>2. Len(ss) \in Nat
  OBVIOUS
<1>3. \A k \in 0 .. Len(ss) : f[k] = g[k]
  BY <1>1, <1>2, OneFlattening
<1>. QED BY <1>1, <1>2, <1>3

\* The first k of the sequences, then the rest.
LEMMA FlattenConcat ==
  ASSUME NEW S, NEW s \in Seq(Seq(S)), NEW t \in Seq(Seq(S))
  PROVE  FlattenSeq(s \o t) = FlattenSeq(s) \o FlattenSeq(t)
<1> DEFINE n == Len(s)
           m == Len(t)
           u == s \o t
<1>0. n \in Nat /\ m \in Nat /\ u \in Seq(Seq(S)) /\ Len(u) = n + m
      /\ \A k \in 1 .. n + m : u[k] = IF k <= n THEN s[k] ELSE t[k - n]
  OBVIOUS
<1>1. PICK f \in [0 .. n -> Seq(S)] : Flattening(f, s) /\ FlattenSeq(s) = f[n]
  BY FlattenedInSteps
<1>2. PICK g \in [0 .. m -> Seq(S)] : Flattening(g, t) /\ FlattenSeq(t) = g[m]
  BY FlattenedInSteps
<1>b. \A x, y, z \in Seq(S) : (x \o y) \o z = x \o (y \o z)
  OBVIOUS
<1> HIDE DEF u, n, m
<1> DEFINE h == [k \in 0 .. n + m |-> IF k <= n THEN f[k] ELSE f[n] \o g[k - n]]
<1>3. \A k \in 0 .. n + m : h[k] = IF k <= n THEN f[k] ELSE f[n] \o g[k - n]
  OBVIOUS
<1>a. h[0] = <<>> /\ f[n] \in Seq(S) /\ g[0] = <<>>
  <2>1. 0 \in 0 .. n + m /\ 0 <= n /\ n \in 0 .. n
    BY <1>0
  <2>2. f[0] = <<>> /\ g[0] = <<>>
    BY <1>1, <1>2 DEF Flattening
  <2>. QED BY <1>3, <2>1, <2>2
<1> HIDE DEF h
<1>4. \A k \in 1 .. n + m : h[k] = h[k - 1] \o u[k]
  <2> SUFFICES ASSUME NEW k \in 1 .. n + m PROVE h[k] = h[k - 1] \o u[k]
    OBVIOUS
  <2>0. k \in 0 .. n + m /\ k - 1 \in 0 .. n + m /\ k \in Int
    BY <1>0
  <2>1. CASE k <= n
    <3>1. k \in 1 .. n /\ k - 1 <= n
      BY <1>0, <2>0, <2>1
    <3>2. f[k] = f[k - 1] \o s[k]
      BY <1>1, <3>1, Zenon DEF Flattening, n
    <3>3. h[k] = f[k] /\ h[k - 1] = f[k - 1] /\ u[k] = s[k]
      BY <1>0, <1>3, <2>0, <2>1, <3>1, Zenon
    <3>. QED BY ONLY <3>2, <3>3, Zenon
  <2>2. CASE ~(k <= n)
    <3>1. k - n \in 1 .. m /\ k - n - 1 \in 0 .. m /\ n \in Int
      BY <1>0, <2>0, <2>2
    <3>2. g[k - n] = g[k - n - 1] \o t[k - n]
      BY <1>2, <3>1, Zenon DEF Flattening, m
    <3>3. h[k] = f[n] \o g[k - n] /\ u[k] = t[k - n]
      BY <1>0, <1>3, <2>0, <2>2, <3>1, Zenon
    <3>4. h[k - 1] = f[n] \o g[k - n - 1]
      <4>1. CASE k - 1 = n
        <5>1. k - n - 1 = 0 /\ k - 1 <= n
          BY <2>0, <3>1, <4>1
        <5>2. h[k - 1] = f[n]
          BY <1>3, <2>0, <4>1, <5>1, Zenon
        <5>3. f[n] = f[n] \o <<>>
          BY <1>a
        <5>. QED BY <1>a, <5>1, <5>2, <5>3, Zenon
      <4>2. CASE k - 1 # n
        <5>1. ~(k - 1 <= n) /\ (k - 1) - n = k - n - 1
          BY <2>0, <2>2, <3>1, <4>2
        <5>. QED BY <1>3, <2>0, <5>1, Zenon
      <4>. QED BY <4>1, <4>2
    <3>5. g[k - n - 1] \in Seq(S) /\ t[k - n] \in Seq(S)
      <4>1. t[k - n] \in Seq(S)
        BY <3>1 DEF m
      <4>. QED BY <3>1, <4>1
    <3>6. (f[n] \o g[k - n - 1]) \o t[k - n] = f[n] \o (g[k - n - 1] \o t[k - n])
      BY ONLY <1>a, <1>b, <3>5, Zenon
    <3>. QED BY ONLY <3>2, <3>3, <3>4, <3>6, Zenon
  <2>. QED BY <2>1, <2>2
<1>5. Flattening(h, u)
  BY <1>0, <1>a, <1>4, Zenon DEF Flattening
<1>6. h[n + m] = f[n] \o g[m]
  <2>0. n + m \in 0 .. n + m
    BY <1>0
  <2>1. CASE m = 0
    <3>1. n + m = n /\ n + m <= n
      BY <1>0, <2>1
    <3>2. h[n + m] = f[n]
      BY <1>3, <2>0, <3>1, Zenon
    <3>3. f[n] = f[n] \o <<>>
      BY <1>a
    <3>. QED BY <1>a, <2>1, <3>2, <3>3, Zenon
  <2>2. CASE m # 0
    <3>1. ~(n + m <= n) /\ (n + m) - n = m
      BY <1>0, <2>2
    <3>. QED BY <1>3, <2>0, <3>1, Zenon
  <2>. QED BY <2>1, <2>2
<1>7. FlattenSeq(u) = h[n + m]
  BY <1>0, <1>5, FlattenIs
<1>. QED BY <1>1, <1>2, <1>6, <1>7 DEF u

\* Flattening sequences that are all empty.
LEMMA FlattenEmpty ==
  ASSUME NEW n \in Nat, NEW ss \in [1 .. n -> {<<>>}]
  PROVE  FlattenSeq(ss) = <<>>
<1>1. ss \in Seq(Seq({})) /\ Len(ss) = n /\ \A k \in 1 .. n : ss[k] = <<>>
  <2>1. \A k \in 1 .. n : ss[k] = <<>>
    OBVIOUS
  <2>2. ss \in [1 .. n -> Seq({})]
    <3>1. <<>> \in Seq({})
      OBVIOUS
    <3>2. \A k \in 1 .. n : ss[k] \in Seq({})
      BY <2>1, <3>1
    <3>. QED BY <3>2
  <2>3. ss \in Seq(Seq({})) /\ Len(ss) = n
    BY <2>2
  <2>. QED BY <2>1, <2>3
<1> DEFINE f == [k \in 0 .. n |-> <<>>]
<1>2. Flattening(f, ss)
  <2>1. \A k \in 1 .. n : k - 1 \in 0 .. n /\ k \in 0 .. n
    OBVIOUS
  <2>2. \A k \in 0 .. n : f[k] = <<>>
    OBVIOUS
  <2>3. <<>> \o <<>> = <<>>
    OBVIOUS
  <2>4. 0 \in 0 .. n
    OBVIOUS
  <2> HIDE DEF f
  <2>. QED BY ONLY <1>1, <2>1, <2>2, <2>3, <2>4, Zenon DEF Flattening
<1>3. f[n] = <<>>
  OBVIOUS
<1>. QED BY <1>1, <1>2, <1>3, FlattenIs

----------------------------------------------------------------------------
(* Windows *)

\* The window in effect holds a value at least, and at most the block.
LEMMA EffectiveWindowFits ==
  ASSUME NEW w \in Nat, NEW n \in Nat \ {0}
  PROVE  EffectiveWindow(w, n) \in 1 .. n
BY DEF EffectiveWindow

\* The windows of v values that n values have: the k-th one begins before n.
LEMMA CeilDivIs ==
  ASSUME NEW n \in Nat, NEW v \in Nat \ {0}
  PROVE  /\ CeilDiv(n, v) \in Nat
         /\ n <= CeilDiv(n, v) * v
         /\ CeilDiv(n, v) * v < n + v
<1>1. n + v - 1 \in Nat
  OBVIOUS
<1>2. /\ (n + v - 1) \div v \in Nat /\ (n + v - 1) % v \in 0 .. v - 1
      /\ n + v - 1 = ((n + v - 1) \div v) * v + ((n + v - 1) % v)
  BY <1>1, Division
<1>3. ((n + v - 1) \div v) * v \in Nat
  BY <1>2, Product
<1>. QED BY <1>2, <1>3 DEF CeilDiv

\* The windows that CeilDiv counts are those that begin inside the block.
LEMMA WindowsOfBlock ==
  ASSUME NEW n \in Nat, NEW v \in Nat \ {0}, NEW k \in Nat
  PROVE  k < CeilDiv(n, v) <=> k * v < n
<1>1. CeilDiv(n, v) \in Nat /\ n <= CeilDiv(n, v) * v /\ CeilDiv(n, v) * v < n + v
  BY CeilDivIs
<1> DEFINE c == CeilDiv(n, v)
<1>2. k * v \in Nat /\ c * v \in Nat
  BY <1>1, Product
<1>3. CASE k < c
  <2>1. (k + 1) * v <= c * v /\ (k + 1) * v = k * v + v
    BY <1>1, <1>3, MulMono, SMT
  <2>. QED BY <1>1, <1>2, <1>3, <2>1
<1>4. CASE c <= k
  <2>1. c * v <= k * v
    BY <1>1, <1>4, MulMono
  <2>. QED BY <1>1, <1>2, <1>4, <2>1
<1>. QED BY <1>1, <1>3, <1>4

\* The window of a value is one of them.
LEMMA WindowOfValue ==
  ASSUME NEW n \in Nat, NEW v \in Nat \ {0}, NEW j \in 1 .. n
  PROVE  /\ (j - 1) \div v \in Nat
         /\ (j - 1) \div v < CeilDiv(n, v)
         /\ (j - 1) % v \in 0 .. v - 1
         /\ j - 1 = ((j - 1) \div v) * v + ((j - 1) % v)
<1>1. j - 1 \in Nat
  OBVIOUS
<1>2. /\ (j - 1) \div v \in Nat /\ (j - 1) % v \in 0 .. v - 1
      /\ j - 1 = ((j - 1) \div v) * v + ((j - 1) % v)
  BY <1>1, Division
<1>3. ((j - 1) \div v) * v < n /\ ((j - 1) \div v) * v \in Nat
  <2>1. ((j - 1) \div v) * v \in Nat
    BY <1>2, Product
  <2>. QED BY <1>2, <2>1
<1> DEFINE k == (j - 1) \div v
<1> HIDE DEF k
<1>4. k \in Nat /\ k * v < n
  BY <1>2, <1>3 DEF k
<1>5. k < CeilDiv(n, v)
  BY ONLY <1>4, n \in Nat, v \in Nat \ {0}, WindowsOfBlock
<1>6. (j - 1) \div v < CeilDiv(n, v)
  BY ONLY <1>5 DEF k
<1>. QED BY ONLY <1>2, <1>6, Zenon

\* The least of two numbers is the smaller.
LEMMA LeastOfTwo ==
  ASSUME NEW x \in Int, NEW y \in Int
  PROVE  Min({x, y}) = IF x <= y THEN x ELSE y
<1>1. IsFiniteSet({x, y}) /\ {x, y} \in SUBSET Int /\ {x, y} # {}
  <2>1. IsFiniteSet({x}) /\ {x, y} = {x} \cup {y}
    BY FS_Singleton
  <2>2. IsFiniteSet({x} \cup {y})
    BY <2>1, FS_AddElement
  <2>. QED BY <2>1, <2>2
<1>2. Min({x, y}) \in {x, y} /\ \A z \in {x, y} : Min({x, y}) <= z
  BY <1>1, MinIsLeast
<1>. QED BY <1>2

\* The k-th window: v values, or those that are left, as they stand.
LEMMA WindowIs ==
  ASSUME NEW S, NEW b \in Seq(S), NEW v \in Nat \ {0}, NEW k \in Nat, k * v < Len(b)
  PROVE  /\ Window(b, v, k) \in Seq(S)
         /\ Len(Window(b, v, k)) = (IF k * v + v <= Len(b) THEN v ELSE Len(b) - k * v)
         /\ \A j \in 1 .. Len(Window(b, v, k)) : Window(b, v, k)[j] = b[k * v + j]
<1> DEFINE n == Len(b)
           e == IF k * v + v <= n THEN k * v + v ELSE n
           a == k * v
<1>1. n \in Nat /\ a \in Nat /\ e \in Nat /\ a < e /\ e <= n
  <2>1. k * v \in Nat
    BY Product
  <2>. QED BY <2>1
<1>2. Min({k * v + v, n}) = e
  BY <1>1, LeastOfTwo
<1>3. Window(b, v, k) = SubSeq(b, a + 1, e)
  BY <1>2 DEF Window
<1>4. \A j \in 1 .. n : b[j] \in S
  OBVIOUS
<1> HIDE DEF n, a, e
<1>5. \A j \in a + 1 .. e : b[j] \in S
  BY <1>1, <1>4
<1>6. /\ SubSeq(b, a + 1, e) \in Seq(S)
      /\ Len(SubSeq(b, a + 1, e)) = e - a
      /\ \A j \in 1 .. e - a : SubSeq(b, a + 1, e)[j] = b[a + j]
  <2>1. a + 1 \in Int /\ e \in Int
    BY <1>1
  <2>2. /\ SubSeq(b, a + 1, e) \in Seq(S)
        /\ Len(SubSeq(b, a + 1, e)) = IF a + 1 <= e THEN e - (a + 1) + 1 ELSE 0
        /\ \A j \in 1 .. e - (a + 1) + 1 : SubSeq(b, a + 1, e)[j] = b[a + 1 + j - 1]
    BY <1>5, <2>1, SubSeqProperties
  <2>3. e - (a + 1) + 1 = e - a /\ \A j \in 1 .. e - a : a + 1 + j - 1 = a + j
    BY <1>1
  <2>. QED BY <1>1, <2>2, <2>3
<1>7. e - a = IF a + v <= n THEN v ELSE n - a
  BY <1>1 DEF e, a
<1>. QED BY <1>3, <1>6, <1>7 DEF n, a

\* The anchor of a window is a word.
LEMMA LeastIsWord ==
  ASSUME NEW b \in Seq(Word), b # <<>>
  PROVE  MinOf(b) \in Word /\ \A j \in 1 .. Len(b) : MinOf(b) <= b[j]
<1> DEFINE T == {b[j] : j \in DOMAIN b}
<1>1. DOMAIN b = 1 .. Len(b) /\ Len(b) \in Nat \ {0} /\ \A j \in 1 .. Len(b) : b[j] \in Word
  OBVIOUS
<1>2. IsFiniteSet(DOMAIN b)
  BY <1>1, FS_Interval
<1>3. IsFiniteSet(T) /\ T # {} /\ T \in SUBSET Word
  BY <1>1, <1>2, FiniteImage
<1>4. T \in SUBSET Int
  BY <1>3 DEF Word
<1>5. Min(T) \in T /\ \A y \in T : Min(T) <= y
  BY <1>3, <1>4, MinIsLeast
<1>. QED BY <1>1, <1>3, <1>5 DEF MinOf

\* The least value of a window of words is a word.
LEMMA AnchorIsWord ==
  ASSUME NEW b \in Seq(Word), NEW v \in Nat \ {0}, NEW k \in Nat, k < CeilDiv(Len(b), v)
  PROVE  MinOf(Window(b, v, k)) \in Word
<1>1. Len(b) \in Nat
  OBVIOUS
<1>2. k * v < Len(b) /\ k * v \in Nat
  BY <1>1, WindowsOfBlock, Product
<1>3. Window(b, v, k) \in Seq(Word)
      /\ Len(Window(b, v, k)) = (IF k * v + v <= Len(b) THEN v ELSE Len(b) - k * v)
  BY <1>2, WindowIs
<1>4. Window(b, v, k) # <<>>
  BY <1>1, <1>2, <1>3
<1>. QED BY <1>3, <1>4, LeastIsWord

\* There is an anchor for each window, and a residual for each value.
LEMMA AnchorsAreWords ==
  ASSUME NEW b \in Seq(Word), NEW v \in Nat \ {0}
  PROVE  /\ Anchors(b, v) \in Seq(Word) /\ Len(Anchors(b, v)) = CeilDiv(Len(b), v)
         /\ Residuals(b, v) \in Seq(Word) /\ Len(Residuals(b, v)) = Len(b)
<1>1. Len(b) \in Nat /\ DOMAIN b = 1 .. Len(b) /\ \A j \in 1 .. Len(b) : b[j] \in Word
  OBVIOUS
<1>2. CeilDiv(Len(b), v) \in Nat
  BY <1>1, CeilDivIs
<1>3. \A k \in 1 .. CeilDiv(Len(b), v) : MinOf(Window(b, v, k - 1)) \in Word
  <2> SUFFICES ASSUME NEW k \in 1 .. CeilDiv(Len(b), v) PROVE MinOf(Window(b, v, k - 1)) \in Word
    OBVIOUS
  <2>1. k - 1 \in Nat /\ k - 1 < CeilDiv(Len(b), v)
    BY <1>2
  <2>. QED BY <2>1, AnchorIsWord
<1>4. \A j \in 1 .. Len(b) : Minus(b[j], MinOf(Window(b, v, (j - 1) \div v))) \in Word
  <2> SUFFICES ASSUME NEW j \in 1 .. Len(b)
               PROVE  Minus(b[j], MinOf(Window(b, v, (j - 1) \div v))) \in Word
    OBVIOUS
  <2>1. (j - 1) \div v \in Nat /\ (j - 1) \div v < CeilDiv(Len(b), v)
    BY <1>1, WindowOfValue
  <2>2. MinOf(Window(b, v, (j - 1) \div v)) \in Word
    BY <2>1, AnchorIsWord
  <2>. QED BY <1>1, <2>2, WordsClosed
<1>. QED BY <1>1, <1>2, <1>3, <1>4 DEF Anchors, Residuals

\* A value is its residual and the anchor of its window.
LEMMA FromAnchor ==
  ASSUME NEW b \in Seq(Word), NEW v \in Nat \ {0}, NEW j \in 1 .. Len(b)
  PROVE  Plus(Residuals(b, v)[j], Anchors(b, v)[(j - 1) \div v + 1]) = b[j]
<1>1. Len(b) \in Nat /\ DOMAIN b = 1 .. Len(b) /\ b[j] \in Word
  OBVIOUS
<1> DEFINE k == (j - 1) \div v
           m == MinOf(Window(b, v, k))
<1>2. k \in Nat /\ k < CeilDiv(Len(b), v) /\ CeilDiv(Len(b), v) \in Nat
  BY <1>1, WindowOfValue, CeilDivIs
<1>3. m \in Word
  BY <1>2, AnchorIsWord
<1>4. Residuals(b, v)[j] = Minus(b[j], m)
  BY <1>1 DEF Residuals
<1>5. Anchors(b, v)[k + 1] = m
  <2>1. k + 1 \in 1 .. CeilDiv(Len(b), v) /\ k + 1 - 1 = k
    BY <1>2
  <2>. QED BY <2>1 DEF Anchors
<1> HIDE DEF m, k
<1>6. Plus(m, Minus(b[j], m)) = b[j]
  BY <1>1, <1>3, ResidualRecovered
<1>7. Plus(Minus(b[j], m), m) = Plus(m, Minus(b[j], m))
  <2>1. m \in Int /\ Minus(b[j], m) \in Int
    BY <1>1, <1>3, WordsClosed DEF Word
  <2>. QED BY <2>1 DEF Plus
<1>. QED BY <1>4, <1>5, <1>6, <1>7 DEF k

\* The k-th step of a flattening appends the k-th sequence.
StepAppends(S, f, ss, k) ==
  /\ f[k - 1] \in Seq(S) /\ f[k] \in Seq(S) /\ ss[k] \in Seq(S)
  /\ Len(f[k - 1]) \in Nat /\ Len(ss[k]) \in Nat
  /\ Len(f[k]) = Len(f[k - 1]) + Len(ss[k])
  /\ \A r \in 1 .. Len(f[k - 1]) : f[k][r] = f[k - 1][r]
  /\ \A r \in 1 .. Len(ss[k]) : f[k][Len(f[k - 1]) + r] = ss[k][r]

\* One more sequence flattened is appended to what was flattened before.
LEMMA FlattenStep ==
  ASSUME NEW S, NEW ss \in Seq(Seq(S)), NEW f \in [0 .. Len(ss) -> Seq(S)], Flattening(f, ss)
  PROVE  \A k \in 1 .. Len(ss) : StepAppends(S, f, ss, k)
<1> SUFFICES ASSUME NEW k \in 1 .. Len(ss) PROVE StepAppends(S, f, ss, k)
  OBVIOUS
<1>1. k - 1 \in 0 .. Len(ss) /\ k \in 0 .. Len(ss) /\ ss[k] \in Seq(S)
  OBVIOUS
<1>2. f[k] = f[k - 1] \o ss[k]
  BY Zenon DEF Flattening
<1>3. f[k - 1] \in Seq(S) /\ f[k] \in Seq(S)
  BY <1>1
<1> DEFINE x == f[k - 1]
           y == ss[k]
<1>4. x \in Seq(S) /\ y \in Seq(S)
  BY <1>1, <1>3
<1> HIDE DEF x, y
<1>5. /\ Len(x) \in Nat /\ Len(y) \in Nat
      /\ Len(x \o y) = Len(x) + Len(y)
      /\ \A r \in 1 .. Len(x) : (x \o y)[r] = x[r]
      /\ \A r \in 1 .. Len(y) : (x \o y)[Len(x) + r] = y[r]
  BY <1>4
<1>. QED BY <1>1, <1>2, <1>3, <1>5, Zenon DEF x, y, StepAppends

\* f holds the k-th one from its place on, however far it has got.
Holds(f, ss, k, m) ==
  \A r \in 1 .. Len(ss[k]) :
    Len(f[k - 1]) + r \in 1 .. Len(f[m]) /\ f[m][Len(f[k - 1]) + r] = ss[k][r]

\* Where a flattened sequence has the elements of the k-th one.
LEMMA FlattenIndex ==
  ASSUME NEW S, NEW ss \in Seq(Seq(S)), NEW f \in [0 .. Len(ss) -> Seq(S)], Flattening(f, ss),
         NEW k \in 1 .. Len(ss)
  PROVE  Holds(f, ss, k, Len(ss))
<1> DEFINE n == Len(ss)
           T == {m \in Nat : m \in k .. n /\ ~Holds(f, ss, k, m)}
<1>0. n \in Nat /\ k \in Nat \ {0} /\ k \in 1 .. n
  OBVIOUS
<1>1. \A m \in 1 .. n : StepAppends(S, f, ss, m)
  BY FlattenStep
<1> HIDE DEF n
<1>2. Holds(f, ss, k, k)
  <2>1. StepAppends(S, f, ss, k)
    BY <1>0, <1>1
  <2>2. /\ Len(f[k - 1]) \in Nat /\ Len(ss[k]) \in Nat
        /\ Len(f[k]) = Len(f[k - 1]) + Len(ss[k])
    BY ONLY <2>1, Zenon DEF StepAppends
  <2>3. \A r \in 1 .. Len(ss[k]) : f[k][Len(f[k - 1]) + r] = ss[k][r]
    BY ONLY <2>1, Zenon DEF StepAppends
  <2>4. \A r \in 1 .. Len(ss[k]) : Len(f[k - 1]) + r \in 1 .. Len(f[k])
    <3> DEFINE x == Len(f[k - 1])
               y == Len(ss[k])
               w == Len(f[k])
    <3>1. x \in Nat /\ y \in Nat /\ w = x + y
      BY <2>2
    <3> HIDE DEF x, y, w
    <3>2. \A r \in 1 .. y : x + r \in 1 .. w
      BY ONLY <3>1
    <3>. QED BY ONLY <3>2 DEF x, y, w
  <2>. QED BY ONLY <2>3, <2>4, Zenon DEF Holds
<1>3. ASSUME NEW m \in k + 1 .. n, Holds(f, ss, k, m - 1)
      PROVE  Holds(f, ss, k, m)
  <2>0. m \in 1 .. n
    BY <1>0
  <2>1. StepAppends(S, f, ss, m)
    BY <1>1, <2>0
  <2>2. \A r \in 1 .. Len(f[m - 1]) : f[m][r] = f[m - 1][r] /\ r \in 1 .. Len(f[m])
    <3>1. /\ Len(f[m - 1]) \in Nat /\ Len(ss[m]) \in Nat
          /\ Len(f[m]) = Len(f[m - 1]) + Len(ss[m])
      BY ONLY <2>1, Zenon DEF StepAppends
    <3>2. \A r \in 1 .. Len(f[m - 1]) : f[m][r] = f[m - 1][r]
      BY ONLY <2>1, Zenon DEF StepAppends
    <3>3. \A r \in 1 .. Len(f[m - 1]) : r \in 1 .. Len(f[m])
      <4> DEFINE x == Len(f[m - 1])
                 y == Len(ss[m])
                 w == Len(f[m])
      <4>1. x \in Nat /\ y \in Nat /\ w = x + y
        BY <3>1
      <4> HIDE DEF x, y, w
      <4>2. \A r \in 1 .. x : r \in 1 .. w
        BY ONLY <4>1
      <4>. QED BY ONLY <4>2 DEF x, w
    <3>. QED BY ONLY <3>2, <3>3, Zenon
  <2>. QED BY <1>3, <2>2, Zenon DEF Holds
<1>4. ASSUME T # {} PROVE FALSE
  <2>1. T \in SUBSET Nat /\ T # {}
    BY <1>4
  <2>2. PICK m \in T : \A j \in T : m <= j
    BY ONLY <2>1, LeastNatural
  <2>3. m # k
    BY <1>2
  <2>4. m \in k + 1 .. n /\ m - 1 \in Nat /\ m - 1 \in k .. n /\ ~Holds(f, ss, k, m)
    BY <1>0, <2>3
  <2>5. Holds(f, ss, k, m - 1)
    BY <2>2, <2>4
  <2>. QED BY <1>3, <2>4, <2>5
<1>5. n \in Nat /\ n \in k .. n
  BY <1>0
<1>6. Holds(f, ss, k, n)
  BY <1>4, <1>5, Zenon
<1>. QED BY <1>6 DEF n

(***************************************************************************)
(* Interleaved anchors: window k begins at k * (v + 1).                    *)
(***************************************************************************)
Interleaved(a, s, v) == [k \in DOMAIN a |-> <<a[k]>> \o Window(s, v, k - 1)]

\* Each window of the interleaved layout is its anchor, then its residuals.
LEMMA InterleavedIs ==
  ASSUME NEW s \in Seq(Word), NEW v \in Nat \ {0}, NEW a \in Seq(Word),
         Len(a) = CeilDiv(Len(s), v)
  PROVE  /\ Interleaved(a, s, v) \in Seq(Seq(Word))
         /\ Len(Interleaved(a, s, v)) = Len(a)
         /\ \A k \in 1 .. Len(a) :
              LET x == Interleaved(a, s, v)[k]
              IN  /\ Len(x) = 1 + (IF k * v <= Len(s) THEN v ELSE Len(s) - (k - 1) * v)
                  /\ x[1] = a[k]
                  /\ \A j \in 1 .. Len(x) - 1 : x[j + 1] = s[(k - 1) * v + j]
<1> DEFINE ss == Interleaved(a, s, v)
<1>1. DOMAIN a = 1 .. Len(a) /\ Len(a) \in Nat /\ Len(s) \in Nat
      /\ \A k \in 1 .. Len(a) : a[k] \in Word
  OBVIOUS
<1>2. \A k \in 1 .. Len(a) : ss[k] = <<a[k]>> \o Window(s, v, k - 1)
  BY <1>1 DEF Interleaved
<1>3. ASSUME NEW k \in 1 .. Len(a)
      PROVE  /\ Window(s, v, k - 1) \in Seq(Word)
             /\ Len(Window(s, v, k - 1)) = IF k * v <= Len(s) THEN v ELSE Len(s) - (k - 1) * v
             /\ \A j \in 1 .. Len(Window(s, v, k - 1)) : Window(s, v, k - 1)[j] = s[(k - 1) * v + j]
  <2>1. k - 1 \in Nat /\ k - 1 < CeilDiv(Len(s), v)
    BY <1>1
  <2>2. (k - 1) * v < Len(s)
    BY <1>1, <2>1, WindowsOfBlock
  <2>3. (k - 1) * v + v = k * v
    BY <2>1
  <2>4. /\ Window(s, v, k - 1) \in Seq(Word)
        /\ Len(Window(s, v, k - 1))
             = (IF (k - 1) * v + v <= Len(s) THEN v ELSE Len(s) - (k - 1) * v)
        /\ \A j \in 1 .. Len(Window(s, v, k - 1)) : Window(s, v, k - 1)[j] = s[(k - 1) * v + j]
    BY <2>1, <2>2, WindowIs
  <2>. QED BY <2>3, <2>4, Zenon
<1>4. ASSUME NEW k \in 1 .. Len(a), NEW y \in Seq(Word)
      PROVE  /\ <<a[k]>> \o y \in Seq(Word)
             /\ Len(<<a[k]>> \o y) = 1 + Len(y)
             /\ (<<a[k]>> \o y)[1] = a[k]
             /\ \A j \in 1 .. Len(<<a[k]>> \o y) - 1 : (<<a[k]>> \o y)[j + 1] = y[j]
  <2>1. a[k] \in Word
    BY <1>1
  <2>. QED BY <2>1
<1>5. ss = [k \in 1 .. Len(a) |-> ss[k]]
  BY <1>1 DEF Interleaved
<1>6. \A k \in 1 .. Len(a) : ss[k] \in Seq(Word)
  BY <1>2, <1>3, <1>4
<1>7. ss \in Seq(Seq(Word)) /\ Len(ss) = Len(a)
  BY <1>1, <1>5, <1>6
<1> HIDE DEF ss
<1>8. ASSUME NEW k \in 1 .. Len(a)
      PROVE  /\ Len(ss[k]) = 1 + (IF k * v <= Len(s) THEN v ELSE Len(s) - (k - 1) * v)
             /\ ss[k][1] = a[k]
             /\ \A j \in 1 .. Len(ss[k]) - 1 : ss[k][j + 1] = s[(k - 1) * v + j]
  <2> DEFINE y == Window(s, v, k - 1)
  <2>1. /\ Len(ss[k]) = 1 + Len(y) /\ ss[k][1] = a[k]
        /\ \A j \in 1 .. Len(ss[k]) - 1 : ss[k][j + 1] = y[j]
    <3>1. ss[k] = <<a[k]>> \o y /\ y \in Seq(Word)
      BY <1>2, <1>3
    <3> HIDE DEF y
    <3>. QED BY <1>4, <3>1
  <2>2. /\ Len(y) = IF k * v <= Len(s) THEN v ELSE Len(s) - (k - 1) * v
        /\ Len(y) \in Nat
        /\ \A j \in 1 .. Len(y) : y[j] = s[(k - 1) * v + j]
    BY <1>3
  <2> HIDE DEF y
  <2>3. \A j \in 1 .. Len(ss[k]) - 1 : j \in 1 .. Len(y)
    BY <2>1, <2>2
  <2>. QED BY <2>1, <2>2, <2>3
<1>. QED BY <1>7, <1>8 DEF ss

\* Where the anchors and the residuals are in the flattened vector F.
AnchorAt(F, a, v, k) == F[(k - 1) * (v + 1) + 1] = a[k]
ResidualAt(F, s, v, j) == F[j + ((j - 1) \div v) + 1] = s[j]

\* Where the interleaved layout, flattened, has an anchor and a residual.
LEMMA InterleavedPlaces ==
  ASSUME NEW s \in Seq(Word), NEW v \in Nat \ {0}, NEW a \in Seq(Word),
         Len(a) = CeilDiv(Len(s), v), s # <<>>
  PROVE  LET F == FlattenSeq(Interleaved(a, s, v))
         IN  /\ F \in Seq(Word) /\ Len(F) = Len(s) + Len(a)
             /\ \A k \in 1 .. Len(a) : AnchorAt(F, a, v, k)
             /\ \A j \in 1 .. Len(s) : ResidualAt(F, s, v, j)
<1> DEFINE ss == Interleaved(a, s, v)
           F  == FlattenSeq(ss)
           K  == Len(a)
           n  == Len(s)
<1>1. n \in Nat \ {0} /\ K \in Nat /\ K = CeilDiv(n, v)
  OBVIOUS
<1>2. n <= K * v /\ K * v < n + v /\ K # 0
  <2>1. n <= K * v /\ K * v < n + v
    BY <1>1, CeilDivIs
  <2>. QED BY <1>1, <2>1
<1>3. ss \in Seq(Seq(Word)) /\ Len(ss) = K
  BY InterleavedIs
<1>4. \A k \in 1 .. K :
        /\ Len(ss[k]) = 1 + (IF k * v <= n THEN v ELSE n - (k - 1) * v)
        /\ ss[k][1] = a[k]
        /\ \A j \in 1 .. Len(ss[k]) - 1 : ss[k][j + 1] = s[(k - 1) * v + j]
  BY InterleavedIs
<1> HIDE DEF ss
<1>5. PICK f \in [0 .. K -> Seq(Word)] : Flattening(f, ss) /\ F = f[K]
  BY <1>3, FlattenedInSteps
<1>6. \A k \in 1 .. K : StepAppends(Word, f, ss, k) /\ Holds(f, ss, k, K)
  BY <1>3, <1>5, FlattenStep, FlattenIndex
<1> HIDE DEF K, n, F
<1>7. \A k \in 1 .. K : Len(f[k]) = Len(f[k - 1]) + Len(ss[k])
  BY <1>6 DEF StepAppends
<1>8. Len(f[0]) = 0
  <2>1. f[0] = <<>>
    BY <1>5 DEF Flattening
  <2>. QED BY <2>1
<1>9. \A k \in 0 .. K - 1 : Len(f[k]) = k * (v + 1)
  <2> DEFINE T == {k \in Nat : k \in 0 .. K - 1 /\ Len(f[k]) # k * (v + 1)}
  <2>1. ASSUME T # {} PROVE FALSE
    <3>1. T \in SUBSET Nat /\ T # {}
      BY <2>1
    <3>2. PICK k \in T : \A j \in T : k <= j
      BY ONLY <3>1, LeastNatural
    <3>3. k # 0
      BY <1>8
    <3>4. k \in 1 .. K /\ k - 1 \in Nat /\ k - 1 \in 0 .. K - 1 /\ k < K
      BY <1>1, <3>3
    <3>5. Len(f[k - 1]) = (k - 1) * (v + 1)
      BY <3>2, <3>4
    <3>6. k * v < n
      BY <1>1, <3>4, WindowsOfBlock
    <3>7. k * v \in Nat /\ k * v <= n
      BY <1>1, <3>4, <3>6, Product
    <3>8. Len(ss[k]) = 1 + v
      BY <1>4, <3>4, <3>7
    <3>9. (k - 1) * (v + 1) + (1 + v) = k * (v + 1)
      BY <3>4
    <3>10. Len(f[k]) = k * (v + 1)
      BY <1>7, <3>4, <3>5, <3>8, <3>9
    <3>. QED BY <3>10
  <2>. QED BY <2>1
<1>10. \A k \in 1 .. K : Len(f[k - 1]) = (k - 1) * (v + 1) /\ k - 1 \in 0 .. K - 1
  BY <1>1, <1>9
<1>11. F \in Seq(Word) /\ Len(F) = n + K
  <2>1. K \in 1 .. K /\ K \in 0 .. K
    BY <1>1, <1>2
  <2>2. Len(F) = (K - 1) * (v + 1) + Len(ss[K])
    BY <1>5, <1>7, <1>10, <2>1
  <2>3. Len(ss[K]) = 1 + (n - (K - 1) * v)
    <3>1. K * v <= n => K * v = n
      BY <1>1, <1>2, Product
    <3>2. K * v = (K - 1) * v + v
      BY <1>1
    <3>3. Len(ss[K]) = 1 + (IF K * v <= n THEN v ELSE n - (K - 1) * v)
      BY <1>4, <2>1
    <3> DEFINE x == (K - 1) * v
               y == K * v
    <3>4. x \in Int /\ y \in Int /\ y = x + v /\ (y <= n => y = n)
          /\ Len(ss[K]) = 1 + (IF y <= n THEN v ELSE n - x)
      BY <1>1, <3>1, <3>2, <3>3
    <3> HIDE DEF x, y
    <3>5. Len(ss[K]) = 1 + (n - x)
      BY <1>1, <3>4
    <3>. QED BY <3>5 DEF x
  <2>4. (K - 1) * (v + 1) = (K - 1) * v + (K - 1)
    BY <1>1
  <2>5. F \in Seq(Word)
    BY <1>5, <2>1
  <2>. QED BY <1>1, <2>2, <2>3, <2>4, <2>5
<1>12. \A k \in 1 .. K : \A r \in 1 .. Len(ss[k]) : F[(k - 1) * (v + 1) + r] = ss[k][r]
  BY <1>5, <1>6, <1>10 DEF Holds
<1>13. ASSUME NEW k \in 1 .. K PROVE AnchorAt(F, a, v, k)
  <2>1. 1 \in 1 .. Len(ss[k])
    <3>1. Len(ss[k]) = 1 + (IF k * v <= n THEN v ELSE n - (k - 1) * v)
      BY <1>4
    <3>2. (k - 1) * v < n
      <4>1. k - 1 \in Nat /\ k - 1 < CeilDiv(n, v)
        BY <1>1
      <4>. QED BY <1>1, <4>1, WindowsOfBlock
    <3>3. (k - 1) * v \in Int
      BY <1>1
    <3>. QED BY <1>1, <3>1, <3>2, <3>3
  <2>. QED BY <1>4, <1>12, <2>1 DEF AnchorAt
<1>14. ASSUME NEW j \in 1 .. n PROVE ResidualAt(F, s, v, j)
  <2> DEFINE q == (j - 1) \div v
             r == (j - 1) % v
  <2>1. q \in Nat /\ q < K /\ r \in 0 .. v - 1 /\ j - 1 = q * v + r
    BY <1>1, WindowOfValue
  <2> HIDE DEF q, r
  <2>2. q + 1 \in 1 .. K /\ q * v \in Nat /\ (q + 1) * v = q * v + v
    BY <1>1, <2>1, Product
  <2>3. Len(ss[q + 1]) = 1 + (IF (q + 1) * v <= n THEN v ELSE n - q * v)
    BY <1>4, <2>2
  <2>4. r + 1 \in 1 .. Len(ss[q + 1]) - 1 /\ r + 2 \in 1 .. Len(ss[q + 1])
    BY <1>1, <2>1, <2>2, <2>3
  <2> DEFINE k == q + 1
  <2>5. k \in 1 .. K /\ r + 2 \in 1 .. Len(ss[k]) /\ r + 1 \in 1 .. Len(ss[k]) - 1 /\ k - 1 = q
    BY <2>1, <2>2, <2>4
  <2> HIDE DEF k
  <2>6. F[q * (v + 1) + (r + 2)] = ss[k][r + 2] /\ ss[k][(r + 1) + 1] = s[q * v + (r + 1)]
    <3>1. F[(k - 1) * (v + 1) + (r + 2)] = ss[k][r + 2]
      BY ONLY <1>12, <2>5, Zenon
    <3>2. \A m \in 1 .. Len(ss[k]) - 1 : ss[k][m + 1] = s[(k - 1) * v + m]
      BY ONLY <1>4, <2>5, Zenon
    <3>3. ss[k][(r + 1) + 1] = s[(k - 1) * v + (r + 1)]
      BY ONLY <2>5, <3>2, Zenon
    <3>. QED BY ONLY <2>5, <3>1, <3>3, Zenon
  <2>7. q * (v + 1) + (r + 2) = j + q + 1 /\ q * v + (r + 1) = j /\ (r + 1) + 1 = r + 2
    <3>1. q * (v + 1) = q * v + q
      BY <2>1
    <3>. QED BY <1>1, <2>1, <2>2, <3>1
  <2>8. F[j + q + 1] = s[j]
    BY <2>6, <2>7
  <2>. QED BY <2>8 DEF ResidualAt, q
<1>. QED BY <1>11, <1>13, <1>14 DEF F, ss, K, n

----------------------------------------------------------------------------
(* Frame of reference *)

\* The two vectors of an object.
States == [data : Seq(Word), meta : Seq(Word)]

\* The frame-of-reference code of b, and how long it is.
LEMMA FORCodes ==
  ASSUME NEW w \in Nat, NEW sep \in BOOLEAN, NEW s \in States, NEW b \in Seq(Word), b # <<>>
  PROVE  LET v == EffectiveWindow(w, Len(b))
             e == FORPut(w, sep, s, b)
         IN  /\ e \in States
             /\ v \in Nat \ {0}
             /\ sep => /\ e.data = Residuals(b, v) /\ e.meta = Anchors(b, v)
                       /\ Len(e.data) = Len(b) /\ Len(e.meta) = CeilDiv(Len(b), v)
             /\ ~sep => /\ e.data = FlattenSeq(Interleaved(Anchors(b, v), Residuals(b, v), v))
                        /\ e.meta = s.meta
                        /\ Len(e.data) = Len(b) + CeilDiv(Len(b), v)
<1> DEFINE v == EffectiveWindow(w, Len(b))
           e == FORPut(w, sep, s, b)
           F == FlattenSeq(Interleaved(Anchors(b, v), Residuals(b, v), v))
<1>1. Len(b) \in Nat \ {0}
  OBVIOUS
<1>2. v \in Nat \ {0}
  <2>1. v \in 1 .. Len(b)
    BY <1>1, EffectiveWindowFits
  <2>. QED BY <1>1, <2>1
<1> HIDE DEF v
<1>3. /\ Anchors(b, v) \in Seq(Word) /\ Len(Anchors(b, v)) = CeilDiv(Len(b), v)
      /\ Residuals(b, v) \in Seq(Word) /\ Len(Residuals(b, v)) = Len(b)
  BY <1>2, AnchorsAreWords
<1>4. F \in Seq(Word) /\ Len(F) = Len(b) + CeilDiv(Len(b), v)
  <2> DEFINE a == Anchors(b, v)
             t == Residuals(b, v)
  <2>1. a \in Seq(Word) /\ t \in Seq(Word) /\ Len(a) = CeilDiv(Len(t), v) /\ t # <<>>
        /\ Len(t) = Len(b) /\ Len(a) = CeilDiv(Len(b), v)
    BY <1>1, <1>3
  <2> HIDE DEF a, t
  <2>2. FlattenSeq(Interleaved(a, t, v)) \in Seq(Word)
        /\ Len(FlattenSeq(Interleaved(a, t, v))) = Len(t) + Len(a)
    BY <1>2, <2>1, InterleavedPlaces
  <2>3. Len(t) \in Nat /\ Len(a) \in Nat
    BY <2>1
  <2>4. Len(FlattenSeq(Interleaved(a, t, v))) = Len(b) + CeilDiv(Len(b), v)
    BY <2>1, <2>2, <2>3
  <2>. QED BY <2>2, <2>4 DEF a, t
<1>5. F = FlattenSeq([k \in DOMAIN Anchors(b, v) |->
                        <<Anchors(b, v)[k]>> \o Window(Residuals(b, v), v, k - 1)])
  BY DEF Interleaved
<1> HIDE DEF F
<1>6. CASE sep
  <2>1. e = [data |-> Residuals(b, v), meta |-> Anchors(b, v)]
    BY <1>6 DEF FORPut, v
  <2>2. e \in States /\ e.data = Residuals(b, v) /\ e.meta = Anchors(b, v)
    BY <1>3, <2>1 DEF States
  <2> HIDE DEF e
  <2>3. Len(e.data) = Len(b) /\ Len(e.meta) = CeilDiv(Len(b), v)
    BY <1>3, <2>2
  <2>. QED BY <1>2, <1>6, <2>2, <2>3, Zenon DEF e, v
<1>7. CASE ~sep
  <2>1. e = [s EXCEPT !.data = F]
    BY <1>5, <1>7 DEF FORPut, v
  <2>2. e \in States /\ e.data = F /\ e.meta = s.meta
    BY <1>4, <2>1 DEF States
  <2>. QED BY <1>2, <1>4, <1>7, <2>2 DEF v, F
<1>. QED BY <1>6, <1>7

\* FORCodecU16 restores every block, whether its anchors are interleaved or kept
\* apart, for every window, and whatever the object held before.
THEOREM FORDecodes ==
  ASSUME NEW w \in Nat, NEW sep \in BOOLEAN, NEW s \in States, NEW b \in Seq(Word), b # <<>>
  PROVE  FORGet(w, sep, FORPut(w, sep, s, b), Len(b)) = b
<1> DEFINE v == EffectiveWindow(w, Len(b))
           e == FORPut(w, sep, s, b)
           a == Anchors(b, v)
           t == Residuals(b, v)
           F == FlattenSeq(Interleaved(a, t, v))
<1>1. /\ e \in States /\ v \in Nat \ {0}
      /\ sep => e.data = t /\ e.meta = a
      /\ ~sep => e.data = F
  BY FORCodes
<1>2. Len(b) \in Nat \ {0}
  OBVIOUS
<1>3. FORGet(w, sep, e, Len(b)) =
        [j \in 1 .. Len(b) |->
          IF sep THEN Plus(e.data[j], e.meta[((j - 1) \div v) + 1])
          ELSE Plus(e.data[j + ((j - 1) \div v) + 1], e.data[((j - 1) \div v) * (v + 1) + 1])]
  BY DEF FORGet
<1> HIDE DEF v, e
<1>4. /\ a \in Seq(Word) /\ Len(a) = CeilDiv(Len(b), v)
      /\ t \in Seq(Word) /\ Len(t) = Len(b)
  BY <1>1, AnchorsAreWords
<1>5. \A j \in 1 .. Len(b) : Plus(t[j], a[((j - 1) \div v) + 1]) = b[j]
  BY <1>1, FromAnchor
<1>6. CASE sep
  <2>1. FORGet(w, sep, e, Len(b)) = [j \in 1 .. Len(b) |-> b[j]]
    BY <1>1, <1>3, <1>5, <1>6
  <2>. QED BY <2>1 DEF e
<1>7. CASE ~sep
  <2>1. t # <<>> /\ Len(a) = CeilDiv(Len(t), v)
    BY <1>2, <1>4
  <2>2. /\ \A k \in 1 .. Len(a) : AnchorAt(F, a, v, k)
        /\ \A j \in 1 .. Len(t) : ResidualAt(F, t, v, j)
    <3> HIDE DEF a, t
    <3>. QED BY <1>1, <1>4, <2>1, InterleavedPlaces
  <2> HIDE DEF F, a, t
  <2>3. \A j \in 1 .. Len(b) :
          /\ F[j + ((j - 1) \div v) + 1] = t[j]
          /\ F[((j - 1) \div v) * (v + 1) + 1] = a[((j - 1) \div v) + 1]
    <3> SUFFICES ASSUME NEW j \in 1 .. Len(b)
                 PROVE  /\ F[j + ((j - 1) \div v) + 1] = t[j]
                        /\ F[((j - 1) \div v) * (v + 1) + 1] = a[((j - 1) \div v) + 1]
      OBVIOUS
    <3>1. (j - 1) \div v \in Nat /\ (j - 1) \div v < Len(a) /\ Len(a) \in Nat
      BY <1>1, <1>2, <1>4, WindowOfValue
    <3> DEFINE q == (j - 1) \div v
               k == q + 1
    <3> HIDE DEF q
    <3>2. k \in 1 .. Len(a) /\ k - 1 = q
      BY <3>1 DEF q
    <3> HIDE DEF k
    <3>3. F[(k - 1) * (v + 1) + 1] = a[k]
      BY ONLY <2>2, <3>2, Zenon DEF AnchorAt
    <3>4. ResidualAt(F, t, v, j)
      BY <1>4, <2>2
    <3>. QED BY ONLY <3>2, <3>3, <3>4, Zenon DEF ResidualAt, k, q
  <2>4. FORGet(w, sep, e, Len(b)) = [j \in 1 .. Len(b) |-> b[j]]
    <3>1. FORGet(w, sep, e, Len(b)) =
            [j \in 1 .. Len(b) |->
              Plus(F[j + ((j - 1) \div v) + 1], F[((j - 1) \div v) * (v + 1) + 1])]
      BY ONLY <1>1, <1>3, <1>7, Zenon
    <3>2. \A j \in 1 .. Len(b) :
            Plus(F[j + ((j - 1) \div v) + 1], F[((j - 1) \div v) * (v + 1) + 1]) = b[j]
      BY ONLY <1>5, <2>3, Zenon
    <3>. QED BY ONLY <3>1, <3>2, Zenon
  <2>. QED BY <2>4 DEF e
<1>. QED BY <1>6, <1>7

----------------------------------------------------------------------------
(* Run lengths *)

\* The runs that the pairs of d stand for, when add is added to each count.
Expand(d, add) == [k \in 1 .. Len(d) \div 2 |-> [j \in 1 .. d[2 * k] + add |-> d[2 * k - 1]]]

\* A run of m equal words.
Repeated(v, m) == [j \in 1 .. m |-> v]

\* A vector of pairs.
Even(d) == d \in Seq(Word) /\ \E m \in Nat : Len(d) = 2 * m

\* A vector of m pairs expands into m runs.
LEMMA ExpandIs ==
  ASSUME NEW d, Even(d), NEW add \in Nat, NEW m \in Nat, Len(d) = 2 * m
  PROVE  /\ Expand(d, add) \in Seq(Seq(Word)) /\ Len(Expand(d, add)) = m
         /\ \A k \in 1 .. m : Expand(d, add)[k] = Repeated(d[2 * k - 1], d[2 * k] + add)
<1>1. Len(d) \div 2 = m
  OBVIOUS
<1>2. \A k \in 1 .. m : d[2 * k - 1] \in Word /\ d[2 * k] \in Word
  <2> SUFFICES ASSUME NEW k \in 1 .. m PROVE d[2 * k - 1] \in Word /\ d[2 * k] \in Word
    OBVIOUS
  <2>1. 2 * k - 1 \in 1 .. Len(d) /\ 2 * k \in 1 .. Len(d)
    OBVIOUS
  <2>. QED BY <2>1 DEF Even
<1>3. Expand(d, add) = [k \in 1 .. m |-> Repeated(d[2 * k - 1], d[2 * k] + add)]
  BY <1>1 DEF Expand, Repeated
<1>4. \A k \in 1 .. m : Repeated(d[2 * k - 1], d[2 * k] + add) \in Seq(Word)
  <2> SUFFICES ASSUME NEW k \in 1 .. m PROVE Repeated(d[2 * k - 1], d[2 * k] + add) \in Seq(Word)
    OBVIOUS
  <2> DEFINE x == d[2 * k - 1]
             y == d[2 * k] + add
  <2>1. x \in Word /\ y \in Nat
    BY <1>2 DEF Word
  <2> HIDE DEF x, y
  <2>2. [j \in 1 .. y |-> x] \in Seq(Word)
    BY <2>1
  <2>. QED BY <2>2 DEF Repeated, x, y
<1> DEFINE r(k) == Repeated(d[2 * k - 1], d[2 * k] + add)
<1>5. \A k \in 1 .. m : r(k) \in Seq(Word)
  BY <1>4
<1> HIDE DEF r
<1>6. [k \in 1 .. m |-> r(k)] \in Seq(Seq(Word)) /\ Len([k \in 1 .. m |-> r(k)]) = m
  BY <1>5
<1>. QED BY <1>3, <1>6 DEF r

\* Pairs in front of pairs are pairs.
LEMMA EvenConcat ==
  ASSUME NEW p, Even(p), NEW q, Even(q)
  PROVE  Even(p \o q) /\ Len(p \o q) = Len(p) + Len(q)
<1>1. PICK m \in Nat : Len(p) = 2 * m
  BY DEF Even
<1>2. PICK n \in Nat : Len(q) = 2 * n
  BY DEF Even
<1>3. p \o q \in Seq(Word) /\ Len(p \o q) = Len(p) + Len(q)
  BY DEF Even
<1>4. Len(p \o q) = 2 * (m + n) /\ m + n \in Nat
  BY <1>1, <1>2, <1>3
<1>. QED BY <1>3, <1>4 DEF Even

\* Pairs one after the other stand for runs one after the other.
LEMMA ExpandConcat ==
  ASSUME NEW p, Even(p), NEW q, Even(q), NEW add \in Nat
  PROVE  FlattenSeq(Expand(p \o q, add)) = FlattenSeq(Expand(p, add)) \o FlattenSeq(Expand(q, add))
<1>1. PICK m \in Nat : Len(p) = 2 * m
  BY DEF Even
<1>2. PICK n \in Nat : Len(q) = 2 * n
  BY DEF Even
<1>3. Even(p \o q) /\ Len(p \o q) = 2 * (m + n) /\ m + n \in Nat
  BY <1>1, <1>2, EvenConcat
<1>4. /\ Expand(p, add) \in Seq(Seq(Word)) /\ Len(Expand(p, add)) = m
      /\ \A k \in 1 .. m : Expand(p, add)[k] = Repeated(p[2 * k - 1], p[2 * k] + add)
  BY <1>1, ExpandIs
<1>5. /\ Expand(q, add) \in Seq(Seq(Word)) /\ Len(Expand(q, add)) = n
      /\ \A k \in 1 .. n : Expand(q, add)[k] = Repeated(q[2 * k - 1], q[2 * k] + add)
  BY <1>2, ExpandIs
<1> DEFINE u == p \o q
           a == Expand(p, add)
           b == Expand(q, add)
           e == Expand(u, add)
<1>6. /\ e \in Seq(Seq(Word)) /\ Len(e) = m + n
      /\ \A k \in 1 .. m + n : e[k] = Repeated(u[2 * k - 1], u[2 * k] + add)
  <2> HIDE DEF u
  <2>1. Even(u) /\ Len(u) = 2 * (m + n) /\ m + n \in Nat
    BY <1>3 DEF u
  <2>. QED BY <2>1, ExpandIs
<1>7. /\ \A k \in 1 .. m : u[2 * k - 1] = p[2 * k - 1] /\ u[2 * k] = p[2 * k]
      /\ \A k \in m + 1 .. m + n : u[2 * k - 1] = q[2 * (k - m) - 1] /\ u[2 * k] = q[2 * (k - m)]
  <2>1. \A k \in 1 .. Len(p) : u[k] = p[k]
    BY DEF Even
  <2>2. \A k \in 1 .. Len(q) : u[Len(p) + k] = q[k]
    BY DEF Even
  <2> HIDE DEF u
  <2>3. \A k \in 1 .. m : u[2 * k - 1] = p[2 * k - 1] /\ u[2 * k] = p[2 * k]
    BY <1>1, <2>1
  <2>4. ASSUME NEW k \in m + 1 .. m + n
        PROVE  u[2 * k - 1] = q[2 * (k - m) - 1] /\ u[2 * k] = q[2 * (k - m)]
    <3> DEFINE x == 2 * (k - m) - 1
    <3>1. x \in 1 .. Len(q) /\ x + 1 \in 1 .. Len(q)
          /\ Len(p) + x = 2 * k - 1 /\ Len(p) + (x + 1) = 2 * k /\ x + 1 = 2 * (k - m)
      BY <1>1, <1>2
    <3>2. u[Len(p) + x] = q[x] /\ u[Len(p) + (x + 1)] = q[x + 1]
      <4> HIDE DEF x
      <4>. QED BY ONLY <2>2, <3>1, Zenon
    <3>. QED BY ONLY <3>1, <3>2, Zenon
  <2>. QED BY <2>3, <2>4
<1> HIDE DEF e, u
<1>9. /\ a \o b \in Seq(Seq(Word)) /\ Len(a \o b) = m + n
      /\ \A k \in 1 .. m : (a \o b)[k] = a[k]
      /\ \A k \in m + 1 .. m + n : (a \o b)[k] = b[k - m]
  <2> DEFINE T == Seq(Word)
  <2>1. a \in Seq(T) /\ b \in Seq(T) /\ Len(a) = m /\ Len(b) = n
    BY <1>4, <1>5
  <2> HIDE DEF T, a, b
  <2>2. /\ a \o b \in Seq(T) /\ Len(a \o b) = m + n
        /\ \A k \in 1 .. m : (a \o b)[k] = a[k]
        /\ \A k \in m + 1 .. m + n : (a \o b)[k] = b[k - m]
    BY <2>1
  <2>. QED BY <2>2 DEF T
<1>8. \A k \in 1 .. m + n : e[k] = (a \o b)[k]
  <2> SUFFICES ASSUME NEW k \in 1 .. m + n PROVE e[k] = (a \o b)[k]
    OBVIOUS
  <2>1. CASE k <= m
    <3>1. k \in 1 .. m
      BY <2>1
    <3>2. e[k] = a[k]
      BY <1>4, <1>6, <1>7, <3>1
    <3>. QED BY <1>9, <3>1, <3>2, Zenon
  <2>2. CASE m < k
    <3>1. k \in m + 1 .. m + n /\ k - m \in 1 .. n
      BY <2>2
    <3>2. e[k] = b[k - m]
      BY <1>5, <1>6, <1>7, <3>1
    <3>. QED BY <1>9, <3>1, <3>2, Zenon
  <2>3. k <= m \/ m < k
    BY ONLY m \in Nat, n \in Nat, k \in 1 .. m + n
  <2>. QED BY ONLY <2>1, <2>2, <2>3, Zenon
<1> HIDE DEF a, b
<1>10. e = a \o b
  <2> DEFINE ab == a \o b
  <2>1. ab \in Seq(Seq(Word)) /\ Len(ab) = m + n /\ \A k \in 1 .. m + n : e[k] = ab[k]
    BY <1>8, <1>9
  <2> HIDE DEF ab
  <2>2. e = ab
    BY <1>6, <2>1
  <2>. QED BY <2>2 DEF ab
<1>11. FlattenSeq(a \o b) = FlattenSeq(a) \o FlattenSeq(b)
  <2>1. a \in Seq(Seq(Word)) /\ b \in Seq(Seq(Word))
    BY <1>4, <1>5 DEF a, b
  <2>. QED BY <2>1, FlattenConcat
<1>. QED BY <1>10, <1>11 DEF e, a, b, u

\* A single sequence flattens to itself.
LEMMA FlattenOne ==
  ASSUME NEW S, NEW x \in Seq(S)
  PROVE  FlattenSeq(<<x>>) = x
<1> DEFINE f == [k \in 0 .. 1 |-> IF k = 0 THEN <<>> ELSE x]
           ss == <<x>>
<1>1. f[0] = <<>> /\ f[1] = x /\ ss \in Seq(Seq(S)) /\ Len(ss) = 1 /\ ss[1] = x
  OBVIOUS
<1>2. <<>> \o x = x
  OBVIOUS
<1> HIDE DEF f, ss
<1>3. Flattening(f, ss)
  <2>1. \A k \in 1 .. 1 : k = 1 /\ k - 1 = 0
    OBVIOUS
  <2>. QED BY ONLY <1>1, <1>2, <2>1, Zenon DEF Flattening
<1>4. FlattenSeq(ss) = f[Len(ss)]
  BY <1>1, <1>3, FlattenIs
<1>. QED BY <1>1, <1>4 DEF ss

\* One pair expands into one run.
LEMMA ExpandPair ==
  ASSUME NEW v \in Word, NEW r \in Word, NEW add \in Nat
  PROVE  /\ Even(<<v, r>>) /\ Len(<<v, r>>) = 2
         /\ FlattenSeq(Expand(<<v, r>>, add)) = Repeated(v, r + add)
<1> DEFINE d == <<v, r>>
<1>1. Even(d) /\ Len(d) = 2 /\ d[1] = v /\ d[2] = r
  <2>1. d \in Seq(Word) /\ Len(d) = 2 * 1 /\ d[1] = v /\ d[2] = r
    OBVIOUS
  <2>. QED BY <2>1 DEF Even
<1> HIDE DEF d
<1>2. Expand(d, add) \in Seq(Seq(Word)) /\ Len(Expand(d, add)) = 1
      /\ \A k \in 1 .. 1 : Expand(d, add)[k] = Repeated(d[2 * k - 1], d[2 * k] + add)
  <2>1. Len(d) = 2 * 1 /\ 1 \in Nat
    BY <1>1
  <2>2. \A m \in Nat : Len(d) = 2 * m =>
          /\ Expand(d, add) \in Seq(Seq(Word)) /\ Len(Expand(d, add)) = m
          /\ \A k \in 1 .. m : Expand(d, add)[k] = Repeated(d[2 * k - 1], d[2 * k] + add)
    BY <1>1, ExpandIs
  <2>. QED BY ONLY <2>1, <2>2, Zenon
<1>3. Expand(d, add)[1] = Repeated(v, r + add)
  BY <1>1, <1>2
<1> DEFINE e == Expand(d, add)
           x == Repeated(v, r + add)
<1>4. e \in Seq(Seq(Word)) /\ Len(e) = 1 /\ e[1] = x
  BY <1>2, <1>3
<1> HIDE DEF e, x
<1>5. x \in Seq(Word) /\ e = <<x>>
  BY <1>4
<1>6. FlattenSeq(e) = x
  BY <1>5, FlattenOne
<1>. QED BY <1>1, <1>6 DEF e, x, d

\* Two runs of the same value are one run.
LEMMA RepeatedConcat ==
  ASSUME NEW v \in Word, NEW m \in Nat, NEW n \in Nat
  PROVE  Repeated(v, m) \o Repeated(v, n) = Repeated(v, m + n)
<1>1. /\ Repeated(v, m) \in Seq(Word) /\ Len(Repeated(v, m)) = m
      /\ \A j \in 1 .. m : Repeated(v, m)[j] = v
  BY DEF Repeated
<1>2. /\ Repeated(v, n) \in Seq(Word) /\ Len(Repeated(v, n)) = n
      /\ \A j \in 1 .. n : Repeated(v, n)[j] = v
  BY DEF Repeated
<1> DEFINE s == Repeated(v, m)
           t == Repeated(v, n)
<1> HIDE DEF s, t
<1>3. s \o t \in Seq(Word) /\ Len(s \o t) = m + n /\ \A j \in 1 .. m + n : (s \o t)[j] = v
  BY <1>1, <1>2 DEF s, t
<1>4. s \o t = [j \in 1 .. m + n |-> v]
  <2> DEFINE u == s \o t
  <2>1. u \in Seq(Word) /\ Len(u) = m + n /\ \A j \in 1 .. m + n : u[j] = v
    BY <1>3
  <2> HIDE DEF u
  <2>2. u = [j \in 1 .. m + n |-> v]
    BY <2>1
  <2>. QED BY <2>2 DEF u
<1>. QED BY <1>4 DEF Repeated, s, t

\* No pairs expand into nothing.
LEMMA ExpandNothing ==
  ASSUME NEW add \in Nat
  PROVE  Even(<<>>) /\ FlattenSeq(Expand(<<>>, add)) = <<>>
<1>1. Expand(<<>>, add) \in [1 .. 0 -> {<<>>}]
  <2>1. Len(<<>>) = 0 /\ 0 \div 2 = 0
    OBVIOUS
  <2>. QED BY <2>1 DEF Expand
<1>2. FlattenSeq(Expand(<<>>, add)) = <<>>
  <2>1. 0 \in Nat
    OBVIOUS
  <2>. QED BY <1>1, <2>1, FlattenEmpty
<1>3. <<>> \in Seq(Word) /\ Len(<<>>) = 2 * 0
  OBVIOUS
<1>. QED BY <1>2, <1>3 DEF Even

\* Pair after pair, the values they stand for grow to g[n].
Grows(ss, g, add) ==
  /\ g[0] = <<>>
  /\ \A k \in 1 .. Len(ss) :
       /\ Even(ss[k]) /\ Len(ss[k]) = 2
       /\ g[k] = g[k - 1] \o FlattenSeq(Expand(ss[k], add))

\* Pairs that are appended one by one expand run by run.
LEMMA ExpandSteps ==
  ASSUME NEW ss \in Seq(Seq(Word)), NEW g, NEW add \in Nat, Grows(ss, g, add)
  PROVE  /\ Even(FlattenSeq(ss)) /\ Len(FlattenSeq(ss)) = 2 * Len(ss)
         /\ FlattenSeq(Expand(FlattenSeq(ss), add)) = g[Len(ss)]
<1> DEFINE n == Len(ss)
<1>0. n \in Nat
  OBVIOUS
<1>1. PICK f \in [0 .. n -> Seq(Word)] : Flattening(f, ss) /\ FlattenSeq(ss) = f[n]
  BY FlattenedInSteps
<1> DEFINE Good(k) == Even(f[k]) /\ Len(f[k]) = 2 * k /\ FlattenSeq(Expand(f[k], add)) = g[k]
           T == {k \in Nat : k <= n /\ ~Good(k)}
<1>2. Good(0)
  <2>1. f[0] = <<>> /\ g[0] = <<>>
    BY <1>1 DEF Flattening, Grows
  <2>2. Len(<<>>) = 2 * 0
    OBVIOUS
  <2>. QED BY <2>1, <2>2, ExpandNothing
<1>3. ASSUME NEW k \in 1 .. n, Good(k - 1) PROVE Good(k)
  <2>1. f[k] = f[k - 1] \o ss[k]
    BY <1>1 DEF Flattening
  <2>2. /\ Even(ss[k]) /\ Len(ss[k]) = 2
        /\ g[k] = g[k - 1] \o FlattenSeq(Expand(ss[k], add))
    BY DEF Grows
  <2> DEFINE p == f[k - 1]
             q == ss[k]
  <2>3. Even(p) /\ Len(p) = 2 * (k - 1) /\ FlattenSeq(Expand(p, add)) = g[k - 1] /\ Even(q)
    BY <1>3, <2>2
  <2> HIDE DEF p, q
  <2>4. Even(p \o q) /\ Len(p \o q) = Len(p) + Len(q)
        /\ FlattenSeq(Expand(p \o q, add)) = FlattenSeq(Expand(p, add)) \o FlattenSeq(Expand(q, add))
    BY <2>3, EvenConcat, ExpandConcat
  <2>5. Len(p) + Len(q) = 2 * k
    BY <1>0, <2>2, <2>3 DEF q
  <2>. QED BY ONLY <2>1, <2>2, <2>3, <2>4, <2>5, Zenon DEF p, q
<1> HIDE DEF Good
<1>4. ASSUME T # {} PROVE FALSE
  <2>1. T \in SUBSET Nat /\ T # {}
    BY <1>4
  <2>2. PICK m \in T : \A k \in T : m <= k
    BY ONLY <2>1, LeastNatural
  <2>3. m # 0
    BY <1>2
  <2>4. m \in 1 .. n /\ m - 1 \in Nat /\ m - 1 <= n /\ ~Good(m)
    BY <2>3
  <2>5. Good(m - 1)
    BY <2>2, <2>4
  <2>. QED BY <1>3, <2>4, <2>5
<1>5. Good(n)
  BY <1>0, <1>4
<1>. QED BY <1>1, <1>5 DEF Good

\* A run is split into chunks that a word can count.
LEMMA ChunksExpand ==
  ASSUME NEW v \in Word, NEW run \in Nat \ {0}
  PROVE  /\ Even(Chunks(v, run)) /\ Len(Chunks(v, run)) <= 2 * run
         /\ FlattenSeq(Expand(Chunks(v, run), 1)) = Repeated(v, run)
<1> DEFINE c == CeilDiv(run, WordSize)
           W == WordSize
           r(k) == (IF k < c THEN W ELSE run - (c - 1) * W) - 1
           ss == [k \in 1 .. c |-> <<v, r(k)>>]
           u(k) == IF k < c THEN k * W ELSE run
           g == [k \in 0 .. c |-> Repeated(v, u(k))]
<1>1. W \in Nat \ {0}
  BY HalfAssumption DEF WordSize
<1>2. c \in Nat /\ run <= c * W /\ c * W < run + W
  BY <1>1, CeilDivIs
<1>3. Chunks(v, run) = FlattenSeq(ss)
  BY DEF Chunks
<1> HIDE DEF c
<1>4. c # 0 /\ (c - 1) * W \in Nat /\ c * W = (c - 1) * W + W
  <2>1. c # 0
    BY <1>1, <1>2
  <2>2. c - 1 \in Nat
    BY <1>2, <2>1
  <2>3. (c - 1) * W \in Nat
    BY ONLY <1>1, <2>2, Product
  <2> HIDE DEF W
  <2>4. c * W = (c - 1) * W + W
    BY ONLY <1>1, <1>2, SMT
  <2>. QED BY ONLY <2>1, <2>3, <2>4 DEF W
<1>5. \A k \in 1 .. c : r(k) \in Word /\ u(k) \in Nat /\ r(k) + 1 = u(k) - u(k - 1) /\ u(k - 1) \in Nat
  <2> SUFFICES ASSUME NEW k \in 1 .. c
               PROVE  r(k) \in Word /\ u(k) \in Nat /\ r(k) + 1 = u(k) - u(k - 1) /\ u(k - 1) \in Nat
    OBVIOUS
  <2>1. k - 1 < c /\ k - 1 \in Nat /\ (k - 1) * W \in Nat /\ u(k - 1) = (k - 1) * W
    <3>1. k - 1 \in Nat /\ k - 1 < c
      BY <1>2
    <3>. QED BY <1>1, <3>1, Product
  <2>2. CASE k < c
    <3>1. k * W \in Nat /\ k * W = (k - 1) * W + W
      BY <1>1, Product
    <3>2. W - 1 \in Word
      BY <1>1 DEF Word
    <3>. QED BY <1>1, <2>1, <2>2, <3>1, <3>2
  <2>3. CASE ~(k < c)
    <3>1. k = c
      BY <1>2, <2>3
    <3> DEFINE x == (c - 1) * W
    <3>2. x \in Nat /\ run - x - 1 \in 0 .. W - 1
      BY <1>1, <1>2, <1>4
    <3>3. r(k) = run - x - 1 /\ u(k) = run /\ u(k - 1) = x
      BY <2>1, <3>1, <1>2, <1>1
    <3> HIDE DEF x, u, r
    <3>4. r(k) \in Word
      BY <3>2, <3>3 DEF Word
    <3>. QED BY <3>2, <3>3, <3>4
  <2>. QED BY <2>2, <2>3
<1>6. u(0) = 0 /\ u(c) = run
  BY <1>1, <1>2, <1>4
<1>7. \A k \in 0 .. c : g[k] = Repeated(v, u(k))
  OBVIOUS
<1> HIDE DEF r, u, g
<1>8. ss \in Seq(Seq(Word)) /\ Len(ss) = c /\ \A k \in 1 .. c : ss[k] = <<v, r(k)>>
  <2>1. \A k \in 1 .. c : <<v, r(k)>> \in Seq(Word)
    BY <1>5
  <2>. QED BY <1>2, <2>1
<1> HIDE DEF ss
<1>9. Grows(ss, g, 1)
  <2>1. g[0] = <<>>
    <3>1. g[0] = Repeated(v, 0)
      BY <1>2, <1>6, <1>7
    <3>. QED BY <3>1 DEF Repeated
  <2>2. ASSUME NEW k \in 1 .. c
        PROVE  /\ Even(ss[k]) /\ Len(ss[k]) = 2
               /\ g[k] = g[k - 1] \o FlattenSeq(Expand(ss[k], 1))
    <3>1. ss[k] = <<v, r(k)>> /\ r(k) \in Word /\ u(k) \in Nat /\ u(k - 1) \in Nat
          /\ r(k) + 1 = u(k) - u(k - 1)
      BY <1>5, <1>8
    <3>2. /\ Even(<<v, r(k)>>) /\ Len(<<v, r(k)>>) = 2
          /\ FlattenSeq(Expand(<<v, r(k)>>, 1)) = Repeated(v, r(k) + 1)
      BY <3>1, ExpandPair
    <3>3. k \in 0 .. c /\ k - 1 \in 0 .. c
      BY <1>2
    <3>4. g[k] = Repeated(v, u(k)) /\ g[k - 1] = Repeated(v, u(k - 1))
      BY <1>7, <3>3
    <3>5. r(k) + 1 \in Nat /\ u(k - 1) + (r(k) + 1) = u(k)
      BY <3>1 DEF Word
    <3>6. Repeated(v, u(k - 1)) \o Repeated(v, r(k) + 1) = Repeated(v, u(k - 1) + (r(k) + 1))
      BY <3>1, <3>5, RepeatedConcat
    <3>. QED BY ONLY <3>1, <3>2, <3>4, <3>5, <3>6, Zenon
  <2>. QED BY <1>8, <2>1, <2>2, Zenon DEF Grows
<1>10. /\ Even(FlattenSeq(ss)) /\ Len(FlattenSeq(ss)) = 2 * c
       /\ FlattenSeq(Expand(FlattenSeq(ss), 1)) = g[c]
  BY <1>8, <1>9, ExpandSteps
<1>11. g[c] = Repeated(v, run)
  <2>1. c \in 0 .. c
    BY <1>2
  <2>. QED BY <1>6, <1>7, <2>1
<1>12. 2 * c <= 2 * run
  <2>1. ASSUME run < c PROVE FALSE
    <3>1. (run + 1) * W <= c * W /\ (run + 1) * W = run * W + W
      BY <1>1, <1>2, <2>1, MulMono, SMT
    <3>2. 1 * run <= W * run /\ W * run = run * W
      BY <1>1, MulMono, SMT
    <3>. QED BY <1>1, <1>2, <3>1, <3>2
  <2>. QED BY <1>2, <2>1
<1>. QED BY <1>3, <1>10, <1>11, <1>12

\* f[k] is the code of the values from k on: the chunk of the run at k and then
\* the code from the end of the run on.
Backwards(f, n, end, ch) == f[n + 1] = <<>> /\ \A k \in 1 .. n : f[k] = ch[k] \o f[end[k]]

\* ch[k] is the code of the run of b that begins at k and ends before end[k].
RunsAt(b, end, ch, add) ==
  \A k \in 1 .. Len(b) :
    /\ end[k] \in k + 1 .. Len(b) + 1
    /\ \A j \in k .. end[k] - 1 : b[j] = b[k]
    /\ Even(ch[k]) /\ Len(ch[k]) <= 2 * (end[k] - k)
    /\ FlattenSeq(Expand(ch[k], add)) = Repeated(b[k], end[k] - k)

\* The run that begins at k, and what follows it, are the block from k on.
LEMMA RunThenRest ==
  ASSUME NEW b \in Seq(Word), NEW k \in 1 .. Len(b), NEW e \in k + 1 .. Len(b) + 1,
         \A j \in k .. e - 1 : b[j] = b[k]
  PROVE  Repeated(b[k], e - k) \o SubSeq(b, e, Len(b)) = SubSeq(b, k, Len(b))
<1> DEFINE n == Len(b)
           s == Repeated(b[k], e - k)
           t == SubSeq(b, e, n)
           u == SubSeq(b, k, n)
<1>0. n \in Nat /\ \A j \in 1 .. n : b[j] \in Word
  OBVIOUS
<1>1. /\ s \in Seq(Word) /\ Len(s) = e - k
      /\ \A j \in 1 .. e - k : s[j] = b[k]
  <2>1. b[k] \in Word /\ e - k \in Nat
    BY <1>0
  <2>. QED BY <2>1 DEF Repeated
<1>2. ASSUME NEW m \in 1 .. n + 1
      PROVE  /\ SubSeq(b, m, n) \in Seq(Word) /\ Len(SubSeq(b, m, n)) = n + 1 - m
             /\ \A j \in 1 .. n + 1 - m : SubSeq(b, m, n)[j] = b[m + j - 1]
  <2>1. \A j \in m .. n : b[j] \in Word
    BY <1>0
  <2>2. m \in Int /\ n \in Int
    BY <1>0
  <2>3. /\ SubSeq(b, m, n) \in Seq(Word)
        /\ Len(SubSeq(b, m, n)) = IF m <= n THEN n - m + 1 ELSE 0
        /\ \A j \in 1 .. n - m + 1 : SubSeq(b, m, n)[j] = b[m + j - 1]
    <3> HIDE DEF n
    <3>. QED BY <2>1, <2>2, SubSeqProperties
  <2>. QED BY <1>0, <2>3
<1>3. /\ t \in Seq(Word) /\ Len(t) = n + 1 - e /\ \A j \in 1 .. n + 1 - e : t[j] = b[e + j - 1]
      /\ u \in Seq(Word) /\ Len(u) = n + 1 - k /\ \A j \in 1 .. n + 1 - k : u[j] = b[k + j - 1]
  <2>1. e \in 1 .. n + 1 /\ k \in 1 .. n + 1
    BY <1>0
  <2>. QED BY <1>2, <2>1
<1> HIDE DEF n, s, t, u
<1>4. /\ s \o t \in Seq(Word) /\ Len(s \o t) = n + 1 - k
      /\ \A j \in 1 .. e - k : (s \o t)[j] = s[j]
      /\ \A j \in e - k + 1 .. n + 1 - k : (s \o t)[j] = t[j - (e - k)]
  <2> DEFINE x == Len(s)
             y == Len(t)
  <2>1. /\ s \o t \in Seq(Word) /\ Len(s \o t) = x + y
        /\ \A j \in 1 .. x : (s \o t)[j] = s[j]
        /\ \A j \in x + 1 .. x + y : (s \o t)[j] = t[j - x]
    <3>1. s \in Seq(Word) /\ t \in Seq(Word) /\ Len(s) = x /\ Len(t) = y
          /\ x \in Nat /\ y \in Nat
      BY <1>1, <1>3
    <3> HIDE DEF x, y
    <3>2. s \o t \in Seq(Word) /\ Len(s \o t) = x + y
      BY ONLY <3>1
    <3>3. \A j \in 1 .. x : (s \o t)[j] = s[j]
      BY ONLY <3>1
    <3>4. \A j \in x + 1 .. x + y : (s \o t)[j] = t[j - x]
      BY ONLY <3>1
    <3>. QED BY ONLY <3>2, <3>3, <3>4, Zenon
  <2>2. x = e - k /\ x + y = n + 1 - k
    BY <1>0, <1>1, <1>3
  <2> HIDE DEF x, y
  <2>. QED BY ONLY <2>1, <2>2, Zenon
<1> DEFINE st0 == s \o t
<1>5. \A j \in 1 .. n + 1 - k : st0[j] = u[j]
  <2> SUFFICES ASSUME NEW j \in 1 .. n + 1 - k PROVE st0[j] = u[j]
    OBVIOUS
  <2>1. u[j] = b[k + j - 1]
    BY <1>3
  <2>2. CASE j <= e - k
    <3>1. j \in 1 .. e - k /\ k + j - 1 \in k .. e - 1
      BY <2>2
    <3>. QED BY <1>1, <1>4, <2>1, <3>1
  <2>3. CASE ~(j <= e - k)
    <3>1. j \in e - k + 1 .. n + 1 - k /\ j - (e - k) \in 1 .. n + 1 - e
          /\ e + (j - (e - k)) - 1 = k + j - 1
      BY <1>0, <2>3
    <3>2. st0[j] = t[j - (e - k)]
      BY <1>4, <3>1
    <3>3. t[j - (e - k)] = b[e + (j - (e - k)) - 1]
      BY ONLY <1>3, <3>1, Zenon
    <3>. QED BY ONLY <2>1, <3>1, <3>2, <3>3, Zenon
  <2>. QED BY <2>2, <2>3
<1>6. st0 \in Seq(Word) /\ Len(st0) = n + 1 - k
  BY <1>4
<1> HIDE DEF st0
<1>7. st0 = u
  BY <1>3, <1>5, <1>6
<1>. QED BY <1>7 DEF st0, s, t, u, n

\* Pairs collected from the last run to the first expand into the block.
LEMMA BackwardsDecodes ==
  ASSUME NEW b \in Seq(Word), NEW add \in Nat, NEW f, NEW end, NEW ch,
         Backwards(f, Len(b), end, ch), RunsAt(b, end, ch, add)
  PROVE  /\ Even(f[1]) /\ Len(f[1]) <= 2 * Len(b)
         /\ FlattenSeq(Expand(f[1], add)) = b
<1> DEFINE n == Len(b)
           Good(k) == /\ Even(f[k]) /\ Len(f[k]) <= 2 * (n + 1 - k)
                      /\ FlattenSeq(Expand(f[k], add)) = SubSeq(b, k, n)
           T == {m \in Nat : m <= n /\ ~Good(n + 1 - m)}
<1>0. n \in Nat
  OBVIOUS
<1>1. Good(n + 1)
  <2>1. f[n + 1] = <<>>
    BY DEF Backwards
  <2>2. SubSeq(b, n + 1, n) = <<>>
    BY <1>0
  <2>3. Len(<<>>) <= 2 * (n + 1 - (n + 1))
    BY <1>0
  <2>. QED BY <2>1, <2>2, <2>3, ExpandNothing
<1>2. ASSUME NEW k \in 1 .. n, \A j \in k + 1 .. n + 1 : Good(j) PROVE Good(k)
  <2>1. f[k] = ch[k] \o f[end[k]]
    BY DEF Backwards
  <2>2. /\ end[k] \in k + 1 .. n + 1
        /\ \A j \in k .. end[k] - 1 : b[j] = b[k]
        /\ Even(ch[k]) /\ Len(ch[k]) <= 2 * (end[k] - k)
        /\ FlattenSeq(Expand(ch[k], add)) = Repeated(b[k], end[k] - k)
    BY DEF RunsAt
  <2> DEFINE e == end[k]
             p == ch[k]
             q == f[e]
  <2>3. Good(e)
    BY <1>2, <2>2
  <2>4. e \in k + 1 .. n + 1 /\ \A j \in k .. e - 1 : b[j] = b[k]
    BY <2>2
  <2>5. Even(p) /\ Len(p) <= 2 * (e - k) /\ FlattenSeq(Expand(p, add)) = Repeated(b[k], e - k)
    BY <2>2
  <2>6. Even(q) /\ Len(q) <= 2 * (n + 1 - e) /\ FlattenSeq(Expand(q, add)) = SubSeq(b, e, n)
    BY <2>3
  <2>7. f[k] = p \o q
    BY <2>1
  <2> HIDE DEF e, p, q, n
  <2>8. Even(p \o q) /\ Len(p \o q) = Len(p) + Len(q)
        /\ FlattenSeq(Expand(p \o q, add)) = FlattenSeq(Expand(p, add)) \o FlattenSeq(Expand(q, add))
    BY <2>5, <2>6, EvenConcat, ExpandConcat
  <2>9. Repeated(b[k], e - k) \o SubSeq(b, e, n) = SubSeq(b, k, n)
    BY <2>4, RunThenRest DEF n
  <2>10. Len(p) + Len(q) <= 2 * (n + 1 - k)
    <3> DEFINE x == Len(p)
               y == Len(q)
    <3>1. x \in Nat /\ y \in Nat
      BY <2>5, <2>6 DEF Even
    <3>2. x <= 2 * (e - k) /\ y <= 2 * (n + 1 - e)
      BY <2>5, <2>6
    <3> HIDE DEF x, y
    <3>3. x + y <= 2 * (n + 1 - k)
      BY <1>0, <2>4, <3>1, <3>2
    <3>. QED BY <3>3 DEF x, y
  <2>. QED BY ONLY <2>5, <2>6, <2>7, <2>8, <2>9, <2>10, Zenon
<1> HIDE DEF Good
<1>3. ASSUME T # {} PROVE FALSE
  <2>1. T \in SUBSET Nat /\ T # {}
    BY <1>3
  <2>2. PICK m \in T : \A k \in T : m <= k
    BY ONLY <2>1, LeastNatural
  <2>3. m # 0
    BY <1>0, <1>1
  <2>4. n + 1 - m \in 1 .. n /\ ~Good(n + 1 - m) /\ m \in Nat
    BY <1>0, <2>3
  <2>5. \A j \in n + 1 - m + 1 .. n + 1 : Good(j)
    <3> SUFFICES ASSUME NEW j \in n + 1 - m + 1 .. n + 1 PROVE Good(j)
      OBVIOUS
    <3>1. n + 1 - j \in Nat /\ n + 1 - j < m /\ n + 1 - j <= n /\ n + 1 - (n + 1 - j) = j
      BY <1>0, <2>4
    <3>2. n + 1 - j \notin T
      BY <1>0, <2>2, <2>4, <3>1
    <3>. QED BY <3>1, <3>2
  <2>. QED BY <1>2, <2>4, <2>5
<1>4. Good(1)
  <2>1. n \in Nat /\ n <= n /\ n + 1 - n = 1
    BY <1>0
  <2>. QED BY <1>3, <2>1
<1>5. SubSeq(b, 1, n) = b
  OBVIOUS
<1>6. 2 * (n + 1 - 1) = 2 * n
  BY <1>0
<1>. QED BY <1>4, <1>5, <1>6 DEF Good

\* The places that the runs end at lie behind, and the chunks are words.
EndsBehind(n, end, ch) == \A k \in 1 .. n : end[k] \in k + 1 .. n + 1 /\ ch[k] \in Seq(Word)

\* They can be collected, since every run ends behind its beginning.
LEMMA BackwardsExists ==
  ASSUME NEW n \in Nat, NEW end, NEW ch, EndsBehind(n, end, ch)
  PROVE  \E f \in [1 .. n + 1 -> Seq(Word)] : Backwards(f, n, end, ch)
<1> DEFINE From(m, f) == f[n + 1] = <<>> /\ \A k \in n + 1 - m .. n : f[k] = ch[k] \o f[end[k]]
           Good(m) == \E f \in [n + 1 - m .. n + 1 -> Seq(Word)] : From(m, f)
           T == {m \in Nat : m <= n /\ ~Good(m)}
<1>1. Good(0)
  <2> DEFINE f == [k \in n + 1 .. n + 1 |-> <<>>]
  <2>1. f \in [n + 1 - 0 .. n + 1 -> Seq(Word)] /\ f[n + 1] = <<>> /\ n + 1 - 0 .. n = {}
    OBVIOUS
  <2> HIDE DEF f
  <2>. QED BY <2>1
<1>2. ASSUME NEW m \in 1 .. n, Good(m - 1) PROVE Good(m)
  <2> DEFINE k0 == n + 1 - m
  <2>0. k0 \in 1 .. n /\ n + 1 - (m - 1) = k0 + 1
    OBVIOUS
  <2>1. PICK g \in [k0 + 1 .. n + 1 -> Seq(Word)] : From(m - 1, g)
    BY <1>2, <2>0
  <2>2. g[n + 1] = <<>> /\ \A k \in k0 + 1 .. n : g[k] = ch[k] \o g[end[k]]
    BY <2>0, <2>1
  <2>3. end[k0] \in k0 + 1 .. n + 1 /\ ch[k0] \in Seq(Word)
    BY <2>0 DEF EndsBehind
  <2> HIDE DEF k0, From
  <2> DEFINE x == ch[k0] \o g[end[k0]]
  <2>4. x \in Seq(Word)
    <3>1. g[end[k0]] \in Seq(Word)
      BY <2>3
    <3>. QED BY <2>3, <3>1
  <2> HIDE DEF x
  <2> DEFINE f == [k \in k0 .. n + 1 |-> IF k = k0 THEN x ELSE g[k]]
  <2>5. f \in [k0 .. n + 1 -> Seq(Word)] /\ f[k0] = x /\ \A k \in k0 + 1 .. n + 1 : f[k] = g[k]
    BY <2>0, <2>4
  <2> HIDE DEF f
  <2>6. \A k \in k0 .. n : f[k] = ch[k] \o f[end[k]]
    <3> SUFFICES ASSUME NEW k \in k0 .. n PROVE f[k] = ch[k] \o f[end[k]]
      OBVIOUS
    <3>1. k \in 1 .. n
      BY <2>0
    <3>2. end[k] \in k + 1 .. n + 1
      BY <3>1 DEF EndsBehind
    <3>3. f[end[k]] = g[end[k]]
      BY <2>0, <2>5, <3>2
    <3>4. CASE k = k0
      BY <2>5, <3>3, <3>4 DEF x
    <3>5. CASE k # k0
      <4>1. k \in k0 + 1 .. n /\ k \in k0 + 1 .. n + 1
        BY <2>0, <3>5
      <4>. QED BY <2>2, <2>5, <3>3, <4>1
    <3>. QED BY <3>4, <3>5
  <2>7. f[n + 1] = <<>>
    BY <2>0, <2>2, <2>5
  <2>. QED BY <2>5, <2>6, <2>7 DEF k0, From
<1> HIDE DEF Good
<1>3. ASSUME T # {} PROVE FALSE
  <2>1. T \in SUBSET Nat /\ T # {}
    BY <1>3
  <2>2. PICK m \in T : \A k \in T : m <= k
    BY ONLY <2>1, LeastNatural
  <2>3. m # 0
    BY <1>1
  <2>4. m \in 1 .. n /\ m - 1 \in Nat /\ m - 1 <= n /\ ~Good(m)
    BY <2>3
  <2>5. Good(m - 1)
    BY <2>2, <2>4
  <2>. QED BY <1>2, <2>4, <2>5
<1>4. Good(n)
  BY <1>3
<1>5. n + 1 - n = 1
  OBVIOUS
<1>. QED BY <1>4, <1>5 DEF Good, Backwards

\* RunEnd is the first position of another value.
LEMMA RunEndIs ==
  ASSUME NEW b \in Seq(Word), NEW k \in 1 .. Len(b)
  PROVE  /\ RunEnd(b, k) \in k + 1 .. Len(b) + 1
         /\ \A j \in k .. RunEnd(b, k) - 1 : b[j] = b[k]
<1> DEFINE n == Len(b)
           T == {j \in k + 1 .. n + 1 : j = n + 1 \/ b[j] # b[k]}
<1>0. n \in Nat /\ k \in 1 .. n
  OBVIOUS
<1>1. RunEnd(b, k) = Min(T)
  BY DEF RunEnd
<1> HIDE DEF n
<1>2. n + 1 \in T /\ T \in SUBSET Int
  BY <1>0
<1>3. IsFiniteSet(T)
  <2>1. k + 1 \in Int /\ n + 1 \in Int
    BY <1>0
  <2>2. IsFiniteSet(k + 1 .. n + 1)
    BY <2>1, FS_Interval
  <2>. QED BY <2>2, FS_Subset
<1>4. Min(T) \in T /\ \A y \in T : Min(T) <= y
  <2> HIDE DEF T
  <2>. QED BY <1>2, <1>3, MinIsLeast
<1> DEFINE e == Min(T)
<1>5. e \in k + 1 .. n + 1
  BY <1>4
<1>6. \A j \in k + 1 .. n + 1 : b[j] # b[k] => e <= j
  BY <1>4
<1> HIDE DEF e, T
<1>7. \A j \in k .. e - 1 : b[j] = b[k]
  <2> SUFFICES ASSUME NEW j \in k .. e - 1, b[j] # b[k] PROVE FALSE
    OBVIOUS
  <2>1. j # k
    OBVIOUS
  <2>2. j \in k + 1 .. n + 1 /\ j < e
    BY <1>0, <1>5, <2>1
  <2>. QED BY <1>5, <1>6, <2>2
<1>. QED BY <1>1, <1>5, <1>7 DEF e, n

\* The pairs of RLECodecU16 are words, two for each value at most, and stand for
\* the block.
LEMMA RLEPairsAre ==
  ASSUME NEW b \in Seq(Word)
  PROVE  /\ Even(RLEPairs(b)) /\ Len(RLEPairs(b)) <= 2 * Len(b)
         /\ FlattenSeq(Expand(RLEPairs(b), 1)) = b
<1> DEFINE n == Len(b)
           end == [k \in 1 .. n |-> RunEnd(b, k)]
           ch == [k \in 1 .. n |-> Chunks(b[k], RunEnd(b, k) - k)]
           P(g) == g = [i0 \in 1 .. n + 1 |->
                          IF i0 > n THEN <<>>
                          ELSE Chunks(b[i0], RunEnd(b, i0) - i0) \o g[RunEnd(b, i0)]]
<1>0. n \in Nat /\ \A k \in 1 .. n : b[k] \in Word
  OBVIOUS
<1>1. RLEPairs(b) = (CHOOSE g : P(g))[1]
  BY DEF RLEPairs
<1>2. \A k \in 1 .. n : end[k] = RunEnd(b, k) /\ ch[k] = Chunks(b[k], RunEnd(b, k) - k)
  OBVIOUS
<1> HIDE DEF end, ch
<1>3. RunsAt(b, end, ch, 1) /\ EndsBehind(n, end, ch)
  <2>1. ASSUME NEW k \in 1 .. n
        PROVE  /\ end[k] \in k + 1 .. n + 1
               /\ \A j \in k .. end[k] - 1 : b[j] = b[k]
               /\ Even(ch[k]) /\ Len(ch[k]) <= 2 * (end[k] - k)
               /\ FlattenSeq(Expand(ch[k], 1)) = Repeated(b[k], end[k] - k)
               /\ ch[k] \in Seq(Word)
    <3>1. end[k] \in k + 1 .. n + 1 /\ \A j \in k .. end[k] - 1 : b[j] = b[k]
      BY <1>2, RunEndIs
    <3> DEFINE v == b[k]
               run == end[k] - k
    <3>2. v \in Word /\ run \in Nat \ {0}
      BY <1>0, <3>1
    <3>3. ch[k] = Chunks(v, run)
      BY <1>2
    <3> HIDE DEF v, run
    <3>4. /\ Even(Chunks(v, run)) /\ Len(Chunks(v, run)) <= 2 * run
          /\ FlattenSeq(Expand(Chunks(v, run), 1)) = Repeated(v, run)
      BY <3>2, ChunksExpand
    <3>. QED BY <3>1, <3>3, <3>4 DEF v, run, Even
  <2>. QED BY <2>1 DEF RunsAt, EndsBehind
<1> DEFINE g == CHOOSE g : P(g)
<1>4. P(g)
  <2>1. PICK f \in [1 .. n + 1 -> Seq(Word)] : Backwards(f, n, end, ch)
    BY <1>0, <1>3, BackwardsExists
  <2>2. f = [k \in 1 .. n + 1 |-> f[k]]
    OBVIOUS
  <2>3. \A k \in 1 .. n + 1 :
          f[k] = IF k > n THEN <<>> ELSE Chunks(b[k], RunEnd(b, k) - k) \o f[RunEnd(b, k)]
    <3> SUFFICES ASSUME NEW k \in 1 .. n + 1
                 PROVE  f[k] = IF k > n THEN <<>>
                               ELSE Chunks(b[k], RunEnd(b, k) - k) \o f[RunEnd(b, k)]
      OBVIOUS
    <3>1. CASE k > n
      <4>1. k = n + 1
        BY <1>0, <3>1
      <4>. QED BY <2>1, <3>1, <4>1 DEF Backwards
    <3>2. CASE ~(k > n)
      <4>1. k \in 1 .. n
        BY <1>0, <3>2
      <4>. QED BY <1>2, <2>1, <3>2, <4>1 DEF Backwards
    <3>. QED BY <3>1, <3>2
  <2>4. P(f)
    <3> HIDE DEF n
    <3>1. f = [k \in 1 .. n + 1 |->
                 IF k > n THEN <<>> ELSE Chunks(b[k], RunEnd(b, k) - k) \o f[RunEnd(b, k)]]
      BY ONLY <2>2, <2>3, Zenon
    <3>. QED BY ONLY <3>1
  <2> HIDE DEF P
  <2>. QED BY <2>4
<1>5. Backwards(g, n, end, ch)
  <2>1. g = [k \in 1 .. n + 1 |->
               IF k > n THEN <<>> ELSE Chunks(b[k], RunEnd(b, k) - k) \o g[RunEnd(b, k)]]
    BY <1>4
  <2> HIDE DEF g, n
  <2>2. \A k \in 1 .. n + 1 :
          g[k] = IF k > n THEN <<>> ELSE Chunks(b[k], RunEnd(b, k) - k) \o g[RunEnd(b, k)]
    BY ONLY <2>1
  <2>3. n + 1 \in 1 .. n + 1 /\ n + 1 > n
    BY <1>0
  <2>4. \A k \in 1 .. n : k \in 1 .. n + 1 /\ ~(k > n)
    BY <1>0
  <2>5. g[n + 1] = <<>>
    BY ONLY <2>2, <2>3, Zenon
  <2>6. \A k \in 1 .. n : g[k] = ch[k] \o g[end[k]]
    BY ONLY <1>2, <2>2, <2>4, Zenon
  <2>. QED BY <2>5, <2>6 DEF Backwards
<1> HIDE DEF g, P
<1>6. /\ Even(g[1]) /\ Len(g[1]) <= 2 * Len(b)
      /\ FlattenSeq(Expand(g[1], 1)) = b
  BY <1>3, <1>5, BackwardsDecodes
<1>. QED BY <1>1, <1>6 DEF g

\* f[k] is base[k], or what f has at a later place.
Jumps(f, n, stop, base, jump) ==
  \A k \in 1 .. n : f[k] = IF stop[k] THEN base[k] ELSE f[jump[k]]

\* Each step of a recursion either stops or goes on at a later place.
JumpsAhead(n, stop, base, jump) ==
  \A k \in 1 .. n : base[k] \in Int /\ (~stop[k] => jump[k] \in k + 1 .. n)

\* A recursion that jumps ahead until it stops has a solution.
LEMMA JumpsExist ==
  ASSUME NEW n \in Nat, NEW stop, NEW base, NEW jump, JumpsAhead(n, stop, base, jump)
  PROVE  \E f \in [1 .. n -> Int] : Jumps(f, n, stop, base, jump)
<1> DEFINE From(m, f) == \A k \in n + 1 - m .. n : f[k] = IF stop[k] THEN base[k] ELSE f[jump[k]]
           Good(m) == \E f \in [n + 1 - m .. n -> Int] : From(m, f)
           T == {m \in Nat : m <= n /\ ~Good(m)}
<1>1. Good(0)
  <2> DEFINE f == [k \in n + 1 .. n |-> 0]
  <2>1. f \in [n + 1 - 0 .. n -> Int] /\ n + 1 - 0 .. n = {}
    OBVIOUS
  <2> HIDE DEF f
  <2>. QED BY <2>1
<1>2. ASSUME NEW m \in 1 .. n, Good(m - 1) PROVE Good(m)
  <2> DEFINE k0 == n + 1 - m
  <2>0. k0 \in 1 .. n /\ n + 1 - (m - 1) = k0 + 1
    OBVIOUS
  <2>1. PICK g \in [k0 + 1 .. n -> Int] : From(m - 1, g)
    BY <1>2, <2>0
  <2>2. \A k \in k0 + 1 .. n : g[k] = IF stop[k] THEN base[k] ELSE g[jump[k]]
    BY <2>0, <2>1
  <2>3. base[k0] \in Int /\ (~stop[k0] => jump[k0] \in k0 + 1 .. n)
    BY <2>0 DEF JumpsAhead
  <2> HIDE DEF k0, From
  <2> DEFINE x == IF stop[k0] THEN base[k0] ELSE g[jump[k0]]
  <2>4. x \in Int
    BY <2>3
  <2> HIDE DEF x
  <2> DEFINE f == [k \in k0 .. n |-> IF k = k0 THEN x ELSE g[k]]
  <2>5. f \in [k0 .. n -> Int] /\ f[k0] = x /\ \A k \in k0 + 1 .. n : f[k] = g[k]
    BY <2>0, <2>4
  <2> HIDE DEF f
  <2>6. \A k \in k0 .. n : f[k] = IF stop[k] THEN base[k] ELSE f[jump[k]]
    <3> SUFFICES ASSUME NEW k \in k0 .. n PROVE f[k] = IF stop[k] THEN base[k] ELSE f[jump[k]]
      OBVIOUS
    <3>1. k \in 1 .. n
      BY <2>0
    <3>2. ~stop[k] => jump[k] \in k + 1 .. n
      BY <3>1 DEF JumpsAhead
    <3>3. ~stop[k] => f[jump[k]] = g[jump[k]]
      BY <2>0, <2>5, <3>2
    <3>4. CASE k = k0
      BY <2>5, <3>3, <3>4 DEF x
    <3>5. CASE k # k0
      <4>1. k \in k0 + 1 .. n
        BY <2>0, <3>5
      <4>. QED BY <2>2, <2>5, <3>3, <4>1
    <3>. QED BY <3>4, <3>5
  <2>. QED BY <2>5, <2>6 DEF k0, From
<1> HIDE DEF Good
<1>3. ASSUME T # {} PROVE FALSE
  <2>1. T \in SUBSET Nat /\ T # {}
    BY <1>3
  <2>2. PICK m \in T : \A k \in T : m <= k
    BY ONLY <2>1, LeastNatural
  <2>3. m # 0
    BY <1>1
  <2>4. m \in 1 .. n /\ m - 1 \in Nat /\ m - 1 <= n /\ ~Good(m)
    BY <2>3
  <2>5. Good(m - 1)
    BY <2>2, <2>4
  <2>. QED BY <1>2, <2>4, <2>5
<1>4. Good(n)
  BY <1>3
<1>5. n + 1 - n = 1
  OBVIOUS
<1>. QED BY <1>4, <1>5 DEF Good, Jumps

\* b has the same word from k to m.
SameTo(b, k, m) == \A j \in k .. m : b[j] = b[k]

\* The scan of a vectorised run-length codec from place k, in words of W lanes.
Differ(b, k, r, W) == {l \in 0 .. W - 1 : b[k + r + l - 1] # b[k + r + l]}

\* scan does what the loop of VectorRun does.
Scans(scan, b, k, W) ==
  \A r \in 1 .. Len(b) :
    scan[r] = IF k + r + W - 2 >= Len(b) THEN r
              ELSE IF Differ(b, k, r, W) = {} THEN scan[r + W] ELSE r + Min(Differ(b, k, r, W))

\* A scan that has seen equal words up to r stops behind equal words.
LEMMA ScanStaysInRun ==
  ASSUME NEW b \in Seq(Word), NEW k \in 1 .. Len(b), NEW W \in Nat \ {0}, NEW scan,
         Scans(scan, b, k, W)
  PROVE  /\ scan[1] \in 1 .. Len(b) /\ k + scan[1] - 1 <= Len(b)
         /\ SameTo(b, k, k + scan[1] - 1)
<1> DEFINE n == Len(b)
           Good(r) == k + r - 1 <= n /\ SameTo(b, k, k + r - 1)
                        => /\ scan[r] \in r .. n /\ k + scan[r] - 1 <= n
                           /\ SameTo(b, k, k + scan[r] - 1)
           T == {m \in Nat : m < n /\ ~Good(n - m)}
<1>0. n \in Nat /\ k \in 1 .. n
  OBVIOUS
<1>1. \A r \in 1 .. n :
        scan[r] = IF k + r + W - 2 >= n THEN r
                  ELSE IF Differ(b, k, r, W) = {} THEN scan[r + W] ELSE r + Min(Differ(b, k, r, W))
  BY DEF Scans
<1> HIDE DEF n
<1>2. ASSUME NEW r \in 1 .. n, \A q \in r + 1 .. n : Good(q) PROVE Good(r)
  <2> SUFFICES ASSUME k + r - 1 <= n, SameTo(b, k, k + r - 1)
               PROVE  /\ scan[r] \in r .. n /\ k + scan[r] - 1 <= n
                      /\ SameTo(b, k, k + scan[r] - 1)
    OBVIOUS
  <2> DEFINE D == Differ(b, k, r, W)
  <2>1. CASE k + r + W - 2 >= n
    <3>1. scan[r] = r
      BY <1>1, <2>1
    <3>. QED BY <1>0, <3>1
  <2>2. CASE ~(k + r + W - 2 >= n) /\ D = {}
    <3>1. scan[r] = scan[r + W]
      BY <1>1, <2>2
    <3>2. r + W \in r + 1 .. n /\ k + (r + W) - 1 <= n
      BY <1>0, <2>2
    <3>3. \A l \in 0 .. W - 1 : b[k + r + l - 1] = b[k + r + l]
      BY <2>2 DEF Differ
    <3>4. SameTo(b, k, k + (r + W) - 1)
      <4> DEFINE U == {j \in Nat : j \in k .. k + (r + W) - 1 /\ b[j] # b[k]}
      <4>1. ASSUME U # {} PROVE FALSE
        <5>1. U \in SUBSET Nat /\ U # {}
          BY <4>1
        <5>2. PICK j \in U : \A q \in U : j <= q
          BY ONLY <5>1, LeastNatural
        <5>3. j \in Nat /\ j \in k .. k + (r + W) - 1 /\ b[j] # b[k]
          OBVIOUS
        <5>4. ~(j <= k + r - 1)
          BY <1>0, <5>3 DEF SameTo
        <5>5. j - (k + r) \in 0 .. W - 1 /\ k + r + (j - (k + r)) - 1 = j - 1
              /\ k + r + (j - (k + r)) = j
          BY <1>0, <5>3, <5>4
        <5>6. b[j - 1] = b[j]
          BY ONLY <3>3, <5>5, Zenon
        <5>7. j - 1 \in Nat /\ j - 1 \in k .. k + (r + W) - 1 /\ j - 1 < j
          BY <1>0, <5>3, <5>4
        <5>8. j - 1 \notin U
          BY <5>2, <5>7
        <5>. QED BY <5>3, <5>6, <5>7, <5>8
      <4>2. \A j \in k .. k + (r + W) - 1 : j \in Nat
        BY <1>0
      <4>. QED BY <4>1, <4>2 DEF SameTo
    <3>5. /\ scan[r + W] \in r + W .. n /\ k + scan[r + W] - 1 <= n
          /\ SameTo(b, k, k + scan[r + W] - 1)
      BY <1>2, <3>2, <3>4
    <3>6. scan[r] \in r .. n
      BY <1>0, <3>1, <3>5
    <3>. QED BY <3>1, <3>5, <3>6
  <2>3. CASE ~(k + r + W - 2 >= n) /\ D # {}
    <3> DEFINE d == Min(D)
    <3>1. scan[r] = r + d
      BY <1>1, <2>3
    <3>2. d \in D /\ \A y \in D : d <= y
      <4>1. D \in SUBSET Int /\ IsFiniteSet(D)
        <5>1. 0 \in Int /\ W - 1 \in Int
          OBVIOUS
        <5>2. IsFiniteSet(0 .. W - 1)
          BY <5>1, FS_Interval
        <5>3. D \subseteq 0 .. W - 1
          BY DEF Differ
        <5>. QED BY <5>2, <5>3, FS_Subset
      <4> HIDE DEF D
      <4>. QED BY <2>3, <4>1, MinIsLeast
    <3>3. d \in 0 .. W - 1
      BY <3>2 DEF Differ
    <3>4. \A l \in 0 .. d - 1 : b[k + r + l - 1] = b[k + r + l]
      <4> SUFFICES ASSUME NEW l \in 0 .. d - 1, b[k + r + l - 1] # b[k + r + l] PROVE FALSE
        OBVIOUS
      <4>1. l \in 0 .. W - 1 /\ ~(d <= l)
        BY <3>3
      <4>2. l \in D
        BY <4>1 DEF Differ
      <4> HIDE DEF d, D
      <4>. QED BY <3>2, <4>1, <4>2
    <3> HIDE DEF d, D
    <3>5. r + d \in r .. n /\ k + (r + d) - 1 <= n
      BY <1>0, <2>3, <3>3
    <3>6. SameTo(b, k, k + (r + d) - 1)
      <4> DEFINE U == {j \in Nat : j \in k .. k + (r + d) - 1 /\ b[j] # b[k]}
      <4>1. ASSUME U # {} PROVE FALSE
        <5>1. U \in SUBSET Nat /\ U # {}
          BY <4>1
        <5>2. PICK j \in U : \A q \in U : j <= q
          BY ONLY <5>1, LeastNatural
        <5>3. j \in Nat /\ j \in k .. k + (r + d) - 1 /\ b[j] # b[k]
          OBVIOUS
        <5>4. ~(j <= k + r - 1)
          BY <1>0, <5>3 DEF SameTo
        <5>5. j - (k + r) \in 0 .. d - 1 /\ k + r + (j - (k + r)) - 1 = j - 1
              /\ k + r + (j - (k + r)) = j
          BY <1>0, <3>3, <5>3, <5>4
        <5>6. b[j - 1] = b[j]
          BY ONLY <3>4, <5>5, Zenon
        <5>7. j - 1 \in Nat /\ j - 1 \in k .. k + (r + d) - 1 /\ j - 1 < j
          BY <1>0, <3>3, <5>3, <5>4
        <5>8. j - 1 \notin U
          BY <5>2, <5>7
        <5>. QED BY <5>3, <5>6, <5>7, <5>8
      <4>2. \A j \in k .. k + (r + d) - 1 : j \in Nat
        BY <1>0
      <4>. QED BY <4>1, <4>2 DEF SameTo
    <3>. QED BY <3>1, <3>5, <3>6
  <2>. QED BY <2>1, <2>2, <2>3
<1> HIDE DEF Good
<1>3. ASSUME T # {} PROVE FALSE
  <2>1. T \in SUBSET Nat /\ T # {}
    BY <1>3
  <2>2. PICK m \in T : \A q \in T : m <= q
    BY ONLY <2>1, LeastNatural
  <2>3. n - m \in 1 .. n /\ ~Good(n - m) /\ m \in Nat
    BY <1>0
  <2>4. \A q \in n - m + 1 .. n : Good(q)
    <3> SUFFICES ASSUME NEW q \in n - m + 1 .. n PROVE Good(q)
      OBVIOUS
    <3>1. n - q \in Nat /\ n - q < m /\ n - q < n /\ n - (n - q) = q
      BY <1>0, <2>3
    <3>2. n - q \notin T
      <4> HIDE DEF T
      <4>1. ~(m <= n - q)
        BY <1>0, <2>3, <3>1
      <4>. QED BY ONLY <2>2, <4>1, Zenon
    <3>. QED BY <3>1, <3>2
  <2>. QED BY <1>2, <2>3, <2>4
<1>4. Good(1)
  <2>1. n - 1 \in Nat /\ n - 1 < n /\ n - (n - 1) = 1
    BY <1>0
  <2>. QED BY <1>3, <2>1
<1>5. k + 1 - 1 <= n /\ SameTo(b, k, k + 1 - 1)
  <2>1. \A j \in k .. k + 1 - 1 : j = k
    BY <1>0
  <2>. QED BY <1>0, <2>1 DEF SameTo
<1>. QED BY <1>4, <1>5 DEF Good, n

\* A run of the vectorised codecs is a run of the block, if not all of it.
LEMMA VectorRunIs ==
  ASSUME NEW b \in Seq(Word), NEW k \in 1 .. Len(b), NEW W \in Nat \ {0}
  PROVE  /\ VectorRun(b, k, W) \in 1 .. Len(b) + 1 - k
         /\ SameTo(b, k, k + VectorRun(b, k, W) - 1)
<1> DEFINE n == Len(b)
           P(s) == s = [r \in 1 .. n |->
                     LET differ == {l \in 0 .. W - 1 : b[k + r + l - 1] # b[k + r + l]}
                     IN  IF k + r + W - 2 >= n THEN r
                         ELSE IF differ = {} THEN s[r + W] ELSE r + Min(differ)]
           scan == CHOOSE s : P(s)
           stop == [r \in 1 .. n |-> k + r + W - 2 >= n \/ Differ(b, k, r, W) # {}]
           base == [r \in 1 .. n |-> IF k + r + W - 2 >= n THEN r
                                     ELSE IF Differ(b, k, r, W) # {} THEN r + Min(Differ(b, k, r, W))
                                     ELSE 0]
           jump == [r \in 1 .. n |-> r + W]
           E == {j \in k + scan[1] .. n + 1 : j = n + 1 \/ b[j] # b[k]}
<1>0. n \in Nat /\ k \in 1 .. n
  OBVIOUS
<1>1. VectorRun(b, k, W) = Min(E) - k
  BY DEF VectorRun
<1>2. \A r \in 1 .. n : Differ(b, k, r, W) # {} => Min(Differ(b, k, r, W)) \in Int
  <2> SUFFICES ASSUME NEW r \in 1 .. n, Differ(b, k, r, W) # {}
               PROVE  Min(Differ(b, k, r, W)) \in Int
    OBVIOUS
  <2> DEFINE D == Differ(b, k, r, W)
  <2>1. D \in SUBSET Int /\ IsFiniteSet(D)
    <3>1. 0 \in Int /\ W - 1 \in Int
      OBVIOUS
    <3>2. IsFiniteSet(0 .. W - 1)
      BY <3>1, FS_Interval
    <3>3. D \subseteq 0 .. W - 1
      BY DEF Differ
    <3>. QED BY <3>2, <3>3, FS_Subset
  <2>2. D # {}
    OBVIOUS
  <2> HIDE DEF D
  <2>3. Min(D) \in Int
    BY <2>1, <2>2, MinIsLeast
  <2>. QED BY <2>3 DEF D
<1>3. JumpsAhead(n, stop, base, jump)
  <2> SUFFICES ASSUME NEW r \in 1 .. n PROVE base[r] \in Int /\ (~stop[r] => jump[r] \in r + 1 .. n)
    BY DEF JumpsAhead
  <2>1. base[r] \in Int
    BY <1>2
  <2>2. ~stop[r] => jump[r] \in r + 1 .. n
    <3>1. ~stop[r] => ~(k + r + W - 2 >= n)
      OBVIOUS
    <3>2. jump[r] = r + W
      OBVIOUS
    <3> HIDE DEF stop, jump, n
    <3>3. ~(k + r + W - 2 >= n) => r + W \in r + 1 .. n
      BY <1>0
    <3>. QED BY ONLY <3>1, <3>2, <3>3, Zenon
  <2>. QED BY <2>1, <2>2
<1>4. PICK f \in [1 .. n -> Int] : Jumps(f, n, stop, base, jump)
  <2> HIDE DEF stop, base, jump, n
  <2>. QED BY <1>0, <1>3, JumpsExist
<1>5. P(f)
  <2>1. \A r \in 1 .. n :
          f[r] = LET differ == {l \in 0 .. W - 1 : b[k + r + l - 1] # b[k + r + l]}
                 IN  IF k + r + W - 2 >= n THEN r
                     ELSE IF differ = {} THEN f[r + W] ELSE r + Min(differ)
    <3> SUFFICES ASSUME NEW r \in 1 .. n
                 PROVE  f[r] = IF k + r + W - 2 >= n THEN r
                               ELSE IF Differ(b, k, r, W) = {} THEN f[r + W]
                               ELSE r + Min(Differ(b, k, r, W))
      BY DEF Differ
    <3>1. f[r] = IF stop[r] THEN base[r] ELSE f[jump[r]]
      BY <1>4 DEF Jumps
    <3>2. /\ stop[r] = (k + r + W - 2 >= n \/ Differ(b, k, r, W) # {})
          /\ jump[r] = r + W
          /\ base[r] = IF k + r + W - 2 >= n THEN r
                       ELSE IF Differ(b, k, r, W) # {} THEN r + Min(Differ(b, k, r, W)) ELSE 0
      OBVIOUS
    <3>. QED BY ONLY <3>1, <3>2, Zenon
  <2>2. f = [r \in 1 .. n |-> f[r]]
    OBVIOUS
  <2> HIDE DEF n
  <2>. QED BY ONLY <2>1, <2>2, Zenon
<1>6. P(scan)
  <2> HIDE DEF P
  <2>. QED BY <1>5
<1>7. Scans(scan, b, k, W)
  <2>1. scan = [r \in 1 .. n |->
                     LET differ == {l \in 0 .. W - 1 : b[k + r + l - 1] # b[k + r + l]}
                     IN  IF k + r + W - 2 >= n THEN r
                         ELSE IF differ = {} THEN scan[r + W] ELSE r + Min(differ)]
    BY <1>6
  <2> HIDE DEF scan
  <2>2. \A r \in 1 .. n :
          scan[r] = LET differ == {l \in 0 .. W - 1 : b[k + r + l - 1] # b[k + r + l]}
                    IN  IF k + r + W - 2 >= n THEN r
                        ELSE IF differ = {} THEN scan[r + W] ELSE r + Min(differ)
    BY ONLY <2>1
  <2>. QED BY <2>2 DEF Scans, Differ
<1> HIDE DEF scan, P
<1>8. /\ scan[1] \in 1 .. n /\ k + scan[1] - 1 <= n
      /\ SameTo(b, k, k + scan[1] - 1)
  BY <1>7, ScanStaysInRun
<1> HIDE DEF n, stop, base, jump
<1>9. E \in SUBSET Int /\ IsFiniteSet(E) /\ n + 1 \in E
  <2>1. k + scan[1] \in Int /\ n + 1 \in Int /\ k + scan[1] <= n + 1
    BY <1>0, <1>8
  <2>2. IsFiniteSet(k + scan[1] .. n + 1)
    BY <2>1, FS_Interval
  <2>3. E \subseteq k + scan[1] .. n + 1
    OBVIOUS
  <2>. QED BY <2>1, <2>2, <2>3, FS_Subset
<1>10. Min(E) \in E /\ \A y \in E : Min(E) <= y
  <2> HIDE DEF E
  <2>. QED BY <1>9, MinIsLeast
<1> DEFINE e == Min(E)
<1>11. e \in k + scan[1] .. n + 1 /\ \A j \in k + scan[1] .. n + 1 : b[j] # b[k] => e <= j
  BY <1>10
<1> HIDE DEF e, E
<1>12. SameTo(b, k, e - 1)
  <2> SUFFICES ASSUME NEW j \in k .. e - 1, b[j] # b[k] PROVE FALSE
    BY DEF SameTo
  <2>1. ~(j <= k + scan[1] - 1)
    BY <1>0, <1>8 DEF SameTo
  <2>2. j \in k + scan[1] .. n + 1 /\ ~(e <= j)
    BY <1>0, <1>8, <1>11, <2>1
  <2>. QED BY <1>11, <2>2
<1>13. e - k \in 1 .. n + 1 - k /\ k + (e - k) - 1 = e - 1
  BY <1>0, <1>8, <1>11
<1>. QED BY ONLY <1>1, <1>12, <1>13, Zenon DEF e, n

\* The runs that fit a word.
ShortRuns(b, W) == \A k \in 1 .. Len(b) : VectorRun(b, k, W) < WordSize

\* The vectorised run lengths expand into the block when its runs fit a word.
LEMMA VectorPairsAre ==
  ASSUME NEW b \in Seq(Word), NEW W \in Nat \ {0}, ShortRuns(b, W)
  PROVE  /\ Even(VectorPairs(b, W)) /\ Len(VectorPairs(b, W)) <= 2 * Len(b)
         /\ FlattenSeq(Expand(VectorPairs(b, W), 0)) = b
<1> DEFINE n == Len(b)
           run(k) == VectorRun(b, k, W)
           end == [k \in 1 .. n |-> k + run(k)]
           ch == [k \in 1 .. n |-> <<b[k], run(k) % WordSize>>]
           P(g) == g = [i0 \in 1 .. n + 1 |->
                          IF i0 > n THEN <<>>
                          ELSE <<b[i0], run(i0) % WordSize>> \o g[i0 + run(i0)]]
<1>0. n \in Nat /\ \A k \in 1 .. n : b[k] \in Word
  OBVIOUS
<1>1. VectorPairs(b, W) = (CHOOSE g : P(g))[1]
  BY DEF VectorPairs
<1>a. \A k \in 1 .. n : run(k) \in 1 .. n + 1 - k /\ SameTo(b, k, k + run(k) - 1) /\ run(k) < WordSize
  BY VectorRunIs DEF ShortRuns
<1>2. \A k \in 1 .. n : end[k] = k + run(k) /\ ch[k] = <<b[k], run(k) % WordSize>>
  OBVIOUS
<1> HIDE DEF end, ch, run
<1>3. RunsAt(b, end, ch, 0) /\ EndsBehind(n, end, ch)
  <2>1. ASSUME NEW k \in 1 .. n
        PROVE  /\ end[k] \in k + 1 .. n + 1
               /\ \A j \in k .. end[k] - 1 : b[j] = b[k]
               /\ Even(ch[k]) /\ Len(ch[k]) <= 2 * (end[k] - k)
               /\ FlattenSeq(Expand(ch[k], 0)) = Repeated(b[k], end[k] - k)
               /\ ch[k] \in Seq(Word)
    <3>1. run(k) \in 1 .. n + 1 - k /\ SameTo(b, k, k + run(k) - 1) /\ run(k) < WordSize
          /\ end[k] = k + run(k) /\ ch[k] = <<b[k], run(k) % WordSize>> /\ b[k] \in Word
      BY <1>0, <1>a, <1>2
    <3>2. run(k) % WordSize = run(k) /\ run(k) \in Word /\ run(k) + 0 = run(k)
      <4>1. WordSize \in Nat
        BY HalfAssumption DEF WordSize
      <4> DEFINE x == run(k)
      <4>2. x \in Nat \ {0} /\ x < WordSize
        BY <1>0, <3>1
      <4> HIDE DEF x
      <4>a. x % WordSize = x
        BY <4>1, <4>2, WrapOnce
      <4>b. x \in Word /\ x + 0 = x
        BY <4>1, <4>2 DEF Word
      <4>3. x % WordSize = x /\ x \in Word /\ x + 0 = x
        BY <4>a, <4>b
      <4>. QED BY <4>3 DEF x
    <3>3. end[k] \in k + 1 .. n + 1 /\ end[k] - k = run(k) /\ 2 <= 2 * (end[k] - k)
      BY <1>0, <3>1
    <3>4. \A j \in k .. end[k] - 1 : b[j] = b[k]
      <4>1. k + run(k) - 1 = end[k] - 1
        BY <3>1
      <4>. QED BY ONLY <3>1, <4>1, Zenon DEF SameTo
    <3>5. /\ Even(<<b[k], run(k)>>) /\ Len(<<b[k], run(k)>>) = 2
          /\ FlattenSeq(Expand(<<b[k], run(k)>>, 0)) = Repeated(b[k], run(k) + 0)
      <4>1. 0 \in Nat
        OBVIOUS
      <4>. QED BY <3>1, <3>2, <4>1, ExpandPair
    <3>6. ch[k] = <<b[k], run(k)>>
      BY <3>1, <3>2
    <3>7. ch[k] \in Seq(Word)
      BY <3>5, <3>6 DEF Even
    <3>. QED BY ONLY <3>2, <3>3, <3>4, <3>5, <3>6, <3>7, Zenon
  <2>. QED BY <2>1 DEF RunsAt, EndsBehind
<1> DEFINE g == CHOOSE g : P(g)
<1>4. P(g)
  <2>1. PICK f \in [1 .. n + 1 -> Seq(Word)] : Backwards(f, n, end, ch)
    BY <1>0, <1>3, BackwardsExists
  <2>2. f = [k \in 1 .. n + 1 |-> f[k]]
    OBVIOUS
  <2>3. \A k \in 1 .. n + 1 :
          f[k] = IF k > n THEN <<>> ELSE <<b[k], run(k) % WordSize>> \o f[k + run(k)]
    <3> SUFFICES ASSUME NEW k \in 1 .. n + 1
                 PROVE  f[k] = IF k > n THEN <<>>
                               ELSE <<b[k], run(k) % WordSize>> \o f[k + run(k)]
      OBVIOUS
    <3>1. CASE k > n
      <4>1. k = n + 1
        BY <1>0, <3>1
      <4>. QED BY <2>1, <3>1, <4>1 DEF Backwards
    <3>2. CASE ~(k > n)
      <4>1. k \in 1 .. n
        BY <1>0, <3>2
      <4>2. f[k] = ch[k] \o f[end[k]]
        BY <2>1, <4>1 DEF Backwards
      <4>. QED BY ONLY <1>2, <3>2, <4>1, <4>2, Zenon
    <3>. QED BY <3>1, <3>2
  <2>4. P(f)
    <3> HIDE DEF n
    <3>1. f = [k \in 1 .. n + 1 |->
                 IF k > n THEN <<>> ELSE <<b[k], run(k) % WordSize>> \o f[k + run(k)]]
      BY ONLY <2>2, <2>3, Zenon
    <3>. QED BY ONLY <3>1
  <2> HIDE DEF P
  <2>. QED BY <2>4
<1>5. Backwards(g, n, end, ch)
  <2>1. g = [k \in 1 .. n + 1 |->
               IF k > n THEN <<>> ELSE <<b[k], run(k) % WordSize>> \o g[k + run(k)]]
    BY <1>4
  <2> HIDE DEF g, n
  <2>2. \A k \in 1 .. n + 1 :
          g[k] = IF k > n THEN <<>> ELSE <<b[k], run(k) % WordSize>> \o g[k + run(k)]
    BY ONLY <2>1
  <2>3. n + 1 \in 1 .. n + 1 /\ n + 1 > n
    BY <1>0
  <2>4. \A k \in 1 .. n : k \in 1 .. n + 1 /\ ~(k > n)
    BY <1>0
  <2>5. g[n + 1] = <<>>
    BY ONLY <2>2, <2>3, Zenon
  <2>6. \A k \in 1 .. n : g[k] = ch[k] \o g[end[k]]
    BY ONLY <1>2, <2>2, <2>4, Zenon
  <2>. QED BY <2>5, <2>6 DEF Backwards
<1> HIDE DEF g, P
<1>6. /\ Even(g[1]) /\ Len(g[1]) <= 2 * Len(b)
      /\ FlattenSeq(Expand(g[1], 0)) = b
  BY <1>3, <1>5, BackwardsDecodes
<1>. QED BY <1>1, <1>6 DEF g

----------------------------------------------------------------------------
(* The vectorised codecs *)

\* Where a vector begins, and how far the vector loops go.
LEMMA VectorStart ==
  ASSUME NEW W \in Nat \ {0}, NEW k \in Nat
  PROVE  W * (k \div W) \in Nat /\ W * (k \div W) <= k /\ k < W * (k \div W) + W
<1>1. k \div W \in Nat /\ k % W \in 0 .. W - 1 /\ k = (k \div W) * W + (k % W)
  BY Division
<1> DEFINE q == k \div W
           r == k % W
<1> HIDE DEF q, r
<1>2. q \in Nat /\ r \in 0 .. W - 1 /\ k = q * W + r
  BY <1>1 DEF q, r
<1>3. W * q = q * W /\ q * W \in Nat
  <2>1. q * W \in Nat
    BY <1>2, Product
  <2>. QED BY <1>2, <2>1
<1>4. W * q \in Nat /\ W * q <= k /\ k < W * q + W
  BY <1>2, <1>3
<1>. QED BY <1>4 DEF q

\* The bounds of the vectorised loops stay in the block.
LEMMA EndOfVectors ==
  ASSUME NEW W \in Nat \ {0}, NEW n \in Nat
  PROVE  /\ EndBefore(0, W, n) \in 0 .. n /\ EndWithin(0, W, n) \in 0 .. n
         /\ EndBefore(W, W, n) \in Nat /\ W <= EndBefore(W, W, n)
<1>1. \A x \in Int : Max({0, x}) = IF x < 0 THEN 0 ELSE x
  <2> SUFFICES ASSUME NEW x \in Int PROVE Max({0, x}) = IF x < 0 THEN 0 ELSE x
    OBVIOUS
  <2>1. IsFiniteSet({0, x}) /\ {0, x} \in SUBSET Int /\ {0, x} # {}
    <3>1. IsFiniteSet({0}) /\ {0, x} = {0} \cup {x}
      BY FS_Singleton
    <3>2. IsFiniteSet({0} \cup {x})
      BY <3>1, FS_AddElement
    <3>. QED BY <3>1, <3>2
  <2>2. Max({0, x}) \in {0, x} /\ \A y \in {0, x} : Max({0, x}) >= y
    BY <2>1, MaxIsGreatest
  <2>. QED BY <2>2
<1>2. EndWithin(0, W, n) \in 0 .. n
  <2>1. EndWithin(0, W, n) = W * (n \div W)
    <3>1. n \div W \in Nat /\ n - 0 = n
      BY Division
    <3>2. W * (n \div W) \in Nat
      BY <3>1, Product
    <3>. QED BY <3>1, <3>2 DEF EndWithin
  <2>. QED BY <2>1, VectorStart
<1>3. EndBefore(0, W, n) \in 0 .. n
  <2> DEFINE m == IF n - W < 0 THEN 0 ELSE n - W
  <2>1. EndBefore(0, W, n) = W * CeilDiv(m, W)
    <3>1. Max({0, n - W}) = m /\ n - W - 0 = n - W /\ m \in Nat
      BY <1>1
    <3> HIDE DEF m
    <3>2. CeilDiv(m, W) \in Nat
      BY <3>1, CeilDivIs
    <3>3. W * CeilDiv(m, W) \in Nat
      BY <3>2, Product
    <3>. QED BY <3>1, <3>3 DEF EndBefore
  <2>2. CASE n < W
    <3>1. m = 0
      BY <2>2
    <3>2. CeilDiv(0, W) = 0
      <4>1. CeilDiv(0, W) \in Nat /\ CeilDiv(0, W) * W < 0 + W
        BY CeilDivIs
      <4> DEFINE q == CeilDiv(0, W)
      <4> HIDE DEF q
      <4>2. q \in Nat /\ q * W < W
        BY <4>1 DEF q
      <4>3. q # 0 => W <= q * W
        BY <4>2, MulMono
      <4>4. q * W \in Nat
        BY <4>2, Product
      <4>5. q = 0
        BY <4>2, <4>3, <4>4
      <4>. QED BY <4>5 DEF q
    <3>. QED BY <2>1, <3>1, <3>2
  <2>3. CASE ~(n < W)
    <3>1. m = n - W /\ m \in Nat
      BY <2>3
    <3>2. CeilDiv(m, W) = (n - 1) \div W
      BY <3>1 DEF CeilDiv
    <3>3. n - 1 \in Nat
      BY <2>3
    <3>4. W * ((n - 1) \div W) \in Nat /\ W * ((n - 1) \div W) <= n - 1
      BY <3>3, VectorStart
    <3>. QED BY <2>1, <3>2, <3>4
  <2>. QED BY <2>2, <2>3
<1>4. EndBefore(W, W, n) \in Nat /\ W <= EndBefore(W, W, n)
  <2> DEFINE m == Max({0, n - W - W})
  <2>1. m \in Nat
    BY <1>1
  <2> HIDE DEF m
  <2>2. CeilDiv(m, W) \in Nat
    BY <2>1, CeilDivIs
  <2>3. W * CeilDiv(m, W) \in Nat
    BY <2>2, Product
  <2>4. EndBefore(W, W, n) = W + W * CeilDiv(m, W)
    BY DEF EndBefore, m
  <2>. QED BY <2>3, <2>4
<1>. QED BY <1>2, <1>3, <1>4

\* Each word is subtracted from an earlier one, or stored as it is.
LEMMA SubtractsFromEarlier ==
  ASSUME NEW c, c.isa \in InstructionSets, c.lanes \in Nat \ {0}, NEW n \in Nat
  PROVE  \A j \in 1 .. n : Lanes(c, n).pred[j] \in 0 .. j - 1
<1> DEFINE W == c.lanes
<1>0. W \in Nat \ {0}
  OBVIOUS
<1>1. /\ c.isa = "sse42"    => Lanes(c, n) = DeltaCodecSSE42(W, n)
      /\ c.isa = "avx2"     => Lanes(c, n) = DeltaCodecAVX2(W, n)
      /\ c.isa = "avx512"   => Lanes(c, n) = DeltaCodecAVX512(W, n)
      /\ c.isa = "sse42u16" => Lanes(c, n) = DeltaCodecSSE42U16(W, n)
  BY DEF Lanes
<1> HIDE DEF W
<1> SUFFICES ASSUME NEW j \in 1 .. n PROVE Lanes(c, n).pred[j] \in 0 .. j - 1
  OBVIOUS
<1>2. j # 1 => 1 + W * ((j - 2) \div W) \in 0 .. j - 1
  <2> SUFFICES ASSUME j # 1 PROVE 1 + W * ((j - 2) \div W) \in 0 .. j - 1
    OBVIOUS
  <2>1. j - 2 \in Nat
    OBVIOUS
  <2>2. W * ((j - 2) \div W) \in Nat /\ W * ((j - 2) \div W) <= j - 2
    BY <1>0, <2>1, VectorStart
  <2>. QED BY <2>2
<1>3. LastOfPrevious(W, j) \in 0 .. j - 1 /\ (j > W => LastOfPrevious(W, j) \in 1 .. j - 1)
  <2>1. j - 1 \in Nat
    OBVIOUS
  <2>2. W * ((j - 1) \div W) \in Nat /\ W * ((j - 1) \div W) <= j - 1
        /\ j - 1 < W * ((j - 1) \div W) + W
    BY <1>0, <2>1, VectorStart
  <2>. QED BY <1>0, <2>2 DEF LastOfPrevious
<1>4. CASE c.isa = "sse42"
  <2> DEFINE end == EndBefore(1, W, n)
  <2>1. Lanes(c, n).pred[j] = IF j = 1 THEN 0 ELSE IF j <= end THEN 1 + W * ((j - 2) \div W) ELSE j - 1
    BY <1>1, <1>4 DEF DeltaCodecSSE42
  <2> HIDE DEF end
  <2>. QED BY <1>2, <2>1
<1>5. CASE c.isa = "sse42u16"
  <2> DEFINE end == EndWithin(1, W, n)
  <2>1. Lanes(c, n).pred[j] = IF j = 1 THEN 0 ELSE IF j <= end THEN 1 + W * ((j - 2) \div W) ELSE j - 1
    BY <1>1, <1>5 DEF DeltaCodecSSE42U16
  <2> HIDE DEF end
  <2>. QED BY <1>2, <2>1
<1>6. CASE c.isa = "avx2"
  <2> DEFINE end == EndBefore(W, W, n)
  <2>1. Lanes(c, n).pred[j] = IF j <= W THEN 0 ELSE IF j > end THEN j - 1
                              ELSE IF j <= 2 * W THEN j - W ELSE LastOfPrevious(W, j) - (j % 2)
    BY <1>1, <1>6 DEF DeltaCodecAVX2
  <2> HIDE DEF end
  <2>2. j % 2 \in 0 .. 1
    OBVIOUS
  <2>. QED BY <1>0, <1>3, <2>1, <2>2
<1>7. CASE c.isa = "avx512"
  <2> DEFINE head == IF n < W THEN 0 ELSE W
             end == IF n < W THEN 0 ELSE EndBefore(W, W, n)
  <2>1. Lanes(c, n).pred[j] = IF j <= head THEN 0 ELSE IF j > end THEN j - 1
                              ELSE IF j <= 2 * W THEN j - W ELSE LastOfPrevious(W, j)
    BY <1>1, <1>7 DEF DeltaCodecAVX512
  <2>2. (head = 0 /\ end = 0) \/ head = W
    OBVIOUS
  <2> HIDE DEF head, end
  <2>. QED BY <1>0, <1>3, <2>1, <2>2
<1>. QED BY <1>4, <1>5, <1>6, <1>7 DEF InstructionSets

\* Of a code without the sign bit, both shifts make the same.
LEMMA ShiftsAgree ==
  ASSUME NEW z \in Word, z < Half
  PROVE  ZigzagDecSigned(z) = ZigzagDec16(z)
<1>1. z \div 2 + 0 = z \div 2
  BY DEF Word
<1>. QED BY <1>1 DEF ZigzagDecSigned, ZigzagDec16

\* The word that b[j] is subtracted from.
Base(pred, b, j) == IF pred[j] = 0 THEN 0 ELSE b[pred[j]]

\* What a vectorised delta codec writes, and that it restores the block.
LEMMA VectorDeltaDecodes ==
  ASSUME NEW c, c.kind = "vdelta", c.isa \in InstructionSets, c.lanes \in Nat \ {0},
         NEW s \in States, NEW b \in Seq(Word), VectorAccepts(c, b)
  PROVE  /\ VectorDeltaCode(c, b) \in Seq(Word)
         /\ Len(VectorDeltaCode(c, b)) = Len(b)
         /\ s.data = VectorDeltaCode(c, b) => VectorDeltaGet(c, s, Len(b)) = b
<1> DEFINE n == Len(b)
           pred == Lanes(c, n).pred
           shifted == Lanes(c, n).shifted
           e == VectorDeltaCode(c, b)
<1>0. n \in Nat /\ DOMAIN b = 1 .. n /\ \A j \in 1 .. n : b[j] \in Word
  OBVIOUS
<1>1. CASE Copied(c, n)
  <2>1. e = b
    BY <1>1 DEF VectorDeltaCode
  <2>2. SubSeq(b, 1, n) = b
    OBVIOUS
  <2>3. VectorDeltaGet(c, s, n) = SubSeq(s.data, 1, n)
    BY <1>1 DEF VectorDeltaGet
  <2>. QED BY <2>1, <2>2, <2>3
<1>2. CASE ~Copied(c, n)
  <2>1. e = [j \in 1 .. n |-> ZigzagEnc16(Minus(b[j], Base(pred, b, j)))]
    BY <1>0, <1>2 DEF VectorDeltaCode, Base
  <2>2. \A j \in shifted : e[j] < Half
    BY <1>2 DEF VectorAccepts
  <2>3. \A j \in 1 .. n : pred[j] \in 0 .. j - 1
    BY <1>0, SubtractsFromEarlier
  <2> HIDE DEF pred, shifted, e
  <2>4. \A j \in 1 .. n : Base(pred, b, j) \in Word
    <3> SUFFICES ASSUME NEW j \in 1 .. n PROVE Base(pred, b, j) \in Word
      OBVIOUS
    <3>1. pred[j] \in 0 .. j - 1
      BY <2>3
    <3>2. 0 \in Word
      BY HalfAssumption DEF Word, WordSize
    <3>3. pred[j] # 0 => pred[j] \in 1 .. n
      BY <1>0, <3>1
    <3>. QED BY <1>0, <3>2, <3>3 DEF Base
  <2>5. \A j \in 1 .. n : ZigzagEnc16(Minus(b[j], Base(pred, b, j))) \in Word
    <3>1. \A x \in Word, p \in Word : Minus(x, p) \in Word
      BY WordsClosed
    <3>2. \A x \in Word : ZigzagEnc16(x) \in Word
      BY WordsClosed
    <3>. QED BY ONLY <1>0, <2>4, <3>1, <3>2, Zenon
  <2>6. e \in Seq(Word) /\ Len(e) = n /\ \A j \in 1 .. n : e[j] \in Word
    BY <1>0, <2>1, <2>5
  <2>7. ASSUME s.data = e PROVE VectorDeltaGet(c, s, n) = b
    <3> DEFINE d(j) == IF j \in shifted THEN ZigzagDecSigned(e[j]) ELSE ZigzagDec16(e[j])
               P(f) == f = [j \in 1 .. n |-> Plus(d(j), IF pred[j] = 0 THEN 0 ELSE f[pred[j]])]
    <3>1. VectorDeltaGet(c, s, n) = CHOOSE f : P(f)
      BY <1>2, <2>7 DEF VectorDeltaGet, pred, shifted
    <3>2. \A j \in 1 .. n : d(j) = ZigzagDec16(e[j]) /\ d(j) \in Word
      <4> SUFFICES ASSUME NEW j \in 1 .. n PROVE d(j) = ZigzagDec16(e[j]) /\ d(j) \in Word
        OBVIOUS
      <4>1. e[j] \in Word
        BY <2>6
      <4>2. j \in shifted => ZigzagDecSigned(e[j]) = ZigzagDec16(e[j])
        BY <2>2, <4>1, ShiftsAgree
      <4>3. ZigzagDec16(e[j]) \in Word
        BY <4>1, WordsClosed
      <4>. QED BY <4>2, <4>3
    <3> HIDE DEF d
    <3>3. \A j \in 1 .. n : Plus(d(j), Base(pred, b, j)) = b[j]
      <4> SUFFICES ASSUME NEW j \in 1 .. n PROVE Plus(d(j), Base(pred, b, j)) = b[j]
        OBVIOUS
      <4> DEFINE p == Base(pred, b, j)
                 x == b[j]
      <4>1. p \in Word /\ x \in Word /\ d(j) = ZigzagDec16(ZigzagEnc16(Minus(x, p))) /\ d(j) \in Word
        BY <1>0, <2>1, <2>4, <3>2
      <4> HIDE DEF p, x
      <4>2. Plus(p, ZigzagDec16(ZigzagEnc16(Minus(x, p)))) = x
        BY <4>1, ResidualRecovered
      <4>3. Plus(p, d(j)) = x
        BY <4>1, <4>2
      <4>4. Plus(d(j), p) = Plus(p, d(j))
        <5>1. d(j) \in Int /\ p \in Int
          BY <4>1 DEF Word
        <5>. QED BY <5>1 DEF Plus
      <4>. QED BY <4>3, <4>4 DEF p, x
    <3>4. P(b)
      <4>1. b = [j \in 1 .. n |-> b[j]]
        BY <1>0
      <4>2. \A j \in 1 .. n : b[j] = Plus(d(j), IF pred[j] = 0 THEN 0 ELSE b[pred[j]])
        BY <3>3 DEF Base
      <4> HIDE DEF n
      <4>. QED BY ONLY <4>1, <4>2, Zenon
    <3>5. ASSUME NEW f, P(f) PROVE f = b
      <4>1. f = [j \in 1 .. n |-> Plus(d(j), IF pred[j] = 0 THEN 0 ELSE f[pred[j]])]
        BY <3>5
      <4> HIDE DEF P
      <4>2. f = [j \in 1 .. n |-> f[j]]
        BY ONLY <4>1
      <4>3. \A j \in 1 .. n : f[j] = Plus(d(j), IF pred[j] = 0 THEN 0 ELSE f[pred[j]])
        BY ONLY <4>1
      <4>4. \A j \in 1 .. n : b[j] = Plus(d(j), IF pred[j] = 0 THEN 0 ELSE b[pred[j]])
        BY <3>3 DEF Base
      <4> HIDE DEF n
      <4>5. AgreeNext(1, n, f, b)
        <5> SUFFICES ASSUME NEW j \in 1 .. n, \A k \in 1 .. j - 1 : f[k] = b[k] PROVE f[j] = b[j]
          BY DEF AgreeNext
        <5>1. pred[j] # 0 => pred[j] \in 1 .. j - 1
          BY <1>0, <2>3
        <5>2. pred[j] # 0 => f[pred[j]] = b[pred[j]]
          BY <5>1
        <5>. QED BY ONLY <4>3, <4>4, <5>2, Zenon
      <4>6. \A j \in 1 .. n : f[j] = b[j]
        <5>1. 1 \in Nat /\ n \in Int
          BY <1>0
        <5> HIDE DEF AgreeNext
        <5>. QED BY <4>5, <5>1, AgreeUpwards
      <4>7. b = [j \in 1 .. n |-> b[j]]
        BY <1>0
      <4>. QED BY ONLY <4>2, <4>6, <4>7
    <3> HIDE DEF P
    <3>6. (CHOOSE f : P(f)) = b
      BY <3>4, <3>5
    <3>. QED BY <3>1, <3>6
  <2>. QED BY <2>6, <2>7 DEF e
<1>. QED BY <1>0, <1>1, <1>2

----------------------------------------------------------------------------
(* The reference of a block is a word, whatever it is. *)
LEMMA LeastOfFinite ==
  ASSUME NEW T \in SUBSET Int, IsFiniteSet(T), T # {}
  PROVE  Min(T) \in Int
BY MinIsLeast

\* The reference is a word whatever lanes its loop compares.
LEMMA ReferenceIsWord ==
  ASSUME NEW v, NEW m \in Nat, Len(v) = m, \A j \in 1 .. m : v[j] \in Int,
         NEW W \in Nat \ {0}, NEW end \in 0 .. m, NEW largest \in Int
  PROVE  Reference(v, W, end, largest) \in Word
<1> DEFINE Lane(j) == {v[k0] : k0 \in {k \in 1 .. end : k % W = j}}
           least(j) == Min({largest} \cup Lane(j))
           A == {least(j) : j \in 0 .. W - 1}
           B == {v[k0] : k0 \in end + 1 .. Len(v)}
<1>1. Reference(v, W, end, largest) = Min(A \cup B) % WordSize
  BY DEF Reference
<1>2. ASSUME NEW j \in 0 .. W - 1 PROVE least(j) \in Int
  <2> DEFINE D == {k \in 1 .. end : k % W = j}
  <2>1. IsFiniteSet(D)
    <3>1. 1 \in Int /\ end \in Int
      OBVIOUS
    <3>2. IsFiniteSet(1 .. end) /\ D \subseteq 1 .. end
      BY <3>1, FS_Interval
    <3>. QED BY <3>2, FS_Subset
  <2>2. D \subseteq 1 .. m
    OBVIOUS
  <2>3. Lane(j) = {v[k0] : k0 \in D}
    OBVIOUS
  <2> HIDE DEF D
  <2>4. IsFiniteSet({v[k0] : k0 \in D})
    BY <2>1, FiniteImage
  <2>5. {v[k0] : k0 \in D} \in SUBSET Int
    BY <2>2
  <2> DEFINE L == {v[k0] : k0 \in D}
  <2> HIDE DEF L
  <2>6. IsFiniteSet(L \cup {largest})
    BY <2>4, FS_AddElement DEF L
  <2>7. {largest} \cup L = L \cup {largest} /\ L \cup {largest} \in SUBSET Int /\ L \cup {largest} # {}
    BY <2>5 DEF L
  <2>8. Min(L \cup {largest}) \in Int
    BY <2>6, <2>7, LeastOfFinite
  <2>. QED BY <2>3, <2>7, <2>8 DEF L
<1> HIDE DEF least
<1>3. IsFiniteSet(A) /\ A \in SUBSET Int /\ A # {}
  <2> DEFINE f == [j \in 0 .. W - 1 |-> least(j)]
  <2>1. 0 \in Int /\ W - 1 \in Int
    OBVIOUS
  <2>2. IsFiniteSet(0 .. W - 1)
    BY <2>1, FS_Interval
  <2>3. IsFiniteSet({f[j] : j \in 0 .. W - 1})
    <3> HIDE DEF f
    <3>. QED BY <2>2, FiniteImage
  <2>4. A = {f[j] : j \in 0 .. W - 1}
    OBVIOUS
  <2>5. 0 \in 0 .. W - 1
    OBVIOUS
  <2>6. A \in SUBSET Int
    BY <1>2
  <2>7. A # {}
    BY <2>5
  <2>. QED BY <2>3, <2>4, <2>6, <2>7
<1>4. IsFiniteSet(B) /\ B \in SUBSET Int
  <2>1. end + 1 \in Int /\ m \in Int
    OBVIOUS
  <2>2. IsFiniteSet(end + 1 .. m)
    BY <2>1, FS_Interval
  <2>3. IsFiniteSet({v[j] : j \in end + 1 .. m})
    BY <2>2, FiniteImage
  <2>. QED BY <2>3
<1> HIDE DEF A, B
<1>5. IsFiniteSet(A \cup B)
  BY <1>3, <1>4, FS_Union
<1>6. A \cup B \in SUBSET Int /\ A \cup B # {}
  BY <1>3, <1>4
<1>7. Min(A \cup B) \in Int
  BY <1>5, <1>6, LeastOfFinite
<1>8. \A x \in Int : x % WordSize \in Word
  BY HalfAssumption DEF Word, WordSize
<1>. QED BY <1>1, <1>7, <1>8

\* Words read as signed are integers, position by position.
LEMMA SignedIsInt ==
  ASSUME NEW b \in Seq(Word)
  PROVE  /\ Len(SignedWords(b)) = Len(b)
         /\ \A j \in 1 .. Len(b) : SignedWords(b)[j] \in Int
<1>1. DOMAIN b = 1 .. Len(b) /\ Len(b) \in Nat /\ \A j \in 1 .. Len(b) : b[j] \in Word
  OBVIOUS
<1>2. \A w \in Word : Signed(w) \in Int
  BY HalfAssumption DEF Signed, Word, WordSize
<1>3. SignedWords(b) = [j \in 1 .. Len(b) |-> Signed(b[j])]
  BY <1>1 DEF SignedWords
<1>4. \A j \in 1 .. Len(b) : Signed(b[j]) \in Int
  BY <1>1, <1>2
<1>. QED BY <1>1, <1>3, <1>4

\* A reference in front, and what is left of each word.
RestPlain(b, r)  == [j \in 1 .. Len(b) |-> Minus(b[j], r)]
\* The words relative to a reference, zigzagged.
RestZigzag(b, r) == [j \in 1 .. Len(b) |-> ZigzagEnc16(Minus(b[j], r))]

\* What a vectorised frame of reference stores after the reference r.
LEMMA ReferenceAndRest ==
  ASSUME NEW b \in Seq(Word), NEW r \in Word
  PROVE  /\ <<r>> \o RestPlain(b, r) \in Seq(Word)
         /\ Len(<<r>> \o RestPlain(b, r)) = Len(b) + 1
         /\ (<<r>> \o RestPlain(b, r))[1] = r
         /\ \A j \in 1 .. Len(b) : (<<r>> \o RestPlain(b, r))[j + 1] = Minus(b[j], r)
         /\ <<r>> \o RestZigzag(b, r) \in Seq(Word)
         /\ Len(<<r>> \o RestZigzag(b, r)) = Len(b) + 1
         /\ (<<r>> \o RestZigzag(b, r))[1] = r
         /\ \A j \in 1 .. Len(b) : (<<r>> \o RestZigzag(b, r))[j + 1] = ZigzagEnc16(Minus(b[j], r))
<1> DEFINE n == Len(b)
<1>0. n \in Nat /\ \A j \in 1 .. n : b[j] \in Word
  OBVIOUS
<1>1. ASSUME NEW t \in Seq(Word), Len(t) = n
      PROVE  /\ <<r>> \o t \in Seq(Word) /\ Len(<<r>> \o t) = n + 1
             /\ (<<r>> \o t)[1] = r /\ \A j \in 1 .. n : (<<r>> \o t)[j + 1] = t[j]
  <2> HIDE DEF n
  <2>. QED BY <1>0, <1>1
<1>2. \A j \in 1 .. n : Minus(b[j], r) \in Word /\ ZigzagEnc16(Minus(b[j], r)) \in Word
  <2>1. \A x \in Word, p \in Word : Minus(x, p) \in Word
    BY WordsClosed
  <2>2. \A x \in Word : ZigzagEnc16(x) \in Word
    BY WordsClosed
  <2>. QED BY ONLY <1>0, <2>1, <2>2, r \in Word, Zenon
<1>3. /\ RestPlain(b, r) \in Seq(Word) /\ Len(RestPlain(b, r)) = n
      /\ \A j \in 1 .. n : RestPlain(b, r)[j] = Minus(b[j], r)
  BY <1>0, <1>2 DEF RestPlain
<1>4. /\ RestZigzag(b, r) \in Seq(Word) /\ Len(RestZigzag(b, r)) = n
      /\ \A j \in 1 .. n : RestZigzag(b, r)[j] = ZigzagEnc16(Minus(b[j], r))
  BY <1>0, <1>2 DEF RestZigzag
<1> DEFINE p == RestPlain(b, r)
           z == RestZigzag(b, r)
<1> HIDE DEF p, z
<1>5. /\ <<r>> \o p \in Seq(Word) /\ Len(<<r>> \o p) = n + 1
      /\ (<<r>> \o p)[1] = r /\ \A j \in 1 .. n : (<<r>> \o p)[j + 1] = p[j]
  BY <1>1, <1>3 DEF p
<1>6. /\ <<r>> \o z \in Seq(Word) /\ Len(<<r>> \o z) = n + 1
      /\ (<<r>> \o z)[1] = r /\ \A j \in 1 .. n : (<<r>> \o z)[j + 1] = z[j]
  BY <1>1, <1>4 DEF z
<1>7. \A j \in 1 .. n : (<<r>> \o p)[j + 1] = Minus(b[j], r)
  BY ONLY <1>3, <1>5, Zenon DEF p
<1>8. \A j \in 1 .. n : (<<r>> \o z)[j + 1] = ZigzagEnc16(Minus(b[j], r))
  BY ONLY <1>4, <1>6, Zenon DEF z
<1>. QED BY ONLY <1>5, <1>6, <1>7, <1>8, Zenon DEF p, z, n

\* The reference that a vectorised frame-of-reference codec finds.
FoundReference(c, b) ==
  CASE c.isa = "sse42"    -> Reference(SignedWords(b), c.lanes, EndBefore(0, c.lanes, Len(b)), Half - 1)
    [] c.isa = "avx2"     -> Reference(SignedWords(b), c.lanes, EndWithin(0, c.lanes, Len(b)), Half - 1)
    [] c.isa = "avx512"   -> Reference(SignedWords(b), c.lanes, EndWithin(0, c.lanes, Len(b)), Half - 1)
    [] c.isa = "sse42u16" -> Reference(b, c.lanes, EndWithin(0, c.lanes, Len(b)), WordSize - 1)

\* Every instruction set stores some reference, then the rest relative to it.
LEMMA VectorFORCodes ==
  ASSUME NEW c, c.isa \in InstructionSets, c.lanes \in Nat \ {0}, NEW b \in Seq(Word)
  PROVE  \E r \in Word : VectorFORCode(c, b) = IF c.isa = "sse42u16" THEN <<r>> \o RestPlain(b, r)
                                               ELSE <<r>> \o RestZigzag(b, r)
<1> DEFINE W == c.lanes
           n == Len(b)
<1>0. W \in Nat \ {0} /\ n \in Nat /\ DOMAIN b = 1 .. n /\ \A j \in 1 .. n : b[j] \in Int
  <2>1. \A j \in 1 .. Len(b) : b[j] \in Word
    OBVIOUS
  <2>. QED BY <2>1 DEF Word
<1>1. /\ EndBefore(0, W, n) \in 0 .. n /\ EndWithin(0, W, n) \in 0 .. n
      /\ Half - 1 \in Int /\ WordSize - 1 \in Int
  <2>1. Half - 1 \in Int /\ WordSize - 1 \in Int
    BY HalfAssumption DEF WordSize
  <2> HIDE DEF W, n
  <2>. QED BY <1>0, <2>1, EndOfVectors
<1> DEFINE sw == SignedWords(b)
<1>a. Len(sw) = n /\ \A j \in 1 .. n : sw[j] \in Int
  BY SignedIsInt
<1> HIDE DEF W, sw
<1>2. ASSUME NEW end \in 0 .. n PROVE Reference(sw, W, end, Half - 1) \in Word
  <2> HIDE DEF n
  <2>. QED BY <1>0, <1>1, <1>a, ReferenceIsWord
<1>3. ASSUME NEW end \in 0 .. n PROVE Reference(b, W, end, WordSize - 1) \in Word
  <2>1. Len(b) = n
    OBVIOUS
  <2> HIDE DEF n
  <2>. QED BY <1>0, <1>1, <2>1, ReferenceIsWord
<1>4. CASE c.isa = "sse42"
  <2> DEFINE r == Reference(sw, W, EndBefore(0, W, n), Half - 1)
  <2>1. VectorFORCode(c, b) = <<r>> \o RestZigzag(b, r)
    BY <1>0, <1>4 DEF VectorFORCode, FORCodecSSE42, ZigzagFrom, RestZigzag, W, sw
  <2>2. r \in Word
    BY <1>1, <1>2
  <2>. QED BY <1>4, <2>1, <2>2
<1>5. CASE c.isa = "avx2"
  <2> DEFINE r == Reference(sw, W, EndWithin(0, W, n), Half - 1)
  <2>1. VectorFORCode(c, b) = <<r>> \o RestZigzag(b, r)
    BY <1>0, <1>5 DEF VectorFORCode, FORCodecAVX2, ZigzagFrom, RestZigzag, W, sw
  <2>2. r \in Word
    BY <1>1, <1>2
  <2>. QED BY <1>5, <2>1, <2>2
<1>6. CASE c.isa = "avx512"
  <2> DEFINE r == Reference(sw, W, EndWithin(0, W, n), Half - 1)
  <2>1. VectorFORCode(c, b) = <<r>> \o RestZigzag(b, r)
    BY <1>0, <1>6 DEF VectorFORCode, FORCodecAVX512, ZigzagFrom, RestZigzag, W, sw
  <2>2. r \in Word
    BY <1>1, <1>2
  <2>. QED BY <1>6, <2>1, <2>2
<1>7. CASE c.isa = "sse42u16"
  <2> DEFINE r == Reference(b, W, EndWithin(0, W, n), WordSize - 1)
  <2>1. VectorFORCode(c, b) = <<r>> \o RestPlain(b, r)
    BY <1>0, <1>7 DEF VectorFORCode, FORCodecSSE42U16, RestPlain, W
  <2>2. r \in Word
    BY <1>1, <1>3
  <2>. QED BY <1>7, <2>1, <2>2
<1>. QED BY <1>4, <1>5, <1>6, <1>7 DEF InstructionSets

\* What a vectorised frame-of-reference codec writes, and that it restores the block.
LEMMA VectorFORDecodes ==
  ASSUME NEW c, c.kind = "vfor", c.isa \in InstructionSets, c.lanes \in Nat \ {0},
         NEW s \in States, NEW b \in Seq(Word), VectorAccepts(c, b)
  PROVE  /\ VectorFORCode(c, b) \in Seq(Word)
         /\ Len(VectorFORCode(c, b)) = Len(b) + 1
         /\ s.data = VectorFORCode(c, b) => VectorFORGet(c, s, Len(b)) = b
<1> DEFINE n == Len(b)
           e == VectorFORCode(c, b)
<1>0. n \in Nat /\ DOMAIN b = 1 .. n /\ \A j \in 1 .. n : b[j] \in Word
  OBVIOUS
<1>1. PICK r \in Word : e = IF c.isa = "sse42u16" THEN <<r>> \o RestPlain(b, r)
                            ELSE <<r>> \o RestZigzag(b, r)
  BY VectorFORCodes
<1>2. c.isa # "sse42u16" => \A j \in 1 .. n : e[j + 1] < Half
  BY <1>0 DEF VectorAccepts
<1> HIDE DEF e
<1>3. /\ e \in Seq(Word) /\ Len(e) = n + 1 /\ e[1] = r
      /\ \A j \in 1 .. n : e[j + 1] = IF c.isa = "sse42u16" THEN Minus(b[j], r)
                                      ELSE ZigzagEnc16(Minus(b[j], r))
  BY ONLY <1>1, ReferenceAndRest, b \in Seq(Word), Zenon
<1>4. \A j \in 1 .. n :
        b[j] = Plus(e[1], IF c.isa = "sse42u16" THEN e[j + 1] ELSE ZigzagDecSigned(e[j + 1]))
  <2> SUFFICES ASSUME NEW j \in 1 .. n
               PROVE  b[j] = Plus(e[1], IF c.isa = "sse42u16" THEN e[j + 1]
                                        ELSE ZigzagDecSigned(e[j + 1]))
    OBVIOUS
  <2> DEFINE x == b[j]
  <2>1. x \in Word
    BY <1>0
  <2> HIDE DEF x
  <2>2. Plus(r, Minus(x, r)) = x /\ Plus(r, ZigzagDec16(ZigzagEnc16(Minus(x, r)))) = x
    BY <2>1, ResidualRecovered
  <2>3. CASE c.isa = "sse42u16"
    <3>1. e[j + 1] = Minus(x, r)
      BY <1>3, <2>3 DEF x
    <3>. QED BY <1>3, <2>2, <2>3, <3>1 DEF x
  <2>4. CASE c.isa # "sse42u16"
    <3> DEFINE z == ZigzagEnc16(Minus(x, r))
    <3>1. e[j + 1] = z /\ z < Half
      BY <1>2, <1>3, <2>4 DEF x
    <3>2. z \in Word
      BY <2>1, WordsClosed
    <3> HIDE DEF z
    <3>3. ZigzagDecSigned(z) = ZigzagDec16(z)
      BY <3>1, <3>2, ShiftsAgree
    <3>4. Plus(r, ZigzagDecSigned(z)) = x
      BY <2>2, <3>3 DEF z
    <3>. QED BY <1>3, <2>4, <3>1, <3>4 DEF x
  <2>. QED BY <2>3, <2>4
<1>5. ASSUME s.data = e PROVE VectorFORGet(c, s, n) = b
  <2>1. VectorFORGet(c, s, n) =
          [j \in 1 .. n |-> Plus(e[1], IF c.isa = "sse42u16" THEN e[j + 1]
                                       ELSE ZigzagDecSigned(e[j + 1]))]
    BY <1>5 DEF VectorFORGet
  <2>2. b = [j \in 1 .. n |-> b[j]]
    BY <1>0
  <2> HIDE DEF n
  <2>. QED BY ONLY <1>4, <2>1, <2>2, Zenon
<1>. QED BY <1>3, <1>5 DEF e

----------------------------------------------------------------------------
(* Run lengths, of the scalar and of the vectorised codecs *)

\* The scalar run lengths, put over any state, give the block back.
LEMMA RLEDecodes ==
  ASSUME NEW s \in States, NEW b \in Seq(Word), NEW n
  PROVE  /\ RLEPut(s, b).data = RLEPairs(b)
         /\ RLEGet(RLEPut(s, b), n) = b
<1>1. RLEPut(s, b).data = RLEPairs(b)
  BY DEF RLEPut, States
<1> DEFINE e == RLEPut(s, b)
<1>2. RLEGet(e, n) = FlattenSeq(Expand(e.data, 1))
  BY DEF RLEGet, Expand
<1>3. FlattenSeq(Expand(RLEPairs(b), 1)) = b
  BY RLEPairsAre
<1> HIDE DEF e
<1>. QED BY <1>1, <1>2, <1>3 DEF e

\* The words in front of the pairs of a vectorised codec are empty runs.
LEMMA EmptyRuns ==
  ASSUME NEW q \in Nat
  PROVE  /\ Even(Repeated(0, 2 * q)) /\ Len(Repeated(0, 2 * q)) = 2 * q
         /\ FlattenSeq(Expand(Repeated(0, 2 * q), 0)) = <<>>
<1> DEFINE m == 2 * q
           z == Repeated(0, m)
<1>1. m \in Nat /\ 0 \in Word
  BY HalfAssumption DEF Word, WordSize
<1>2. z \in Seq(Word) /\ Len(z) = m /\ \A k \in 1 .. m : z[k] = 0
  <2> HIDE DEF m
  <2>. QED BY <1>1 DEF Repeated
<1>3. Even(z)
  BY <1>2 DEF Even
<1>4. Expand(z, 0) \in [1 .. q -> {<<>>}]
  <2>1. Len(z) \div 2 = q
    BY <1>2
  <2>2. \A k \in 1 .. q : z[2 * k] = 0 /\ z[2 * k - 1] = 0
    BY <1>2
  <2> HIDE DEF z
  <2>3. Expand(z, 0) = [k \in 1 .. q |-> [j \in 1 .. 0 |-> 0]]
    BY <2>1, <2>2 DEF Expand
  <2>4. [j \in 1 .. 0 |-> 0] = <<>>
    OBVIOUS
  <2>. QED BY <2>3, <2>4
<1>5. FlattenSeq(Expand(z, 0)) = <<>>
  <2> HIDE DEF z
  <2>. QED BY <1>4, FlattenEmpty
<1>. QED BY <1>2, <1>3, <1>5

\* A vector is cut back to zeros when it is empty or already begins with them.
LEMMA ZerosInFront ==
  ASSUME NEW m \in Nat, NEW v \in Seq(Word), NEW t \in Seq(Word),
         v = <<>> \/ v = Repeated(0, m) \o t
  PROVE  Resize(v, m) = Repeated(0, m)
<1>1. 0 \in Word
  BY HalfAssumption DEF Word, WordSize
<1>2. CASE v = <<>>
  BY <1>2 DEF Resize, Repeated
<1>3. CASE v = Repeated(0, m) \o t
  <2> DEFINE z == Repeated(0, m)
             l == Len(t)
  <2>1. z \in Seq(Word) /\ Len(z) = m /\ (\A k \in 1 .. m : z[k] = 0) /\ l \in Nat
    BY <1>1 DEF Repeated
  <2>a. t \in Seq(Word) /\ Len(t) = l /\ v = z \o t /\ m \in Nat
    BY <1>3
  <2> HIDE DEF z, l
  <2>2. Len(v) = m + l
    <3>0. z \in Seq(Word) /\ t \in Seq(Word)
      BY <2>1
    <3>1. Len(z \o t) = Len(z) + Len(t)
      BY ONLY <3>0
    <3>. QED BY ONLY <2>1, <2>a, <3>1, Zenon
  <2>3. \A k \in 1 .. m : v[k] = z[k]
    BY ONLY <2>1, <2>a
  <2>4. \A k \in 1 .. m : k <= Len(v) /\ v[k] = 0
    BY <2>1, <2>2, <2>3
  <2>5. Resize(v, m) = [k \in 1 .. m |-> 0]
    BY ONLY <2>4 DEF Resize
  <2>. QED BY <2>5 DEF Repeated
<1>. QED BY <1>2, <1>3

\* What a vectorised run length codec appends to such a vector, and that it
\* stands for the block.
InFront(c, n) == 2 * (n \div c.lanes + 1)

\* The vectorised code is the pairs, behind the words that Resize put in front.
LEMMA VectorRLECodes ==
  ASSUME NEW c, c.isa \in InstructionSets, c.lanes \in Nat \ {0}, NEW v, NEW b \in Seq(Word),
         Resize(v, InFront(c, Len(b))) = Repeated(0, InFront(c, Len(b)))
  PROVE  VectorRLECode(c, v, b) = Repeated(0, InFront(c, Len(b))) \o VectorPairs(b, c.lanes)
<1>1. VectorRLECode(c, v, b) = RLEAppended(v, c.lanes, b)
  BY DEF VectorRLECode, InstructionSets, RLECodecSSE42, RLECodecAVX2, RLECodecAVX512, RLECodecSSE42U16
<1>. QED BY <1>1 DEF RLEAppended, InFront

\* Behind whatever number of words in front, the pairs give the block back.
LEMMA VectorRLEDecodes ==
  ASSUME NEW c, c.lanes \in Nat \ {0}, NEW s, NEW b \in Seq(Word), ShortRuns(b, c.lanes),
         s.data = Repeated(0, InFront(c, Len(b))) \o VectorPairs(b, c.lanes)
  PROVE  /\ s.data \in Seq(Word) /\ VectorPairs(b, c.lanes) \in Seq(Word)
         /\ Len(s.data) <= InFront(c, Len(b)) + 2 * Len(b)
         /\ InFront(c, Len(b)) \in Nat
         /\ VectorRLEGet(s) = b
<1> DEFINE q == Len(b) \div c.lanes + 1
           m == 2 * q
           z == Repeated(0, m)
           p == VectorPairs(b, c.lanes)
<1>1. q \in Nat /\ InFront(c, Len(b)) = m
  <2>1. Len(b) \div c.lanes \in Nat
    <3>1. Len(b) \in Nat
      OBVIOUS
    <3>. QED BY <3>1, Division
  <2>. QED BY <2>1 DEF InFront
<1> HIDE DEF q
<1>2. Even(z) /\ Len(z) = m /\ FlattenSeq(Expand(z, 0)) = <<>>
  BY <1>1, EmptyRuns
<1>3. Even(p) /\ Len(p) <= 2 * Len(b) /\ FlattenSeq(Expand(p, 0)) = b
  BY VectorPairsAre
<1> HIDE DEF p, z
<1>4. Even(z \o p) /\ Len(z \o p) = Len(z) + Len(p)
  BY <1>2, <1>3, EvenConcat
<1>5. FlattenSeq(Expand(z \o p, 0)) = FlattenSeq(Expand(z, 0)) \o FlattenSeq(Expand(p, 0))
  <2>1. 0 \in Nat
    OBVIOUS
  <2>. QED BY <1>2, <1>3, <2>1, ExpandConcat
<1>6. s.data = z \o p
  BY <1>1 DEF z, p
<1>7. VectorRLEGet(s) = FlattenSeq(Expand(s.data, 0))
  <2> DEFINE d == s.data
  <2>1. Even(d)
    BY <1>4, <1>6
  <2>2. PICK r \in Nat : Len(d) = 2 * r
    BY <2>1 DEF Even
  <2>3. \A k \in 1 .. Len(d) \div 2 : d[2 * k] + 0 = d[2 * k]
    <3>1. \A k \in 1 .. Len(d) \div 2 : 2 * k \in 1 .. Len(d)
      BY <2>2
    <3>2. \A k \in 1 .. Len(d) : d[k] \in Int
      <4>1. \A k \in 1 .. Len(d) : d[k] \in Word
        BY <2>1 DEF Even
      <4>. QED BY <4>1 DEF Word
    <3>3. \A x \in Int : x + 0 = x
      OBVIOUS
    <3>. QED BY ONLY <3>1, <3>2, <3>3, Zenon
  <2>4. Expand(d, 0) = [k \in 1 .. Len(d) \div 2 |-> [j \in 1 .. d[2 * k] |-> d[2 * k - 1]]]
    BY <2>3 DEF Expand
  <2>. QED BY <2>4 DEF VectorRLEGet
<1>8. <<>> \o b = b
  OBVIOUS
<1>9. Len(s.data) = m + Len(p) /\ Len(p) \in Nat /\ m \in Nat
  <2>1. Len(p) \in Nat /\ m \in Nat
    BY <1>1, <1>3 DEF Even
  <2>. QED BY <1>2, <1>4, <1>6, <2>1
<1>10. Len(s.data) <= InFront(c, Len(b)) + 2 * Len(b)
  <2>1. Len(b) \in Nat
    OBVIOUS
  <2>. QED BY ONLY <1>1, <1>3, <1>9, <2>1
<1>11. s.data \in Seq(Word) /\ p \in Seq(Word)
  BY <1>3, <1>4, <1>6 DEF Even
<1>12. VectorRLEGet(s) = b
  BY ONLY <1>2, <1>3, <1>5, <1>6, <1>7, <1>8, Zenon
<1>. QED BY <1>1, <1>9, <1>10, <1>11, <1>12 DEF p

----------------------------------------------------------------------------
(* One object of each class *)

\* The codecs that keep a side vector.
KeptApart(c) == c.kind \in {"for", "hier"} /\ c.sep

\* What a code of b has to be: words, within the room provided, that decode to b.
CodeOf(c, e, b) ==
  /\ e \in States
  /\ ~KeptApart(c) => e.meta = <<>>
  /\ Len(e.data) <= Room(c, Len(b)).data
  /\ Len(e.meta) <= Room(c, Len(b)).meta
  /\ Get(c, e, Len(b)) = b

\* A put that leaves the side vector alone sets the words only.
LEMMA OnlyData ==
  ASSUME NEW s \in States, s.meta = <<>>, NEW x
  PROVE  /\ [s EXCEPT !.data = x] = [data |-> x, meta |-> <<>>]
         /\ [Fresh EXCEPT !.data = x] = [data |-> x, meta |-> <<>>]
BY DEF States, Fresh

\* A new object holds nothing.
LEMMA FreshIsState == Fresh \in States /\ Fresh.meta = <<>> /\ Fresh.data = <<>>
BY DEF Fresh, States

\* A state that is made of words only.
LEMMA DataIsState ==
  ASSUME NEW x \in Seq(Word), NEW n \in Nat, Len(x) <= n
  PROVE  LET e == [data |-> x, meta |-> <<>>]
         IN  e \in States /\ e.meta = <<>> /\ e.data = x /\ Len(e.data) <= n /\ Len(e.meta) <= 0
<1> DEFINE y == <<>>
<1>1. y \in Seq(Word) /\ Len(y) <= 0
  OBVIOUS
<1> HIDE DEF y
<1>2. LET e == [data |-> x, meta |-> y]
      IN  e \in States /\ e.meta = y /\ e.data = x /\ Len(e.data) <= n /\ Len(e.meta) <= 0
  BY <1>1 DEF States
<1>. QED BY <1>2 DEF y

\* The delta codec codes as a new object does, whatever it held.
LEMMA DeltaCodes ==
  ASSUME NEW c, c.kind = "delta", NEW s \in States, s.meta = <<>>, NEW b \in Seq(Word)
  PROVE  Put(c, s, b) = Put(c, Fresh, b) /\ CodeOf(c, Put(c, s, b), b)
<1> DEFINE x == ZigzagTail(Differences(b))
           e == [data |-> x, meta |-> <<>>]
<1>1. Put(c, s, b) = e /\ Put(c, Fresh, b) = e
  BY OnlyData DEF Put, DeltaPut
<1>2. x \in Seq(Word) /\ Len(x) = Len(b) /\ Len(b) \in Nat
  BY DifferencesAreWords
<1>3. PrefixSums(x, Len(b), ZigzagDec16) = b
  BY DeltaDecodes
<1>4. Room(c, Len(b)) = [data |-> Len(b), meta |-> 0] /\ ~KeptApart(c)
  BY DEF Room, KeptApart
<1> HIDE DEF x
<1>5. e \in States /\ e.meta = <<>> /\ e.data = x /\ Len(e.data) <= Len(b) /\ Len(e.meta) <= 0
  BY <1>2, DataIsState
<1>6. Get(c, e, Len(b)) = b
  BY <1>3, <1>5 DEF Get, DeltaGet
<1> HIDE DEF e
<1>. QED BY <1>1, <1>4, <1>5, <1>6 DEF CodeOf

\* The double delta codec codes as a new object does.
LEMMA DoubleDeltaCodes ==
  ASSUME NEW c, c.kind = "double", NEW s \in States, s.meta = <<>>, NEW b \in Seq(Word)
  PROVE  Put(c, s, b) = Put(c, Fresh, b) /\ CodeOf(c, Put(c, s, b), b)
<1> DEFINE x == ZigzagTail(Differences(Differences(b)))
           e == [data |-> x, meta |-> <<>>]
<1>1. Put(c, s, b) = e /\ Put(c, Fresh, b) = e
  BY OnlyData DEF Put, DoubleDeltaPut
<1>2. x \in Seq(Word) /\ Len(x) = Len(b) /\ Len(b) \in Nat
  <2>1. Differences(b) \in Seq(Word) /\ Len(Differences(b)) = Len(b) /\ Len(b) \in Nat
    BY DifferencesAreWords
  <2> DEFINE d == Differences(b)
  <2> HIDE DEF d
  <2>2. d \in Seq(Word) => Differences(d) \in Seq(Word) /\ Len(Differences(d)) = Len(d)
    BY DifferencesAreWords
  <2> DEFINE f == Differences(d)
  <2> HIDE DEF f
  <2>3. f \in Seq(Word) => ZigzagTail(f) \in Seq(Word) /\ Len(ZigzagTail(f)) = Len(f)
    BY DifferencesAreWords
  <2>. QED BY <2>1, <2>2, <2>3 DEF d, f
<1>3. PrefixSums(PrefixSums(x, Len(b), ZigzagDec16), Len(b), Plain) = b
  BY DoubleDeltaDecodes
<1>4. Room(c, Len(b)) = [data |-> Len(b), meta |-> 0] /\ ~KeptApart(c)
  BY DEF Room, KeptApart
<1> HIDE DEF x
<1>5. e \in States /\ e.meta = <<>> /\ e.data = x /\ Len(e.data) <= Len(b) /\ Len(e.meta) <= 0
  BY <1>2, DataIsState
<1>6. Get(c, e, Len(b)) = b
  BY <1>3, <1>5 DEF Get, DoubleDeltaGet
<1> HIDE DEF e
<1>. QED BY <1>1, <1>4, <1>5, <1>6 DEF CodeOf

\* The run-length codecs code as a new object does.
LEMMA RunLengthCodes ==
  ASSUME NEW c, c.kind \in {"rle", "rle8"}, NEW s \in States, s.meta = <<>>, NEW b \in Seq(Word)
  PROVE  Put(c, s, b) = Put(c, Fresh, b) /\ CodeOf(c, Put(c, s, b), b)
<1> DEFINE x == RLEPairs(b)
           e == [data |-> x, meta |-> <<>>]
<1>1. Put(c, s, b) = e /\ Put(c, Fresh, b) = e
  BY OnlyData DEF Put, RLEPut, RLECodecU8Put
<1>2. x \in Seq(Word) /\ Len(x) <= 2 * Len(b) /\ 2 * Len(b) \in Nat
  BY RLEPairsAre DEF Even
<1>3. RLEGet(RLEPut(Fresh, b), Len(b)) = b /\ RLEPut(Fresh, b) = e
  BY FreshIsState, OnlyData, RLEDecodes DEF RLEPut
<1>4. Room(c, Len(b)) = [data |-> 2 * Len(b), meta |-> 0] /\ ~KeptApart(c)
  BY DEF Room, KeptApart
<1> HIDE DEF x
<1>5. e \in States /\ e.meta = <<>> /\ e.data = x /\ Len(e.data) <= 2 * Len(b) /\ Len(e.meta) <= 0
  BY <1>2, DataIsState
<1> HIDE DEF e
<1>6. Get(c, e, Len(b)) = b
  BY <1>3, <1>5 DEF Get, RLECodecU8Get
<1>. QED BY <1>1, <1>4, <1>5, <1>6 DEF CodeOf

\* The predictive codecs code as a new object does.
LEMMA PredictiveCodes ==
  ASSUME NEW c, c.kind = "predict", c.predictor \in Predictors, NEW s \in States, s.meta = <<>>,
         NEW b \in Seq(Word), b # <<>>
  PROVE  Put(c, s, b) = Put(c, Fresh, b) /\ CodeOf(c, Put(c, s, b), b)
<1> DEFINE n == Len(b)
           p == c.predictor
           v == [k \in 0 .. n - 1 |-> b[k + 1]]
           x == [k \in DOMAIN b |->
                  ZigzagEnc16(Minus(b[k], Predict(p, GetNeighbors(v, k - 1, BlockStride(n)))))]
           e == [data |-> x, meta |-> <<>>]
<1>0. /\ n \in Nat \ {0} /\ DOMAIN b = 1 .. n /\ \A k \in 1 .. n : b[k] \in Word
      /\ p \in Predictors
  OBVIOUS
<1>1. Put(c, s, b) = e /\ Put(c, Fresh, b) = e
  BY OnlyData DEF Put, PredictPut
<1>2. x \in Seq(Word) /\ Len(x) = n
  <2> DEFINE y(k) == ZigzagEnc16(Minus(b[k], Predict(p, GetNeighbors(v, k - 1, BlockStride(n)))))
  <2>1. ASSUME NEW k \in 1 .. n PROVE y(k) \in Word
    <3>1. v \in [0 .. n - 1 -> Word] /\ k - 1 \in 0 .. n - 1
      BY <1>0
    <3>2. BlockStride(n) \in Nat \ {0}
      <4>1. BlockStride(n) \in 1 .. n
        BY <1>0, StrideIsPositive
      <4>. QED BY <1>0, <4>1
    <3> HIDE DEF v, n, p
    <3>3. Predict(p, GetNeighbors(v, k - 1, BlockStride(n))) \in Word
      BY <1>0, <3>1, <3>2, PredictionsAreWords
    <3> DEFINE g == Predict(p, GetNeighbors(v, k - 1, BlockStride(n)))
    <3>4. g \in Word /\ b[k] \in Word
      BY <1>0, <3>3
    <3> HIDE DEF g
    <3>5. ZigzagEnc16(Minus(b[k], g)) \in Word
      BY <3>4, WordsClosed
    <3>. QED BY <3>5 DEF g
  <2>2. x = [k \in 1 .. n |-> y(k)]
    BY <1>0
  <2> HIDE DEF x, y, n
  <2>3. [k \in 1 .. n |-> y(k)] \in Seq(Word) /\ Len([k \in 1 .. n |-> y(k)]) = n
    BY <1>0, <2>1
  <2>. QED BY <2>2, <2>3
<1>3. PredictGet(p, PredictPut(p, s, b), n) = b /\ PredictPut(p, s, b) = e
  <2>1. s \in [data : Seq(Word), meta : Seq(Word)]
    BY DEF States
  <2>2. PredictPut(p, s, b) = e
    BY OnlyData DEF PredictPut
  <2>. QED BY <1>0, <2>1, <2>2, PredictDecodes
<1>4. Room(c, n) = [data |-> n, meta |-> 0] /\ ~KeptApart(c)
  BY DEF Room, KeptApart
<1> HIDE DEF x
<1>5. e \in States /\ e.meta = <<>> /\ e.data = x /\ Len(e.data) <= n /\ Len(e.meta) <= 0
  BY <1>0, <1>2, DataIsState
<1> HIDE DEF e
<1>6. Get(c, e, n) = b
  BY <1>3, <1>5 DEF Get
<1>. QED BY <1>1, <1>4, <1>5, <1>6 DEF CodeOf

\* The frame-of-reference code and the lengths of its vectors.
FORLengthsAre(w, sep, s, b) ==
  LET v == EffectiveWindow(w, Len(b))
      e == FORPut(w, sep, s, b)
  IN  /\ e \in States
      /\ v \in Nat \ {0}
      /\ sep => Len(e.data) = Len(b) /\ Len(e.meta) = CeilDiv(Len(b), v)
      /\ ~sep => e.meta = s.meta /\ Len(e.data) = Len(b) + CeilDiv(Len(b), v)

\* The frame-of-reference code never exceeds what the object reserves.
LEMMA FORLengths ==
  ASSUME NEW w \in Nat, NEW sep \in BOOLEAN, NEW s \in States, NEW b \in Seq(Word), b # <<>>
  PROVE  FORLengthsAre(w, sep, s, b)
BY FORCodes DEF FORLengthsAre

\* The frame-of-reference codec codes as a new object does.
LEMMA FORCodesAre ==
  ASSUME NEW c, c.kind = "for", c.w \in Nat, c.sep \in BOOLEAN,
         NEW s \in States, ~c.sep => s.meta = <<>>, NEW b \in Seq(Word), b # <<>>
  PROVE  Put(c, s, b) = Put(c, Fresh, b) /\ CodeOf(c, Put(c, s, b), b)
<1> DEFINE w == c.w
           sep == c.sep
           v == EffectiveWindow(w, Len(b))
           e == FORPut(w, sep, s, b)
           f == FORPut(w, sep, Fresh, b)
<1>1. w \in Nat /\ sep \in BOOLEAN /\ Put(c, s, b) = e /\ Put(c, Fresh, b) = f
  BY DEF Put
<1>2. e = f
  <2>1. CASE sep
    BY <2>1 DEF FORPut
  <2>2. CASE ~sep
    BY <2>2, OnlyData DEF FORPut
  <2>. QED BY <1>1, <2>1, <2>2
<1>3. /\ e \in States
      /\ v \in Nat \ {0}
      /\ sep => Len(e.data) = Len(b) /\ Len(e.meta) = CeilDiv(Len(b), v)
      /\ ~sep => e.meta = s.meta /\ Len(e.data) = Len(b) + CeilDiv(Len(b), v)
  <2> HIDE DEF w, sep
  <2>1. w \in Nat /\ sep \in BOOLEAN
    BY <1>1
  <2>2. FORLengthsAre(w, sep, s, b)
    BY ONLY <2>1, s \in States, b \in Seq(Word), b # <<>>, FORLengths, Zenon
  <2>. QED BY ONLY <2>2, Zenon DEF FORLengthsAre
<1>4. FORGet(w, sep, e, Len(b)) = b
  <2> HIDE DEF w, sep
  <2>. QED BY <1>1, FORDecodes
<1>5. Get(c, e, Len(b)) = b
  BY <1>4 DEF Get
<1>6. /\ Len(b) \in Nat /\ CeilDiv(Len(b), v) \in Nat
      /\ FORAlloc(c, Len(b)) = CeilDiv(Len(b), v)
  <2>1. Len(b) \in Nat
    OBVIOUS
  <2>. QED BY <1>3, <2>1, CeilDivIs DEF FORAlloc
<1> HIDE DEF v
<1>7. Room(c, Len(b)) = IF sep THEN [data |-> Len(b), meta |-> CeilDiv(Len(b), v)]
                                ELSE [data |-> Len(b) + CeilDiv(Len(b), v), meta |-> 0]
  BY <1>6 DEF Room
<1>8. (~KeptApart(c) <=> ~sep) /\ (~sep => s.meta = <<>> /\ Len(<<>>) = 0)
  BY DEF KeptApart
<1> HIDE DEF e, f
<1>9. Len(e.data) <= Room(c, Len(b)).data /\ Len(e.meta) <= Room(c, Len(b)).meta
  <2>1. CASE sep
    BY <1>3, <1>6, <1>7, <2>1
  <2>2. CASE ~sep
    BY <1>3, <1>6, <1>7, <1>8, <2>2
  <2>. QED BY <1>1, <2>1, <2>2
<1>. QED BY <1>1, <1>2, <1>3, <1>5, <1>8, <1>9 DEF CodeOf

\* The vectorised delta codecs code as new objects do.
LEMMA VectorDeltaCodesAre ==
  ASSUME NEW c, c.kind = "vdelta", c.isa \in InstructionSets, c.lanes \in Nat \ {0},
         NEW s \in States, s.meta = <<>>, NEW b \in Seq(Word), VectorAccepts(c, b)
  PROVE  Put(c, s, b) = Put(c, Fresh, b) /\ CodeOf(c, Put(c, s, b), b)
<1> DEFINE x == VectorDeltaCode(c, b)
           e == [data |-> x, meta |-> <<>>]
<1>1. Put(c, s, b) = e /\ Put(c, Fresh, b) = e
  BY OnlyData DEF Put
<1>2. /\ x \in Seq(Word) /\ Len(x) = Len(b)
      /\ \A t \in States : t.data = x => VectorDeltaGet(c, t, Len(b)) = b
  BY VectorDeltaDecodes
<1>3. Len(b) \in Nat
  OBVIOUS
<1>4. Room(c, Len(b)) = [data |-> Len(b), meta |-> 0] /\ ~KeptApart(c)
  BY DEF Room, KeptApart
<1> HIDE DEF x
<1>5. e \in States /\ e.meta = <<>> /\ e.data = x /\ Len(e.data) <= Len(b) /\ Len(e.meta) <= 0
  BY <1>2, <1>3, DataIsState
<1>6. Get(c, e, Len(b)) = b
  <2>1. VectorDeltaGet(c, e, Len(b)) = b
    BY <1>2, <1>5
  <2>. QED BY <2>1 DEF Get
<1> HIDE DEF e
<1>. QED BY <1>1, <1>4, <1>5, <1>6 DEF CodeOf

\* The vectorised frame-of-reference codecs code as new objects do.
LEMMA VectorFORCodesAre ==
  ASSUME NEW c, c.kind = "vfor", c.isa \in InstructionSets, c.lanes \in Nat \ {0},
         NEW s \in States, s.meta = <<>>, NEW b \in Seq(Word), VectorAccepts(c, b)
  PROVE  Put(c, s, b) = Put(c, Fresh, b) /\ CodeOf(c, Put(c, s, b), b)
<1> DEFINE x == VectorFORCode(c, b)
           e == [data |-> x, meta |-> <<>>]
<1>1. Put(c, s, b) = e /\ Put(c, Fresh, b) = e
  BY OnlyData DEF Put
<1>2. /\ x \in Seq(Word) /\ Len(x) = Len(b) + 1
      /\ \A t \in States : t.data = x => VectorFORGet(c, t, Len(b)) = b
  BY VectorFORDecodes
<1>3. Len(b) \in Nat /\ Len(b) + 1 \in Nat
  OBVIOUS
<1>4. Room(c, Len(b)) = [data |-> Len(b) + 1, meta |-> 0] /\ ~KeptApart(c)
  BY DEF Room, KeptApart
<1> HIDE DEF x
<1>5. e \in States /\ e.meta = <<>> /\ e.data = x /\ Len(e.data) <= Len(b) + 1 /\ Len(e.meta) <= 0
  BY <1>2, <1>3, DataIsState
<1>6. Get(c, e, Len(b)) = b
  <2>1. VectorFORGet(c, e, Len(b)) = b
    BY <1>2, <1>5
  <2>. QED BY <2>1 DEF Get
<1> HIDE DEF e
<1>. QED BY <1>1, <1>4, <1>5, <1>6 DEF CodeOf

\* Run lengths accumulate: the object has to be empty, or hold the code of a
\* block of the same length.
LEMMA VectorRLECodesAre ==
  ASSUME NEW c, c.kind = "vrle", c.isa \in InstructionSets, c.lanes \in Nat \ {0},
         NEW s \in States, s.meta = <<>>, NEW b \in Seq(Word), VectorAccepts(c, b),
         NEW a \in Seq(Word), VectorAccepts(c, a), Len(a) = Len(b),
         s.data = <<>> \/ s = Put(c, Fresh, a)
  PROVE  Put(c, s, b) = Put(c, Fresh, b) /\ CodeOf(c, Put(c, s, b), b)
<1> DEFINE n == Len(b)
           m == InFront(c, n)
           z == Repeated(0, m)
<1>1. ASSUME NEW u \in Seq(Word), VectorAccepts(c, u) PROVE ShortRuns(u, c.lanes)
  <2>1. \A k \in DOMAIN u : VectorRun(u, k, c.lanes) < WordSize
    <3> SUFFICES ASSUME NEW k \in DOMAIN u PROVE VectorRun(u, k, c.lanes) < WordSize
      OBVIOUS
    <3>1. VectorRun(u, k, c.lanes) < (IF c.isa = "sse42u16" THEN WordSize ELSE Half)
      BY <1>1 DEF VectorAccepts
    <3>2. VectorRun(u, k, c.lanes) \in Int /\ Half \in Nat /\ WordSize = 2 * Half
      <4>1. k \in 1 .. Len(u) /\ Len(u) \in Nat
        OBVIOUS
      <4>2. VectorRun(u, k, c.lanes) \in 1 .. Len(u) + 1 - k
        BY <4>1, VectorRunIs
      <4>. QED BY <4>2, HalfAssumption DEF WordSize
    <3>. QED BY <3>1, <3>2
  <2>. QED BY <2>1 DEF ShortRuns
<1>2. n \in Nat /\ m \in Nat
  <2>1. n \in Nat
    OBVIOUS
  <2>2. n \div c.lanes \in Nat
    BY <2>1, Division
  <2>. QED BY <2>1, <2>2 DEF InFront
<1>3. /\ Put(c, s, b) = [data |-> VectorRLECode(c, s.data, b), meta |-> <<>>]
      /\ \A u : Put(c, Fresh, u) = [data |-> VectorRLECode(c, <<>>, u), meta |-> <<>>]
  BY OnlyData, FreshIsState DEF Put
<1>4. Resize(<<>>, m) = z
  <2> DEFINE nil == <<>>
  <2>1. nil \in Seq(Word) /\ nil = <<>>
    OBVIOUS
  <2> HIDE DEF nil, m
  <2>2. Resize(nil, m) = Repeated(0, m)
    BY <1>2, <2>1, ZerosInFront
  <2>. QED BY <2>1, <2>2
<1>5. \A u \in Seq(Word) : Len(u) = n => VectorRLECode(c, <<>>, u) = z \o VectorPairs(u, c.lanes)
  <2> SUFFICES ASSUME NEW u \in Seq(Word), Len(u) = n
               PROVE  VectorRLECode(c, <<>>, u) = z \o VectorPairs(u, c.lanes)
    OBVIOUS
  <2> DEFINE v == <<>>
  <2>1. Resize(v, InFront(c, Len(u))) = Repeated(0, InFront(c, Len(u)))
    BY <1>4
  <2> HIDE DEF v
  <2>2. VectorRLECode(c, v, u) = Repeated(0, InFront(c, Len(u))) \o VectorPairs(u, c.lanes)
    BY <2>1, VectorRLECodes
  <2>. QED BY <2>2 DEF v
<1>6. VectorPairs(a, c.lanes) \in Seq(Word) /\ VectorPairs(b, c.lanes) \in Seq(Word)
  <2>1. Even(VectorPairs(a, c.lanes)) /\ Even(VectorPairs(b, c.lanes))
    BY <1>1, VectorPairsAre
  <2>. QED BY <2>1 DEF Even
<1>7. s.data = <<>> \/ s.data = z \o VectorPairs(a, c.lanes)
  BY <1>3, <1>5
<1>8. Resize(s.data, m) = z
  <2>1. s.data \in Seq(Word)
    BY DEF States
  <2> HIDE DEF m
  <2>. QED BY <1>2, <1>6, <1>7, <2>1, ZerosInFront
<1>9. VectorRLECode(c, s.data, b) = z \o VectorPairs(b, c.lanes)
  <2> DEFINE v == s.data
  <2>1. Resize(v, InFront(c, Len(b))) = Repeated(0, InFront(c, Len(b)))
    BY <1>8
  <2> HIDE DEF v
  <2>2. VectorRLECode(c, v, b) = Repeated(0, InFront(c, Len(b))) \o VectorPairs(b, c.lanes)
    BY <2>1, VectorRLECodes
  <2>. QED BY <2>2 DEF v
<1> DEFINE x == z \o VectorPairs(b, c.lanes)
           e == [data |-> x, meta |-> <<>>]
<1>10. Put(c, s, b) = e /\ Put(c, Fresh, b) = e
  BY <1>3, <1>5, <1>9
<1>11. e.data = Repeated(0, InFront(c, Len(b))) \o VectorPairs(b, c.lanes)
  OBVIOUS
<1> HIDE DEF e
<1>12. /\ e.data \in Seq(Word)
       /\ Len(e.data) <= InFront(c, Len(b)) + 2 * Len(b)
       /\ VectorRLEGet(e) = b
  BY <1>1, <1>11, VectorRLEDecodes
<1>13. Room(c, n) = [data |-> m + 2 * n, meta |-> 0] /\ ~KeptApart(c)
  BY DEF Room, KeptApart, InFront
<1>14. m + 2 * n \in Nat
  BY <1>2
<1>15. x \in Seq(Word) /\ Len(x) <= m + 2 * n
  BY <1>12 DEF e
<1> HIDE DEF x, m, n
<1>16. e \in States /\ e.meta = <<>> /\ e.data = x /\ Len(e.data) <= m + 2 * n /\ Len(e.meta) <= 0
  BY <1>14, <1>15, DataIsState DEF e
<1>17. Get(c, e, n) = b
  BY <1>12 DEF Get
<1>. QED BY <1>10, <1>13, <1>16, <1>17 DEF CodeOf, n

----------------------------------------------------------------------------
(* Powers of two, and the bits of a number *)

\* The power of two of n, as the number of subsets of n elements.
LEMMA PowerIsCardinality ==
  ASSUME NEW n \in Nat
  PROVE  2 ^ n \in Nat /\ IsFiniteSet(SUBSET (1 .. n)) /\ Cardinality(SUBSET (1 .. n)) = 2 ^ n
<1>1. 1 \in Int /\ n \in Int
  OBVIOUS
<1>2. IsFiniteSet(1 .. n) /\ Cardinality(1 .. n) = IF 1 > n THEN 0 ELSE n - 1 + 1
  BY <1>1, FS_Interval
<1>3. Cardinality(1 .. n) = n
  BY <1>2
<1>4. IsFiniteSet(SUBSET (1 .. n)) /\ Cardinality(SUBSET (1 .. n)) = 2 ^ n
  BY <1>2, <1>3, FS_SUBSET
<1>. QED BY <1>4, FS_CardinalityType

\* A set of subsets and the same with one more element in each have as many
\* elements.
WithElement(S, x) == {U \cup {x} : U \in SUBSET S}

\* Half of the subsets of S with x added contain x.
LEMMA OneMoreElement ==
  ASSUME NEW S, NEW x, x \notin S, IsFiniteSet(SUBSET S)
  PROVE  /\ IsFiniteSet(WithElement(S, x)) /\ Cardinality(WithElement(S, x)) = Cardinality(SUBSET S)
         /\ SUBSET (S \cup {x}) = (SUBSET S) \cup WithElement(S, x)
         /\ (SUBSET S) \cap WithElement(S, x) = {}
<1> DEFINE A == SUBSET S
           B == {U \cup {x} : U \in SUBSET S}
           h == [U \in A |-> U \cup {x}]
<1>1. h \in Bijection(A, B)
  <2>1. h \in [A -> B]
    OBVIOUS
  <2>2. ASSUME NEW U \in A, NEW V \in A, h[U] = h[V] PROVE U = V
    <3>1. U \cup {x} = V \cup {x} /\ x \notin U /\ x \notin V
      BY <2>2
    <3>. QED BY <3>1
  <2>3. \A V \in B : \E U \in A : h[U] = V
    OBVIOUS
  <2> HIDE DEF A, B, h
  <2>4. h \in Injection(A, B)
    BY <2>1, <2>2 DEF Injection, IsInjective
  <2>5. h \in Surjection(A, B)
    BY <2>1, <2>3 DEF Surjection
  <2>. QED BY <2>4, <2>5 DEF Bijection
<1>2. IsFiniteSet(B) /\ Cardinality(B) = Cardinality(A)
  <2>1. ExistsBijection(A, B)
    BY <1>1 DEF ExistsBijection
  <2> HIDE DEF B
  <2>. QED BY <2>1, FS_Bijection
<1>3. SUBSET (S \cup {x}) = A \cup B
  <2>1. ASSUME NEW V \in SUBSET (S \cup {x}) PROVE V \in A \cup B
    <3>1. CASE x \in V
      <4>1. V \ {x} \in SUBSET S /\ V = (V \ {x}) \cup {x}
        BY <3>1
      <4>. QED BY <4>1
    <3>2. CASE x \notin V
      BY <3>2
    <3>. QED BY <3>1, <3>2
  <2>. QED BY <2>1
<1>4. A \cap B = {}
  OBVIOUS
<1>5. B = WithElement(S, x)
  BY DEF WithElement
<1>6. A = SUBSET S
  OBVIOUS
<1> HIDE DEF A, B
<1>7. IsFiniteSet(WithElement(S, x)) /\ Cardinality(WithElement(S, x)) = Cardinality(SUBSET S)
  BY ONLY <1>2, <1>5, <1>6, Zenon
<1>8. SUBSET (S \cup {x}) = (SUBSET S) \cup WithElement(S, x)
  BY ONLY <1>3, <1>5, <1>6
<1>9. (SUBSET S) \cap WithElement(S, x) = {}
  BY ONLY <1>4, <1>5, <1>6
<1>. QED BY <1>7, <1>8, <1>9

\* What is needed of powers of two.
LEMMA PowersOfTwo ==
  ASSUME NEW n \in Nat
  PROVE  /\ 2 ^ n \in Nat \ {0} /\ 2 ^ 0 = 1
         /\ 2 ^ (n + 1) = 2 * 2 ^ n
         /\ n < 2 ^ n
<1>1. \A k \in Nat : 2 ^ (k + 1) = 2 * 2 ^ k
  <2> SUFFICES ASSUME NEW k \in Nat PROVE 2 ^ (k + 1) = 2 * 2 ^ k
    OBVIOUS
  <2> DEFINE S == 1 .. k
             x == k + 1
             A == SUBSET S
             B == WithElement(S, x)
  <2>1. 2 ^ k \in Nat /\ IsFiniteSet(A) /\ Cardinality(A) = 2 ^ k
    BY PowerIsCardinality
  <2>2. k + 1 \in Nat
    OBVIOUS
  <2>3. Cardinality(SUBSET (1 .. k + 1)) = 2 ^ (k + 1)
    BY <2>2, PowerIsCardinality
  <2>4. 1 .. k + 1 = S \cup {x} /\ x \notin S
    OBVIOUS
  <2> HIDE DEF S, x
  <2>5. IsFiniteSet(B) /\ Cardinality(B) = Cardinality(A) /\ SUBSET (S \cup {x}) = A \cup B /\ A \cap B = {}
    BY <2>1, <2>4, OneMoreElement
  <2> HIDE DEF A, B
  <2>6. Cardinality(A \cup B) = Cardinality(A) + Cardinality(B) - Cardinality(A \cap B)
    BY <2>1, <2>5, FS_Union
  <2>7. Cardinality({}) = 0
    BY FS_EmptySet
  <2>8. SUBSET (1 .. k + 1) = A \cup B
    BY ONLY <2>4, <2>5, Zenon
  <2> DEFINE p == 2 ^ k
             q == 2 ^ (k + 1)
             a == Cardinality(A)
  <2>9. q = Cardinality(A \cup B) /\ a = p /\ Cardinality(B) = a /\ Cardinality(A \cap B) = 0
    BY ONLY <2>1, <2>3, <2>5, <2>7, <2>8, Zenon
  <2>10. q = p + p - 0 /\ p \in Nat
    BY ONLY <2>1, <2>6, <2>9, Zenon
  <2> HIDE DEF p, q
  <2>11. q = 2 * p
    BY ONLY <2>10
  <2>. QED BY <2>11 DEF p, q
<1>2. 2 ^ 0 = 1
  OBVIOUS
<1> DEFINE T == {k \in Nat : ~(k < 2 ^ k)}
<1>3. T = {}
  <2> SUFFICES ASSUME T # {} PROVE FALSE
    OBVIOUS
  <2>1. T \in SUBSET Nat /\ T # {}
    OBVIOUS
  <2>2. PICK k \in T : \A j \in T : k <= j
    BY ONLY <2>1, LeastNatural
  <2>3. k \in Nat /\ k # 0 /\ k - 1 \in Nat /\ ~(k <= k - 1) /\ (k - 1) + 1 = k
    <3>1. k \in Nat /\ k # 0
      <4>1. ~(0 \in T)
        BY <1>2
      <4>2. k \in T /\ k \in Nat
        BY <2>2
      <4> HIDE DEF T
      <4>. QED BY ONLY <4>1, <4>2, Zenon
    <3>. QED BY ONLY <3>1
  <2>4. k - 1 < 2 ^ (k - 1)
    BY <2>2, <2>3
  <2>5. 2 ^ k = 2 * 2 ^ (k - 1)
    BY <1>1, <2>3
  <2>6. 2 ^ (k - 1) \in Nat
    BY <2>3, PowerIsCardinality
  <2> DEFINE p == 2 ^ (k - 1)
  <2> HIDE DEF p
  <2>7. k < 2 * p
    BY <2>3, <2>4, <2>6 DEF p
  <2>. QED BY <2>2, <2>5, <2>7 DEF p
<1>4. n < 2 ^ n
  BY <1>3
<1>5. 2 ^ n \in Nat
  BY PowerIsCardinality
<1>. QED BY <1>1, <1>2, <1>4, <1>5

\* Bit q of x.
BitOf(x, q) == (x \div 2 ^ q) % 2

\* One more bit of a remainder.
LEMMA SplitRemainder ==
  ASSUME NEW x \in Nat, NEW p \in Nat \ {0}
  PROVE  x % (2 * p) = (x % p) + ((x \div p) % 2) * p
<1> DEFINE k == x \div p
           r == x % p
           h == k \div 2
           t == k % 2
<1>1. k \in Nat /\ r \in 0 .. p - 1 /\ x = k * p + r
  BY Division
<1>2. h \in Nat /\ t \in 0 .. 1 /\ k = h * 2 + t
  <2> HIDE DEF k
  <2>. QED BY <1>1
<1> HIDE DEF k, r, h, t
<1>3. x = (h * 2 + t) * p + r
  BY <1>1, <1>2
<1>4. t = 0 \/ t = 1
  BY <1>2
<1>5. t * p + r \in 0 .. 2 * p - 1 /\ 2 * p \in Nat \ {0}
  <2>1. CASE t = 0
    BY <1>1, <2>1
  <2>2. CASE t = 1
    BY <1>1, <2>2
  <2>. QED BY <1>4, <2>1, <2>2
<1>6. x = (2 * p) * h + (t * p + r)
  BY <1>1, <1>2, <1>3
<1> DEFINE w == 2 * p
           v == t * p + r
<1>7. w \in Nat \ {0} /\ v \in 0 .. w - 1 /\ h \in Int /\ x = w * h + v
  BY <1>2, <1>5, <1>6
<1>8. t * p + r = r + t * p
  BY <1>1, <1>2, <1>4
<1> HIDE DEF w, v
<1>9. (w * h + v) % w = v
  BY <1>7, QuotientUnique
<1>10. x % w = v
  BY <1>7, <1>9
<1>. QED BY <1>8, <1>10 DEF w, v, t, k, r

\* One more summand.
LEMMA SumUpTo ==
  ASSUME NEW n \in Nat, NEW g, \A q \in 0 .. n - 1 : g[q] \in Int, NEW m \in 0 .. n - 1
  PROVE  /\ SumFunctionOnSet(g, 0 .. m) = g[m] + SumFunctionOnSet(g, 0 .. m - 1)
         /\ SumFunctionOnSet(g, 0 .. m - 1) \in Int /\ g[m] \in Int
<1>1. 0 \in Int /\ m \in Int /\ m - 1 \in Int
  OBVIOUS
<1>2. IsFiniteSet(0 .. m) /\ IsFiniteSet(0 .. m - 1)
  BY <1>1, FS_Interval
<1>3. (\A q \in 0 .. m : g[q] \in Int) /\ (\A q \in 0 .. m - 1 : g[q] \in Int) /\ m \in 0 .. m
  OBVIOUS
<1>4. (0 .. m) \ {m} = 0 .. m - 1
  OBVIOUS
<1>5. SumFunctionOnSet(g, 0 .. m) = g[m] + SumFunctionOnSet(g, (0 .. m) \ {m})
  BY <1>2, <1>3, SumRemove
<1>6. SumFunctionOnSet(g, 0 .. m - 1) \in Int
  BY <1>2, <1>3, SumType
<1>. QED BY <1>3, <1>4, <1>5, <1>6

\* A number is the sum of its bits.
Binary(g, x, n) == \A q \in 0 .. n - 1 : g[q] = BitOf(x, q) * 2 ^ q

\* The bits of x, weighted, sum to the remainder of x.
LEMMA SumOfBits ==
  ASSUME NEW n \in Nat, NEW x \in Nat, NEW g, Binary(g, x, n)
  PROVE  SumFunctionOnSet(g, 0 .. n - 1) = x % 2 ^ n
<1> DEFINE S(m) == SumFunctionOnSet(g, 0 .. m - 1)
           T == {m \in Nat : m <= n /\ S(m) # x % 2 ^ m}
<1>1. \A q \in 0 .. n - 1 : g[q] \in Int
  <2> SUFFICES ASSUME NEW q \in 0 .. n - 1 PROVE g[q] \in Int
    OBVIOUS
  <2>1. q \in Nat /\ g[q] = BitOf(x, q) * 2 ^ q
    BY DEF Binary
  <2>2. 2 ^ q \in Nat \ {0}
    BY <2>1, PowersOfTwo
  <2> DEFINE p == 2 ^ q
  <2> HIDE DEF p
  <2>3. x \div p \in Nat
    BY <2>2, Division DEF p
  <2>4. (x \div p) % 2 \in Nat
    BY <2>3
  <2> DEFINE z == (x \div p) % 2
  <2>5. z \in Nat /\ p \in Nat
    BY <2>2, <2>4 DEF p
  <2> HIDE DEF z
  <2>6. z * p \in Nat
    BY <2>5, Product
  <2>. QED BY <2>1, <2>6 DEF p, z, BitOf
<1>2. S(0) = 0 /\ x % 2 ^ 0 = 0
  <2>1. 0 .. 0 - 1 = {}
    OBVIOUS
  <2>2. S(0) = 0
    BY <2>1, SumEmpty
  <2>3. 2 ^ 0 = 1 /\ x % 1 = 0
    OBVIOUS
  <2>. QED BY <2>2, <2>3
<1>3. ASSUME NEW m \in 0 .. n - 1, S(m) = x % 2 ^ m PROVE S(m + 1) = x % 2 ^ (m + 1)
  <2>1. m \in Nat /\ (m + 1) - 1 = m /\ g[m] = BitOf(x, m) * 2 ^ m
    BY DEF Binary
  <2>2. 2 ^ m \in Nat \ {0} /\ 2 ^ (m + 1) = 2 * 2 ^ m
    BY <2>1, PowersOfTwo
  <2>3. SumFunctionOnSet(g, 0 .. m) = g[m] + SumFunctionOnSet(g, 0 .. m - 1) /\ g[m] \in Int
    BY <1>1, SumUpTo
  <2> DEFINE p == 2 ^ m
             a == SumFunctionOnSet(g, 0 .. m)
             d == SumFunctionOnSet(g, 0 .. m - 1)
             z == ((x \div p) % 2) * p
  <2>4. x % (2 * p) = (x % p) + z
    BY <2>2, SplitRemainder
  <2>5. a = g[m] + d /\ d = x % p /\ g[m] = z /\ g[m] \in Int /\ p \in Nat \ {0}
    BY <1>3, <2>1, <2>2, <2>3 DEF BitOf
  <2>6. x % p \in Int
    BY <2>5, Division
  <2> HIDE DEF a, d, z, p
  <2>7. a = x % (2 * p)
    BY <2>4, <2>5, <2>6
  <2>. QED BY <2>1, <2>2, <2>7 DEF a, p
<1>4. T = {}
  <2> SUFFICES ASSUME T # {} PROVE FALSE
    OBVIOUS
  <2>1. T \in SUBSET Nat /\ T # {}
    OBVIOUS
  <2> HIDE DEF S
  <2>2. PICK m \in T : \A j \in T : m <= j
    BY ONLY <2>1, LeastNatural
  <2>3. m \in Nat /\ m <= n /\ S(m) # x % 2 ^ m
    BY <2>2
  <2>4. m # 0
    BY <1>2, <2>3
  <2>5. m - 1 \in 0 .. n - 1 /\ (m - 1) + 1 = m /\ ~(m <= m - 1) /\ m - 1 \in Nat /\ m - 1 <= n
    BY <2>3, <2>4
  <2>6. S(m - 1) = x % 2 ^ (m - 1)
    BY <2>2, <2>5
  <2>. QED BY <1>3, <2>3, <2>5, <2>6
<1>5. n \notin T
  BY <1>4
<1> HIDE DEF S
<1>6. S(n) = x % 2 ^ n
  BY <1>5
<1>. QED BY <1>6 DEF S

\* The bits of a sum of weighted bits are these.
BitValues(g, f, n) == \A q \in 0 .. n - 1 : f[q] \in {0, 1} /\ g[q] = f[q] * 2 ^ q

\* A weighted sum of bits has these bits.
LEMMA BitsOfSum ==
  ASSUME NEW n \in Nat, NEW f, NEW g, BitValues(g, f, n)
  PROVE  /\ SumFunctionOnSet(g, 0 .. n - 1) \in 0 .. 2 ^ n - 1
         /\ \A m \in 0 .. n - 1 : BitOf(SumFunctionOnSet(g, 0 .. n - 1), m) = f[m]
<1> DEFINE S(m) == SumFunctionOnSet(g, 0 .. m - 1)
           X == S(n)
           Small(m) == S(m) \in 0 .. 2 ^ m - 1
           Rest(m) == \E r \in Nat : X = S(m) + 2 ^ m * r
<1>1. \A q \in 0 .. n - 1 : g[q] \in Int
  <2> SUFFICES ASSUME NEW q \in 0 .. n - 1 PROVE g[q] \in Int
    OBVIOUS
  <2>1. q \in Nat /\ g[q] = f[q] * 2 ^ q /\ f[q] \in {0, 1}
    BY DEF BitValues
  <2>2. 2 ^ q \in Nat \ {0}
    BY <2>1, PowersOfTwo
  <2> DEFINE p == 2 ^ q
             z == f[q]
  <2>3. z \in {0, 1} /\ p \in Nat /\ g[q] = z * p
    BY <2>1, <2>2
  <2> HIDE DEF z, p
  <2>. QED BY <2>3
<1>2. S(0) = 0
  <2>1. 0 .. 0 - 1 = {}
    OBVIOUS
  <2>. QED BY <2>1, SumEmpty
<1>3. ASSUME NEW m \in 0 .. n - 1
      PROVE  /\ m \in Nat /\ f[m] \in {0, 1}
             /\ 2 ^ m \in Nat \ {0} /\ 2 ^ (m + 1) = 2 * 2 ^ m
             /\ S(m + 1) = f[m] * 2 ^ m + S(m) /\ S(m) \in Int
  <2>1. m \in Nat /\ (m + 1) - 1 = m /\ f[m] \in {0, 1} /\ g[m] = f[m] * 2 ^ m
    BY DEF BitValues
  <2>2. 2 ^ m \in Nat \ {0} /\ 2 ^ (m + 1) = 2 * 2 ^ m
    BY <2>1, PowersOfTwo
  <2>3. SumFunctionOnSet(g, 0 .. m) = g[m] + SumFunctionOnSet(g, 0 .. m - 1)
        /\ SumFunctionOnSet(g, 0 .. m - 1) \in Int
    BY <1>1, SumUpTo
  <2>4. S(m + 1) = SumFunctionOnSet(g, 0 .. m)
    BY <2>1
  <2>. QED BY <2>1, <2>2, <2>3, <2>4
<1> HIDE DEF S
<1>4. \A m \in 0 .. n : Small(m)
  <2> DEFINE T == {m \in Nat : m <= n /\ ~Small(m)}
  <2>1. Small(0)
    BY <1>2, PowersOfTwo
  <2>2. ASSUME NEW m \in 0 .. n - 1, Small(m) PROVE Small(m + 1)
    <3> DEFINE p == 2 ^ m
               a == S(m)
               d == S(m + 1)
               z == f[m]
    <3>1. z \in {0, 1} /\ p \in Nat \ {0} /\ d = z * p + a /\ a \in 0 .. p - 1 /\ 2 ^ (m + 1) = 2 * p
      BY <1>3, <2>2
    <3> HIDE DEF p, a, d, z
    <3>2. d \in 0 .. 2 * p - 1
      BY <3>1
    <3>. QED BY <3>1, <3>2 DEF d
  <2>3. T = {}
    <3> SUFFICES ASSUME T # {} PROVE FALSE
      OBVIOUS
    <3>1. T \in SUBSET Nat /\ T # {}
      OBVIOUS
    <3> HIDE DEF Small
    <3>2. PICK m \in T : \A j \in T : m <= j
      BY ONLY <3>1, LeastNatural
    <3>3. m \in Nat /\ m <= n /\ ~Small(m)
      BY <3>2
    <3>4. m # 0
      BY <2>1, <3>3
    <3>5. m - 1 \in 0 .. n - 1 /\ (m - 1) + 1 = m /\ ~(m <= m - 1) /\ m - 1 \in Nat /\ m - 1 <= n
      BY <3>3, <3>4
    <3>6. Small(m - 1)
      BY <3>2, <3>5
    <3>. QED BY <2>2, <3>3, <3>5, <3>6
  <2> HIDE DEF Small
  <2>. QED BY <2>3
<1>5. \A m \in 0 .. n : Rest(m)
  <2> DEFINE T == {k \in Nat : k <= n /\ ~Rest(n - k)}
  <2>1. Rest(n)
    <3>1. X \in Int /\ 2 ^ n \in Nat
      BY <1>4, PowersOfTwo
    <3> DEFINE p == 2 ^ n
    <3>2. X = X + p * 0
      <4> HIDE DEF p, X
      <4>. QED BY <3>1 DEF p
    <3>. QED BY <3>2
  <2>2. ASSUME NEW m \in 0 .. n - 1, Rest(m + 1) PROVE Rest(m)
    <3> DEFINE p == 2 ^ m
               a == S(m)
               d == S(m + 1)
               z == f[m]
    <3>1. z \in {0, 1} /\ p \in Nat \ {0} /\ d = z * p + a /\ a \in Int /\ 2 ^ (m + 1) = 2 * p
      BY <1>3
    <3>2. PICK r \in Nat : X = d + (2 * p) * r
      BY <2>2, <3>1
    <3> HIDE DEF p, a, d, z, X
    <3>3. z + 2 * r \in Nat
      BY <3>1, <3>2
    <3>4. d + (2 * p) * r = a + p * (z + 2 * r)
      BY <3>1, <3>2
    <3>5. X = a + p * (z + 2 * r)
      BY <3>2, <3>4
    <3>. QED BY <3>3, <3>5 DEF a, p
  <2>3. T = {}
    <3> SUFFICES ASSUME T # {} PROVE FALSE
      OBVIOUS
    <3>1. T \in SUBSET Nat /\ T # {}
      OBVIOUS
    <3> HIDE DEF Rest
    <3>2. PICK k \in T : \A j \in T : k <= j
      BY ONLY <3>1, LeastNatural
    <3>3. k \in Nat /\ k <= n /\ ~Rest(n - k)
      BY <3>2
    <3>4. k # 0
      <4>1. n - 0 = n
        OBVIOUS
      <4>. QED BY <2>1, <3>3, <4>1
    <3>5. n - k \in 0 .. n - 1 /\ (n - k) + 1 = n - (k - 1) /\ ~(k <= k - 1) /\ k - 1 \in Nat /\ k - 1 <= n
      BY <3>3, <3>4
    <3>6. Rest(n - (k - 1))
      BY <3>2, <3>5
    <3>. QED BY <2>2, <3>3, <3>5, <3>6
  <2> SUFFICES ASSUME NEW m \in 0 .. n PROVE Rest(m)
    OBVIOUS
  <2>4. n - m \in Nat /\ n - m <= n /\ n - (n - m) = m
    OBVIOUS
  <2> HIDE DEF Rest
  <2>5. Rest(n - (n - m))
    BY <2>3, <2>4
  <2>. QED BY <2>4, <2>5
<1>6. ASSUME NEW m \in 0 .. n - 1 PROVE BitOf(X, m) = f[m]
  <2> DEFINE p == 2 ^ m
             a == S(m)
             d == S(m + 1)
             z == f[m]
  <2>1. z \in {0, 1} /\ p \in Nat \ {0} /\ d = z * p + a /\ 2 ^ (m + 1) = 2 * p
    BY <1>3
  <2>2. a \in 0 .. p - 1
    BY <1>4
  <2>3. PICK r \in Nat : X = d + (2 * p) * r
    <3>1. m + 1 \in 0 .. n
      OBVIOUS
    <3>2. Rest(m + 1)
      BY <1>5, <3>1
    <3>. QED BY <2>1, <3>2
  <2> HIDE DEF p, a, d, z, X
  <2> DEFINE k == z + 2 * r
  <2>4. k \in Int /\ k % 2 = z
    BY <2>1, <2>3
  <2>5. d + (2 * p) * r = p * k + a
    BY <2>1, <2>2, <2>3
  <2> HIDE DEF k
  <2>6. (p * k + a) \div p = k
    BY <2>1, <2>2, <2>4, QuotientUnique
  <2>7. X \div p = k
    BY <2>3, <2>5, <2>6
  <2>. QED BY <2>4, <2>7 DEF BitOf, p, z
<1>7. X \in 0 .. 2 ^ n - 1
  BY <1>4
<1>. QED BY <1>6, <1>7 DEF S

----------------------------------------------------------------------------
(* Packing *)

\* A word is two bytes.
WholeBytes == WordBits % 2 = 0

\* A word is two bytes.
LEMMA BytesOfWord ==
  ASSUME WholeBytes
  PROVE  ByteBits \in Nat \ {0} /\ WordBits = 2 * ByteBits /\ WordBits \in Nat \ {0}
<1>1. WordBits \in Nat /\ WordSize = 2 ^ WordBits /\ Half \in Nat \ {0}
  BY BitsAssumption, HalfAssumption
<1>2. WordBits # 0
  <2> SUFFICES ASSUME WordBits = 0 PROVE FALSE
    OBVIOUS
  <2>1. 2 ^ WordBits = 1
    BY PowersOfTwo
  <2>. QED BY <1>1, <2>1 DEF WordSize
<1>. QED BY <1>1, <1>2 DEF WholeBytes, ByteBits

\* The packed values fit the words that are provided for them, which are no
\* more than the values.
LEMMA PackedFits ==
  ASSUME WholeBytes, NEW n \in Nat, NEW b \in 0 .. WordBits
  PROVE  /\ n * b \in Nat /\ PackedWords(n, b) \in Nat
         /\ n * b <= PackedWords(n, b) * WordBits
         /\ PackedWords(n, b) <= n
<1> DEFINE h == ByteBits
           x == n * b
           y == PackedBytes(n, b)
           z == PackedWords(n, b)
<1>1. h \in Nat \ {0} /\ WordBits = 2 * h /\ b \in Nat /\ b <= 2 * h
  BY BytesOfWord
<1>2. x \in Nat
  BY <1>1, Product
<1>3. y = CeilDiv(x, h) /\ z = CeilDiv(y, 2)
  BY DEF PackedBytes, PackedWords
<1>4. x <= n * (2 * h)
  <2>1. b <= 2 * h /\ 2 * h \in Nat
    BY <1>1
  <2> DEFINE w == 2 * h
  <2>2. b <= w /\ w \in Nat /\ b \in Nat
    BY <1>1, <2>1
  <2> HIDE DEF w
  <2>3. b * n <= w * n
    BY <2>2, MulMono
  <2>4. b * n = n * b /\ w * n = n * w
    BY <2>2
  <2>. QED BY <2>3, <2>4 DEF w
<1> HIDE DEF x, y, z, h
<1>5. y \in Nat /\ x <= y * h /\ y * h < x + h
  BY <1>1, <1>2, <1>3, CeilDivIs
<1>6. z \in Nat /\ y <= z * 2 /\ z * 2 < y + 2
  BY <1>3, <1>5, CeilDivIs
<1>7. x <= z * (2 * h)
  <2>1. y * h <= (z * 2) * h
    <3> DEFINE w == z * 2
    <3>1. w \in Nat /\ y <= w
      BY <1>6
    <3> HIDE DEF w
    <3>2. y * h <= w * h
      BY <1>1, <1>5, <3>1, MulMono
    <3>. QED BY <3>2 DEF w
  <2>2. (z * 2) * h = z * (2 * h) /\ y * h \in Int /\ z * (2 * h) \in Int
    BY <1>1, <1>5, <1>6
  <2>. QED BY <1>2, <1>5, <2>1, <2>2
<1>8. z <= n
  <2>1. y * h < (2 * n + 1) * h
    <3>1. n * (2 * h) + h = (2 * n + 1) * h /\ n * (2 * h) \in Int /\ y * h \in Int
      BY <1>1, <1>5
    <3> DEFINE u == n * (2 * h)
               v == (2 * n + 1) * h
               w == y * h
    <3>2. u + h = v /\ u \in Int /\ w \in Int /\ x <= u /\ w < x + h
      BY <1>4, <1>5, <3>1
    <3> HIDE DEF u, v, w
    <3>3. w < v
      BY <1>1, <1>2, <3>2
    <3>. QED BY <3>3 DEF v, w
  <2>2. y < 2 * n + 1
    <3> DEFINE k == 2 * n + 1
    <3>1. k \in Nat /\ y * h < k * h
      BY <2>1
    <3> HIDE DEF k
    <3>2. y < k
      BY <1>1, <1>5, <3>1, MulCancel
    <3>. QED BY <3>2 DEF k
  <2>. QED BY <1>5, <1>6, <2>2
<1>. QED BY <1>1, <1>2, <1>6, <1>7, <1>8 DEF x, z, h

\* Bit p of the stream that Pack writes.
PackBit(s, b, old, p) ==
  IF p < Len(s) * b THEN StreamBit(s, b, p)
  ELSE IF p < PackedBytes(Len(s), b) * ByteBits THEN 0
  ELSE (old \div 2 ^ (p % WordBits)) % 2

\* A bit is zero or one.
LEMMA BitOfWord ==
  ASSUME NEW x \in Nat, NEW q \in Nat
  PROVE  BitOf(x, q) \in {0, 1}
<1> DEFINE p == 2 ^ q
<1>1. p \in Nat \ {0}
  BY PowersOfTwo
<1> HIDE DEF p
<1>2. x \div p \in Nat
  BY <1>1, Division
<1>3. (x \div p) % 2 \in {0, 1}
  BY <1>2
<1>. QED BY <1>3 DEF p, BitOf

\* The stream of s holds bit q of its value j at place (j - 1) * b + q.
LEMMA StreamPlaces ==
  ASSUME NEW s, NEW b \in Nat \ {0}, NEW p \in Nat
  PROVE  /\ p \div b \in Nat /\ p % b \in 0 .. b - 1
         /\ p = (p \div b) * b + (p % b)
         /\ StreamBit(s, b, p) = BitOf(s[p \div b + 1], p % b)
BY Division DEF StreamBit, BitOf

\* The stream has bit q of value j at (j - 1) * b + q.
LEMMA StreamPlace ==
  ASSUME NEW s, NEW b \in Nat \ {0}, NEW j \in Nat \ {0}, NEW q \in 0 .. b - 1
  PROVE  /\ (j - 1) * b + q \in Nat
         /\ StreamBit(s, b, (j - 1) * b + q) = BitOf(s[j], q)
<1> DEFINE k == j - 1
           p == k * b + q
<1>1. k \in Nat /\ k + 1 = j /\ q \in Nat
  OBVIOUS
<1> HIDE DEF k
<1>2. k * b \in Nat
  BY <1>1, Product
<1>3. p \in Nat
  BY <1>1, <1>2
<1>4. p \div b = k /\ p % b = q
  <2>1. p = k * b + q
    OBVIOUS
  <2> HIDE DEF p
  <2>. QED BY <1>1, <2>1, QuotientOf
<1>5. StreamBit(s, b, p) = BitOf(s[p \div b + 1], p % b)
  BY DEF StreamBit, BitOf
<1> HIDE DEF p
<1>6. StreamBit(s, b, p) = BitOf(s[j], q)
  BY <1>1, <1>4, <1>5
<1>. QED BY <1>3, <1>6 DEF k, p

\* What is packed is bits.
LEMMA PackBitIsBit ==
  ASSUME NEW s \in Seq(Word), NEW b \in Nat, NEW old \in Word, NEW p \in Nat
  PROVE  PackBit(s, b, old, p) \in {0, 1}
<1> DEFINE n == Len(s)
<1>1. n \in Nat /\ (\A j \in 1 .. n : s[j] \in Nat) /\ old \in Nat
  <2>1. \A j \in 1 .. n : s[j] \in Word
    OBVIOUS
  <2>. QED BY <2>1 DEF Word
<1> HIDE DEF n
<1>2. CASE p < n * b
  <2>1. b # 0
    <3> SUFFICES ASSUME b = 0 PROVE FALSE
      OBVIOUS
    <3>1. n * 0 = 0
      BY <1>1
    <3>. QED BY <1>2, <3>1
  <2>2. b \in Nat \ {0}
    BY <2>1
  <2> DEFINE k == p \div b
             r == p % b
  <2>3. k \in Nat /\ r \in 0 .. b - 1 /\ p = k * b + r /\ StreamBit(s, b, p) = BitOf(s[k + 1], r)
    BY <2>2, StreamPlaces
  <2> HIDE DEF k, r
  <2>4. k < n
    <3>1. k * b < n * b
      <4>1. k * b \in Nat /\ n * b \in Nat
        BY <1>1, <2>2, <2>3, Product
      <4> DEFINE u == k * b
                 v == n * b
      <4>2. u \in Nat /\ v \in Nat /\ p = u + r /\ p < v /\ r >= 0 /\ r \in Int
        BY <1>2, <2>2, <2>3, <4>1
      <4> HIDE DEF u, v
      <4>3. u < v
        BY <4>2
      <4>. QED BY <4>3 DEF u, v
    <3>. QED BY <1>1, <2>2, <2>3, <3>1, MulCancel
  <2>5. s[k + 1] \in Nat /\ r \in Nat
    <3>1. k + 1 \in 1 .. n
      BY <1>1, <2>3, <2>4
    <3>. QED BY <1>1, <2>2, <2>3, <3>1
  <2>6. BitOf(s[k + 1], r) \in {0, 1}
    BY <2>5, BitOfWord
  <2>7. PackBit(s, b, old, p) = StreamBit(s, b, p)
    BY <1>2 DEF PackBit, n
  <2>. QED BY <2>3, <2>6, <2>7
<1>3. CASE ~(p < n * b)
  <2>1. BitOf(old, p % WordBits) \in {0, 1}
    <3>1. WordBits \in Nat \ {0}
      <4>1. WordBits \in Nat /\ WordSize = 2 ^ WordBits /\ Half \in Nat \ {0}
        BY BitsAssumption, HalfAssumption
      <4>2. WordBits # 0
        <5> SUFFICES ASSUME WordBits = 0 PROVE FALSE
          OBVIOUS
        <5>1. 2 ^ WordBits = 1
          BY PowersOfTwo
        <5>. QED BY <4>1, <5>1 DEF WordSize
      <4>. QED BY <4>1, <4>2
    <3>2. p % WordBits \in Nat
      BY <3>1, Division
    <3>. QED BY <1>1, <3>2, BitOfWord
  <2>2. PackBit(s, b, old, p) \in {0, BitOf(old, p % WordBits)}
    BY <1>3 DEF PackBit, BitOf, n
  <2>. QED BY <2>1, <2>2
<1>. QED BY <1>2, <1>3

\* The words that Pack writes, bit by bit.
PackedBits(s, b, old, k) ==
  [q \in 0 .. WordBits - 1 |-> PackBit(s, b, old, (k - 1) * WordBits + q) * 2 ^ q]

\* Pack, word by word, with its bits named.
LEMMA PackIs ==
  ASSUME NEW s, NEW b, NEW old
  PROVE  Pack(s, b, old) = [k \in 1 .. PackedWords(Len(s), b) |->
                              SumFunctionOnSet(PackedBits(s, b, old, k), 0 .. WordBits - 1)]
BY DEF Pack, Weighted, SumFunction, PackBit, PackedBits

\* The weighted bits of which value k is unpacked.
UnpackedBits(t, b, k) == [q \in 0 .. b - 1 |-> StreamBit(t, WordBits, (k - 1) * b + q) * 2 ^ q]

\* Unpack, value by value, with its bits named.
LEMMA UnpackIs ==
  ASSUME NEW t, NEW n, NEW b
  PROVE  Unpack(t, n, b) = [k \in 1 .. n |-> IF b = 0 THEN 0
                              ELSE SumFunctionOnSet(UnpackedBits(t, b, k), 0 .. b - 1)]
BY DEF Unpack, Weighted, SumFunction, UnpackedBits

\* A packed word has the bits of the stream that it covers.
LEMMA PackedWordIs ==
  ASSUME WholeBytes, NEW s \in Seq(Word), NEW b \in Nat, NEW old \in Word, NEW k \in Nat \ {0}
  PROVE  LET x == SumFunctionOnSet(PackedBits(s, b, old, k), 0 .. WordBits - 1)
         IN  /\ x \in Word
             /\ \A q \in 0 .. WordBits - 1 : BitOf(x, q) = PackBit(s, b, old, (k - 1) * WordBits + q)
<1> DEFINE W == WordBits
           f == [q \in 0 .. W - 1 |-> PackBit(s, b, old, (k - 1) * W + q)]
           g == PackedBits(s, b, old, k)
           x == SumFunctionOnSet(g, 0 .. W - 1)
<1>1. W \in Nat \ {0} /\ WordSize = 2 ^ W
  BY BytesOfWord, BitsAssumption
<1>2. BitValues(g, f, W)
  <2> SUFFICES ASSUME NEW q \in 0 .. W - 1 PROVE f[q] \in {0, 1} /\ g[q] = f[q] * 2 ^ q
    BY DEF BitValues
  <2>1. (k - 1) * W + q \in Nat
    <3>1. (k - 1) \in Nat /\ W \in Nat /\ q \in Nat
      BY <1>1
    <3> DEFINE j == k - 1
    <3> HIDE DEF W, j
    <3>2. j * W \in Nat
      BY <3>1, Product DEF j
    <3>3. j * W + q \in Nat
      BY <3>1, <3>2
    <3>. QED BY <3>3 DEF j
  <2> DEFINE p == (k - 1) * W + q
  <2>2. f[q] = PackBit(s, b, old, p) /\ g[q] = PackBit(s, b, old, p) * 2 ^ q
    BY DEF PackedBits
  <2>3. p \in Nat
    BY <2>1
  <2> HIDE DEF p, f, g
  <2>4. PackBit(s, b, old, p) \in {0, 1}
    BY <2>3, PackBitIsBit
  <2>. QED BY <2>2, <2>4
<1>3. \A q \in 0 .. W - 1 : f[q] = PackBit(s, b, old, (k - 1) * W + q)
  OBVIOUS
<1> HIDE DEF f, g
<1>4. x \in 0 .. 2 ^ W - 1 /\ \A q \in 0 .. W - 1 : BitOf(x, q) = f[q]
  <2> HIDE DEF W
  <2>. QED BY <1>1, <1>2, BitsOfSum
<1>5. x \in Word
  BY <1>1, <1>4 DEF Word
<1>6. \A q \in 0 .. W - 1 : BitOf(x, q) = PackBit(s, b, old, (k - 1) * W + q)
  BY <1>3, <1>4
<1>. QED BY <1>5, <1>6 DEF g

\* Pack makes as many words as PackedWords says, with the bits of the stream.
LEMMA PackIsWords ==
  ASSUME WholeBytes, NEW s \in Seq(Word), NEW b \in 0 .. WordBits, NEW old \in Word
  PROVE  /\ Pack(s, b, old) \in Seq(Word) /\ Len(Pack(s, b, old)) = PackedWords(Len(s), b)
         /\ PackedWords(Len(s), b) \in Nat
         /\ \A k \in 1 .. PackedWords(Len(s), b) : \A q \in 0 .. WordBits - 1 :
              BitOf(Pack(s, b, old)[k], q) = PackBit(s, b, old, (k - 1) * WordBits + q)
<1> DEFINE m == PackedWords(Len(s), b)
           x(k) == SumFunctionOnSet(PackedBits(s, b, old, k), 0 .. WordBits - 1)
           t == [k \in 1 .. m |-> x(k)]
<1>1. Len(s) \in Nat /\ b \in Nat
  BY BytesOfWord
<1>2. m \in Nat
  BY <1>1, PackedFits
<1>3. Pack(s, b, old) = t
  BY PackIs
<1>4. \A k \in 1 .. m : /\ x(k) \in Word
                        /\ \A q \in 0 .. WordBits - 1 :
                             BitOf(x(k), q) = PackBit(s, b, old, (k - 1) * WordBits + q)
  <2> SUFFICES ASSUME NEW k \in 1 .. m
               PROVE  /\ x(k) \in Word
                      /\ \A q \in 0 .. WordBits - 1 :
                           BitOf(x(k), q) = PackBit(s, b, old, (k - 1) * WordBits + q)
    OBVIOUS
  <2>1. k \in Nat \ {0}
    BY <1>2
  <2>. QED BY <1>1, <2>1, PackedWordIs
<1> HIDE DEF m, x
<1>5. t \in Seq(Word) /\ Len(t) = m /\ \A k \in 1 .. m : t[k] = x(k)
  BY <1>2, <1>4
<1>6. \A k \in 1 .. m : \A q \in 0 .. WordBits - 1 :
        BitOf(t[k], q) = PackBit(s, b, old, (k - 1) * WordBits + q)
  BY ONLY <1>4, <1>5, Zenon
<1> HIDE DEF t
<1>. QED BY <1>2, <1>3, <1>5, <1>6 DEF m

\* What Pack writes, Unpack reads, when the values have b bits.
LEMMA Unpacked ==
  ASSUME WholeBytes, NEW s \in Seq(Word), NEW b \in 0 .. WordBits, NEW old \in Word,
         \A k \in 1 .. Len(s) : s[k] < 2 ^ b
  PROVE  Unpack(Pack(s, b, old), Len(s), b) = s
<1> DEFINE n == Len(s)
           W == WordBits
           m == PackedWords(n, b)
           t == Pack(s, b, old)
<1>1. /\ n \in Nat /\ W \in Nat \ {0} /\ b \in Nat /\ m \in Nat /\ n * b \in Nat /\ n * b <= m * W
      /\ s = [k \in 1 .. n |-> s[k]] /\ \A k \in 1 .. n : s[k] \in Nat
  <2>1. n \in Nat
    OBVIOUS
  <2>2. \A k \in 1 .. n : s[k] \in Word
    OBVIOUS
  <2>3. W \in Nat \ {0} /\ b \in Nat
    BY BytesOfWord
  <2>4. m \in Nat /\ n * b \in Nat /\ n * b <= m * W
    <3> HIDE DEF n
    <3>. QED BY <2>1, PackedFits
  <2>5. s = [k \in 1 .. n |-> s[k]]
    OBVIOUS
  <2>6. \A k \in 1 .. n : s[k] \in Nat
    BY <2>2 DEF Word
  <2>. QED BY <2>1, <2>3, <2>4, <2>5, <2>6
<1>2. \A k \in 1 .. m : \A q \in 0 .. W - 1 : BitOf(t[k], q) = PackBit(s, b, old, (k - 1) * W + q)
  BY PackIsWords
<1>3. \A k \in 1 .. n : s[k] < 2 ^ b
  OBVIOUS
<1> HIDE DEF t, W, m
<1>4. CASE b = 0
  <2>1. \A k \in 1 .. n : s[k] = 0
    <3>1. 2 ^ b = 1
      BY <1>4, PowersOfTwo
    <3>. QED BY <1>1, <1>3, <3>1
  <2>2. Unpack(t, n, b) = [k \in 1 .. n |-> 0]
    BY <1>4, UnpackIs
  <2> HIDE DEF n
  <2>. QED BY <1>1, <2>1, <2>2 DEF t, n
<1>5. CASE b # 0
  <2>0. b \in Nat \ {0}
    BY <1>1, <1>5
  <2>1. ASSUME NEW k \in 1 .. n, NEW q \in 0 .. b - 1
        PROVE  StreamBit(t, W, (k - 1) * b + q) = BitOf(s[k], q)
    <3> DEFINE p == (k - 1) * b + q
               j == p \div W
               r == p % W
    <3>1. k \in Nat \ {0} /\ k <= n /\ q \in Nat /\ q < b
      BY <1>1, <2>0
    <3>2. p \in Nat /\ StreamBit(s, b, p) = BitOf(s[k], q)
      BY <2>0, <3>1, StreamPlace
    <3>3. p < n * b
      <4> DEFINE u == k - 1
                 v == u + 1
      <4>1. u \in Nat /\ v = k /\ v \in Nat
        BY <3>1
      <4>2. u * b + b = v * b
        BY <1>1, <4>1
      <4>3. v * b <= n * b
        <5> HIDE DEF u, v
        <5>. QED BY <1>1, <3>1, <4>1, MulMono
      <4>4. u * b \in Nat /\ v * b \in Nat
        <5> HIDE DEF u, v
        <5>. QED BY <1>1, <4>1, Product
      <4> DEFINE x == u * b
                 y == v * b
                 z == n * b
      <4>5. x + b = y /\ y <= z /\ x \in Nat /\ y \in Nat /\ z \in Nat /\ b \in Nat /\ q \in Nat /\ q < b
        BY <1>1, <3>1, <4>2, <4>3, <4>4
      <4> HIDE DEF x, y, z
      <4>6. x + q < z
        BY ONLY <4>5
      <4>. QED BY <4>6 DEF x, z
    <3> HIDE DEF p
    <3>4. j \in Nat /\ r \in 0 .. W - 1 /\ p = j * W + r /\ StreamBit(t, W, p) = BitOf(t[j + 1], r)
      BY <1>1, <3>2, StreamPlaces
    <3> HIDE DEF j, r
    <3>5. j + 1 \in 1 .. m
      <4>1. j * W \in Nat /\ m * W \in Nat
        BY <1>1, <3>4, Product
      <4> DEFINE x == j * W
                 y == m * W
                 z == n * b
      <4>2. x \in Nat /\ y \in Nat /\ z \in Nat /\ z <= y /\ p < z /\ p = x + r /\ r \in Int /\ r >= 0
        BY <1>1, <3>3, <3>4, <4>1
      <4> HIDE DEF x, y, z
      <4>3. x < y
        BY ONLY <4>2
      <4>4. j < m
        BY <1>1, <3>4, <4>3, MulCancel DEF x, y
      <4>5. j \in Nat /\ m \in Nat
        BY <1>1, <3>4
      <4>. QED BY ONLY <4>4, <4>5
    <3>6. BitOf(t[j + 1], r) = PackBit(s, b, old, p)
      <4>1. (j + 1) - 1 = j
        BY <3>4
      <4>2. BitOf(t[j + 1], r) = PackBit(s, b, old, ((j + 1) - 1) * W + r)
        BY <1>2, <3>4, <3>5
      <4>. QED BY ONLY <3>4, <4>1, <4>2, Zenon
    <3>7. PackBit(s, b, old, p) = StreamBit(s, b, p)
      BY <3>3 DEF PackBit, n
    <3>8. StreamBit(t, W, p) = BitOf(s[k], q)
      BY <3>2, <3>4, <3>6, <3>7
    <3>. QED BY <3>8 DEF p
  <2>2. ASSUME NEW k \in 1 .. n PROVE SumFunctionOnSet(UnpackedBits(t, b, k), 0 .. b - 1) = s[k]
    <3> DEFINE g == UnpackedBits(t, b, k)
               x == s[k]
    <3>1. Binary(g, x, b)
      BY <2>1 DEF Binary, UnpackedBits, W
    <3>2. x \in Nat /\ x < 2 ^ b /\ 2 ^ b \in Nat \ {0}
      BY <1>1, <1>3, PowersOfTwo
    <3> HIDE DEF g, x
    <3>3. SumFunctionOnSet(g, 0 .. b - 1) = x % 2 ^ b
      BY <1>1, <3>1, <3>2, SumOfBits
    <3> DEFINE p == 2 ^ b
    <3>4. x % p = x
      <4>1. x \in Nat /\ x < p /\ p \in Nat \ {0}
        BY <3>2
      <4> HIDE DEF p
      <4>. QED BY <4>1
    <3>. QED BY <3>3, <3>4 DEF g, x
  <2>3. Unpack(t, n, b) = [k \in 1 .. n |-> s[k]]
    <3>1. Unpack(t, n, b) = [k \in 1 .. n |-> IF b = 0 THEN 0
                              ELSE SumFunctionOnSet(UnpackedBits(t, b, k), 0 .. b - 1)]
      BY UnpackIs
    <3> HIDE DEF n
    <3>. QED BY ONLY <1>5, <2>2, <3>1, Zenon
  <2> HIDE DEF n
  <2>4. Unpack(t, n, b) = s
    BY ONLY <1>1, <2>3, Zenon
  <2>. QED BY <2>4 DEF t, n
<1>. QED BY <1>4, <1>5

----------------------------------------------------------------------------
(* Hierarchical frame of reference *)

\* A local window fits in its global window, and that in the block.
LEMMA HierWindows ==
  ASSUME NEW c, c.gw \in Nat, c.lw \in Nat, NEW n \in Nat \ {0}
  PROVE  /\ GlobalWindow(c, n) \in Nat \ {0} /\ LocalWindow(c, n) \in Nat \ {0}
         /\ GlobalWindow(c, n) <= n /\ LocalWindow(c, n) <= GlobalWindow(c, n)
<1>1. GlobalWindow(c, n) \in 1 .. n
  BY EffectiveWindowFits DEF GlobalWindow
<1>2. GlobalWindow(c, n) \in Nat \ {0}
  BY <1>1
<1>3. LocalWindow(c, n) \in 1 .. GlobalWindow(c, n)
  BY <1>2, EffectiveWindowFits DEF LocalWindow
<1>. QED BY <1>1, <1>2, <1>3

\* A value and the start of its local window are in the same global one.
LEMMA NestedWindows ==
  ASSUME NEW l \in Nat \ {0}, NEW g \in Nat \ {0}, g % l = 0, NEW x \in Nat
  PROVE  /\ (x \div l) * l \in Nat /\ (x \div l) * l <= x
         /\ ((x \div l) * l) \div g = x \div g
<1> DEFINE m == g \div l
           q == x \div l
           r == x % l
<1>1. m \in Nat /\ g = m * l
  <2>1. g = (g \div l) * l + (g % l) /\ g \div l \in Nat
    BY Division
  <2>2. m \in Nat /\ g = m * l + 0
    BY <2>1
  <2> HIDE DEF m
  <2>3. m * l \in Nat
    BY <2>2, Product
  <2>. QED BY <2>2, <2>3
<1>2. q \in Nat /\ r \in 0 .. l - 1 /\ x = q * l + r
  BY Division
<1> HIDE DEF m, q, r
<1>3. m # 0
  <2> SUFFICES ASSUME m = 0 PROVE FALSE
    OBVIOUS
  <2>1. 0 * l = 0
    OBVIOUS
  <2>. QED BY <1>1, <2>1
<1> DEFINE a == q \div m
           d == q % m
<1>4. a \in Nat /\ d \in 0 .. m - 1 /\ q = a * m + d
  BY <1>1, <1>2, <1>3, Division
<1> HIDE DEF a, d
<1>5. d * l \in Nat /\ d * l + r < g
  <2>1. d \in Nat /\ d + 1 \in Nat /\ d + 1 <= m
    BY <1>1, <1>3, <1>4
  <2> DEFINE k == d + 1
  <2>2. k \in Nat /\ k <= m /\ k * l = d * l + l
    BY <2>1
  <2> HIDE DEF k
  <2>3. k * l <= m * l
    BY <1>1, <2>2, MulMono
  <2>4. d * l \in Nat
    BY <2>1, Product
  <2> DEFINE u == d * l
             v == k * l
  <2>5. u \in Nat /\ v = u + l /\ v <= g /\ r < l /\ r \in Int /\ g \in Int /\ l \in Int
    BY <1>1, <1>2, <2>2, <2>3, <2>4
  <2> HIDE DEF u, v
  <2>6. u + r < g
    BY ONLY <2>5
  <2>. QED BY <2>4, <2>6 DEF u
<1>6. q * l = a * g + d * l
  <2>1. q * l = a * (m * l) + d * l
    BY <1>1, <1>2, <1>3, <1>4
  <2>. QED BY <1>1, <2>1
<1>7. q * l \in Nat
  BY <1>2, Product
<1>8. (q * l) \div g = a
  <2> DEFINE y == q * l
             u == d * l
  <2>1. y = a * g + u /\ u \in 0 .. g - 1
    <3>1. u \in Nat /\ u + r < g /\ r >= 0 /\ r \in Int
      BY <1>2, <1>5
    <3> HIDE DEF u
    <3>2. u \in 0 .. g - 1
      BY <3>1
    <3>. QED BY <1>6, <3>2 DEF u
  <2> HIDE DEF y, u
  <2>2. y \div g = a
    BY ONLY <1>4, <2>1, g \in Nat \ {0}, QuotientOf, Zenon
  <2>. QED BY <2>2 DEF y
<1>9. x \div g = a
  <2> DEFINE u == d * l
             v == u + r
  <2>1. x = a * g + v /\ v \in 0 .. g - 1
    <3>1. u \in Nat /\ u + r < g /\ r >= 0 /\ r \in Int
      BY <1>2, <1>5
    <3>2. a * g \in Nat
      BY <1>4, Product
    <3> DEFINE w == a * g
               y == q * l
    <3>3. x = y + r /\ y = w + u /\ w \in Nat
      BY <1>2, <1>6, <3>2
    <3> HIDE DEF u, w, y
    <3>4. x = w + (u + r)
      BY ONLY <3>1, <3>3
    <3>5. u + r \in 0 .. g - 1
      BY ONLY <3>1, g \in Nat
    <3>. QED BY <3>4, <3>5 DEF w
  <2> HIDE DEF v
  <2>. QED BY ONLY <1>4, <2>1, g \in Nat \ {0}, QuotientOf, Zenon
<1>10. q * l <= x
  <2> DEFINE y == q * l
  <2>1. y \in Nat /\ x = y + r /\ r >= 0 /\ r \in Int
    BY <1>2, <1>7
  <2> HIDE DEF y
  <2>2. y <= x
    BY ONLY <2>1, x \in Nat
  <2>. QED BY <2>2 DEF y
<1>. QED BY <1>7, <1>8, <1>9, <1>10 DEF q

\* The distances of the local anchors to the global ones.
LEMMA DistancesAre ==
  ASSUME NEW c, c.gw \in Nat, c.lw \in Nat, NEW b \in Seq(Word), b # <<>>
  PROVE  LET n   == Len(b)
             gw  == GlobalWindow(c, n)
             lw  == LocalWindow(c, n)
             top == Anchors(b, gw)
             low == Anchors(b, lw)
             d   == LocalDistances(c, b)
         IN  /\ d \in Seq(Word) /\ Len(d) = CeilDiv(n, lw)
             /\ \A k \in 1 .. CeilDiv(n, lw) :
                  LET j == ((k - 1) * lw) \div gw + 1
                  IN  /\ j \in 1 .. CeilDiv(n, gw) /\ d[k] = Minus(low[k], top[j])
                      /\ top[j] \in Word /\ low[k] \in Word
<1> DEFINE n   == Len(b)
           gw  == GlobalWindow(c, n)
           lw  == LocalWindow(c, n)
           top == Anchors(b, gw)
           low == Anchors(b, lw)
           d   == LocalDistances(c, b)
           ng  == CeilDiv(n, gw)
           nl  == CeilDiv(n, lw)
           at(k) == ((k - 1) * lw) \div gw + 1
<1>1. n \in Nat \ {0}
  OBVIOUS
<1>2. gw \in Nat \ {0} /\ lw \in Nat \ {0}
  <2> HIDE DEF n
  <2>. QED BY <1>1, HierWindows
<1> HIDE DEF gw, lw
<1>3. /\ top \in Seq(Word) /\ Len(top) = ng /\ ng \in Nat
      /\ low \in Seq(Word) /\ Len(low) = nl /\ nl \in Nat
  BY <1>1, <1>2, AnchorsAreWords, CeilDivIs
<1>4. d = [k \in 1 .. nl |-> Minus(low[k], top[at(k)])]
  BY <1>3 DEF LocalDistances, gw, lw
<1> HIDE DEF d, top, low, ng, nl, n
<1>5. ASSUME NEW k \in 1 .. nl
      PROVE  at(k) \in 1 .. ng /\ top[at(k)] \in Word /\ low[k] \in Word
  <2> DEFINE p == k - 1
             x == p * lw
  <2>1. p \in Nat /\ p < nl /\ k \in 1 .. nl
    BY <1>3
  <2> HIDE DEF p
  <2>2. x < n /\ x \in Nat
    BY <1>1, <1>2, <2>1, WindowsOfBlock, Product DEF nl
  <2> HIDE DEF x
  <2>3. x + 1 \in 1 .. n /\ (x + 1) - 1 = x
    BY <1>1, <2>2
  <2>4. ((x + 1) - 1) \div gw \in 0 .. ng - 1
    <3>1. ((x + 1) - 1) \div gw \in Nat /\ ((x + 1) - 1) \div gw < CeilDiv(n, gw)
      BY <1>1, <1>2, <2>3, WindowOfValue
    <3> DEFINE y == ((x + 1) - 1) \div gw
    <3>2. y \in Nat /\ y < ng
      BY <3>1 DEF ng
    <3> HIDE DEF y
    <3>3. y \in 0 .. ng - 1
      BY <1>3, <3>2
    <3>. QED BY <3>3 DEF y
  <2>5. x \div gw \in 0 .. ng - 1
    BY <2>3, <2>4
  <2> DEFINE z == x \div gw
  <2>6. z + 1 \in 1 .. ng
    <3>1. z \in 0 .. ng - 1
      BY <2>5
    <3> HIDE DEF z
    <3>. QED BY <1>3, <3>1
  <2>7. at(k) = z + 1
    BY DEF x, p
  <2>8. top[z + 1] \in Word /\ low[k] \in Word
    <3> HIDE DEF z
    <3>. QED BY <1>3, <2>6
  <2>. QED BY ONLY <2>6, <2>7, <2>8, Zenon
<1> HIDE DEF at
<1>6. \A k \in 1 .. nl : Minus(low[k], top[at(k)]) \in Word
  BY <1>5, WordsClosed
<1>7. d \in Seq(Word) /\ Len(d) = nl
  BY <1>3, <1>4, <1>6
<1>8. \A k \in 1 .. nl : d[k] = Minus(low[k], top[at(k)])
  BY <1>4
<1>. QED BY <1>5, <1>7, <1>8 DEF d, top, low, ng, nl, n, gw, lw, at

\* The bits that are counted for the distances hold them.
LEMMA BitsCounted ==
  ASSUME NEW d \in Seq(Word), d # <<>>
  PROVE  /\ LocalBits(d) \in 0 .. WordBits /\ LocalBits(d) \in Word
         /\ \A k \in 1 .. Len(d) : d[k] < 2 ^ LocalBits(d)
<1> DEFINE n == Len(d)
           D == {d[k] : k \in DOMAIN d}
           v == Max({d[j] : j \in DOMAIN d})
           B == {k \in 0 .. WordBits : 2 ^ k > v}
<1>1. n \in Nat \ {0} /\ DOMAIN d = 1 .. n /\ \A k \in 1 .. n : d[k] \in Word
  OBVIOUS
<1>2. WordBits \in Nat /\ WordSize = 2 ^ WordBits /\ WordBits < 2 ^ WordBits /\ WordSize \in Nat
  BY BitsAssumption, PowersOfTwo
<1>3. v \in Word /\ \A k \in 1 .. n : d[k] <= v
  <2>1. IsFiniteSet(D)
    <3>1. 1 \in Int /\ n \in Int
      BY <1>1
    <3>2. IsFiniteSet(DOMAIN d)
      BY <1>1, <3>1, FS_Interval
    <3>. QED BY <3>2, FiniteImage
  <2>2. D \in SUBSET Int /\ D # {} /\ D \subseteq Word
    BY <1>1 DEF Word
  <2>3. \A k \in 1 .. n : d[k] \in D
    BY <1>1
  <2>4. v = Max(D)
    OBVIOUS
  <2> HIDE DEF D
  <2>5. Max(D) \in D /\ \A y \in D : Max(D) >= y
    BY <2>1, <2>2, MaxIsGreatest
  <2> HIDE DEF v
  <2>6. v \in Word
    BY <2>2, <2>4, <2>5
  <2>7. \A k \in 1 .. n : d[k] <= v
    <3> SUFFICES ASSUME NEW k \in 1 .. n PROVE d[k] <= v
      OBVIOUS
    <3>1. v >= d[k] /\ v \in Int /\ d[k] \in Int
      BY <1>1, <2>3, <2>4, <2>5, <2>6 DEF Word
    <3>. QED BY ONLY <3>1
  <2>. QED BY <2>6, <2>7
<1>4. LocalBits(d) = Min(B)
  BY DEF LocalBits, BitLength
<1> HIDE DEF v
<1>5. Min(B) \in B
  <2>1. v < 2 ^ WordBits /\ v \in Int
    BY <1>2, <1>3 DEF Word
  <2>2. 2 ^ WordBits > v
    BY <1>2, <2>1
  <2>3. WordBits \in B
    BY <1>2, <2>2
  <2>4. B \in SUBSET Int
    BY <1>2
  <2>5. IsFiniteSet(B)
    <3>1. 0 \in Int /\ WordBits \in Int
      BY <1>2
    <3>2. IsFiniteSet(0 .. WordBits) /\ B \subseteq 0 .. WordBits
      BY <3>1, FS_Interval
    <3>. QED BY <3>2, FS_Subset
  <2> HIDE DEF B
  <2>. QED BY <2>3, <2>4, <2>5, MinIsLeast
<1>6. LocalBits(d) \in 0 .. WordBits /\ 2 ^ LocalBits(d) > v
  BY <1>4, <1>5
<1>7. LocalBits(d) \in Word
  BY <1>2, <1>6 DEF Word
<1>8. \A k \in 1 .. n : d[k] < 2 ^ LocalBits(d)
  <2> SUFFICES ASSUME NEW k \in 1 .. n PROVE d[k] < 2 ^ LocalBits(d)
    OBVIOUS
  <2> DEFINE p == 2 ^ LocalBits(d)
  <2>1. p \in Nat /\ p > v /\ d[k] <= v /\ v \in Int /\ d[k] \in Int
    BY <1>1, <1>2, <1>3, <1>6, PowersOfTwo DEF Word
  <2> HIDE DEF p
  <2>2. d[k] < p
    BY ONLY <2>1
  <2>. QED BY <2>2 DEF p
<1>. QED BY <1>6, <1>7, <1>8

\* Where the words of two sequences are when they are concatenated.
Concatenated(s, t) ==
  /\ s \o t \in Seq(Word) /\ Len(s \o t) = Len(s) + Len(t)
  /\ \A k \in 1 .. Len(s) : (s \o t)[k] = s[k]
  /\ \A k \in 1 .. Len(t) : (s \o t)[Len(s) + k] = t[k]

\* Where a concatenation has the elements of its parts.
LEMMA Concatenation ==
  ASSUME NEW s \in Seq(Word), NEW t \in Seq(Word)
  PROVE  Concatenated(s, t)
<1> DEFINE T == Word
           m == Len(s)
           n == Len(t)
           u == s \o t
<1>1. s \in Seq(T) /\ t \in Seq(T) /\ m \in Nat /\ n \in Nat
  OBVIOUS
<1> HIDE DEF T
<1>2. /\ u \in Seq(T) /\ Len(u) = m + n
      /\ \A k \in 1 .. m + n : u[k] = IF k <= m THEN s[k] ELSE t[k - m]
  BY <1>1, ConcatProperties
<1> HIDE DEF m, n, u
<1>3. \A k \in 1 .. m : u[k] = s[k]
  BY ONLY <1>1, <1>2
<1>4. \A k \in 1 .. n : u[m + k] = t[k]
  <2> SUFFICES ASSUME NEW k \in 1 .. n PROVE u[m + k] = t[k]
    OBVIOUS
  <2> DEFINE j == m + k
  <2>1. j \in 1 .. m + n /\ ~(j <= m) /\ j - m = k
    BY <1>1
  <2> HIDE DEF j
  <2>2. u[j] = t[j - m]
    BY ONLY <1>2, <2>1, Zenon
  <2>. QED BY ONLY <2>1, <2>2, Zenon DEF j
<1>. QED BY ONLY <1>2, <1>3, <1>4, Zenon DEF Concatenated, m, n, u, T

\* A header of one word, the words of u and those of v.
HeaderAt(h, x, u, v) ==
  /\ h[1] = x
  /\ \A k \in 1 .. Len(u) : h[k + 1] = u[k]
  /\ \A k \in 1 .. Len(v) : h[1 + Len(u) + k] = v[k]

\* The part of a header that ends it.
LEMMA LastPart ==
  ASSUME NEW u \in Seq(Word), NEW v \in Seq(Word), NEW h, NEW x, HeaderAt(h, x, u, v)
  PROVE  SubSeq(h, Len(u) + 2, Len(u) + 1 + Len(v)) = v
<1> DEFINE m == Len(u)
           n == Len(v)
           p == m + 2
           q == m + 1 + n
           t == SubSeq(h, p, q)
<1>1. m \in Nat /\ n \in Nat /\ v = [k \in 1 .. n |-> v[k]] /\ \A k \in 1 .. n : v[k] \in Word
  OBVIOUS
<1>2. \A k \in 1 .. n : h[1 + m + k] = v[k]
  BY DEF HeaderAt
<1> HIDE DEF m, n
<1>3. p \in Int /\ q \in Int /\ q - p + 1 = n /\ (p <= q <=> n # 0)
  BY ONLY <1>1
<1>4. \A k \in p .. q : h[k] \in Word
  <2> SUFFICES ASSUME NEW k \in p .. q PROVE h[k] \in Word
    OBVIOUS
  <2> DEFINE j == k - (m + 1)
  <2>1. j \in 1 .. n /\ 1 + m + j = k
    BY <1>1
  <2> HIDE DEF j
  <2>2. h[1 + m + j] = v[j] /\ v[j] \in Word
    BY <1>1, <1>2, <2>1
  <2>. QED BY ONLY <2>1, <2>2, Zenon
<1>5. \A k \in 1 .. n : p + k - 1 = 1 + m + k
  BY ONLY <1>1
<1> HIDE DEF p, q
<1>6. /\ t \in Seq(Word) /\ Len(t) = IF p <= q THEN q - p + 1 ELSE 0
      /\ \A k \in 1 .. q - p + 1 : t[k] = h[p + k - 1]
  BY <1>3, <1>4, SubSeqProperties
<1> HIDE DEF t
<1>7. Len(t) = n
  BY ONLY <1>1, <1>3, <1>6
<1>8. \A k \in 1 .. n : t[k] = v[k]
  BY ONLY <1>2, <1>3, <1>5, <1>6, Zenon
<1>9. t = [k \in 1 .. n |-> t[k]]
  <2>1. t \in Seq(Word)
    BY <1>6
  <2>2. t = [k \in 1 .. Len(t) |-> t[k]]
    BY ONLY <2>1
  <2>. QED BY ONLY <1>7, <2>2, Zenon
<1>10. t = v
  BY ONLY <1>1, <1>8, <1>9
<1>. QED BY <1>10 DEF t, p, q, m, n

\* A header is a word, then two parts.
LEMMA HeaderIs ==
  ASSUME NEW x \in Word, NEW u \in Seq(Word), NEW v \in Seq(Word)
  PROVE  /\ <<x>> \o u \o v \in Seq(Word)
         /\ Len(<<x>> \o u \o v) = 1 + Len(u) + Len(v)
         /\ HeaderAt(<<x>> \o u \o v, x, u, v)
<1> DEFINE m == Len(u)
           n == Len(v)
           f == <<x>>
           g == f \o u
           h == g \o v
<1>1. m \in Nat /\ n \in Nat /\ f \in Seq(Word) /\ Len(f) = 1 /\ f[1] = x
  OBVIOUS
<1> HIDE DEF f
<1>2. Concatenated(f, u)
  BY <1>1, Concatenation
<1>3. g \in Seq(Word) /\ Len(g) = 1 + m
  BY <1>1, <1>2 DEF Concatenated
<1>4. g[1] = x /\ \A k \in 1 .. m : g[1 + k] = u[k]
  <2>1. 1 \in 1 .. 1
    OBVIOUS
  <2>2. (\A k \in 1 .. 1 : g[k] = f[k]) /\ \A k \in 1 .. m : g[1 + k] = u[k]
    BY ONLY <1>1, <1>2, Zenon DEF Concatenated
  <2>. QED BY ONLY <1>1, <2>1, <2>2, Zenon
<1> HIDE DEF g
<1>5. Concatenated(g, v)
  BY <1>3, Concatenation
<1>6. h \in Seq(Word) /\ Len(h) = 1 + m + n
  BY <1>1, <1>3, <1>5 DEF Concatenated
<1>7. (\A k \in 1 .. 1 + m : h[k] = g[k]) /\ \A k \in 1 .. n : h[1 + m + k] = v[k]
  BY ONLY <1>3, <1>5, Zenon DEF Concatenated
<1> HIDE DEF h, m, n
<1>8. h[1] = x /\ \A k \in 1 .. m : h[k + 1] = u[k]
  <2>1. 1 \in 1 .. 1 + m /\ \A k \in 1 .. m : k + 1 \in 1 .. 1 + m /\ k + 1 = 1 + k
    BY <1>1
  <2>. QED BY ONLY <1>4, <1>7, <2>1, Zenon
<1>9. HeaderAt(h, x, u, v)
  BY ONLY <1>7, <1>8, Zenon DEF HeaderAt, m, n
<1>10. h = <<x>> \o u \o v
  BY DEF h, g, f
<1>. QED BY ONLY <1>6, <1>9, <1>10, Zenon DEF m, n

\* A header keeps its parts when words follow it.
LEMMA HeaderInFront ==
  ASSUME NEW x, NEW u \in Seq(Word), NEW v \in Seq(Word), NEW h \in Seq(Word), NEW r \in Seq(Word),
         Len(h) = 1 + Len(u) + Len(v), HeaderAt(h, x, u, v)
  PROVE  /\ Concatenated(h, r) /\ HeaderAt(h \o r, x, u, v)
<1> DEFINE m == Len(u)
           n == Len(v)
           t == h \o r
<1>1. m \in Nat /\ n \in Nat /\ Len(h) = 1 + m + n
  OBVIOUS
<1>2. Concatenated(h, r)
  BY Concatenation
<1>3. \A k \in 1 .. 1 + m + n : t[k] = h[k]
  BY ONLY <1>1, <1>2, Zenon DEF Concatenated
<1>4. h[1] = x /\ (\A k \in 1 .. m : h[k + 1] = u[k]) /\ \A k \in 1 .. n : h[1 + m + k] = v[k]
  BY DEF HeaderAt
<1> HIDE DEF m, n, t
<1>5. /\ 1 \in 1 .. 1 + m + n
      /\ \A k \in 1 .. m : k + 1 \in 1 .. 1 + m + n
      /\ \A k \in 1 .. n : 1 + m + k \in 1 .. 1 + m + n
  BY ONLY <1>1
<1>6. t[1] = x /\ (\A k \in 1 .. m : t[k + 1] = u[k]) /\ \A k \in 1 .. n : t[1 + m + k] = v[k]
  BY ONLY <1>3, <1>4, <1>5, Zenon
<1>. QED BY <1>2, <1>6 DEF HeaderAt, m, n, t

\* What the hierarchical code of a block is made of.
HierParts(c, b, w) ==
  LET n   == Len(b)
      gw  == GlobalWindow(c, n)
      lw  == LocalWindow(c, n)
      top == Anchors(b, gw)
      d   == LocalDistances(c, b)
      bl  == LocalBits(d)
      p   == Pack(d, bl, w)
  IN  /\ n \in Nat \ {0} /\ gw \in Nat \ {0} /\ lw \in Nat \ {0}
      /\ top \in Seq(Word) /\ Len(top) = CeilDiv(n, gw) /\ CeilDiv(n, gw) \in Nat
      /\ d \in Seq(Word) /\ Len(d) = CeilDiv(n, lw) /\ CeilDiv(n, lw) \in Nat \ {0}
      /\ bl \in Word /\ bl \in 0 .. WordBits
      /\ p \in Seq(Word) /\ Len(p) = PackedWords(Len(d), bl)
      /\ PackedWords(Len(d), bl) \in 0 .. CeilDiv(n, lw)
      /\ Unpack(p, Len(d), bl) = d

\* The parts of a hierarchical code are words, of the lengths its decoder expects.
LEMMA HierPartsAre ==
  ASSUME WholeBytes, NEW c, c.gw \in Nat, c.lw \in Nat, NEW b \in Seq(Word), b # <<>>,
         NEW w \in Word
  PROVE  HierParts(c, b, w)
<1> DEFINE n   == Len(b)
           gw  == GlobalWindow(c, n)
           lw  == LocalWindow(c, n)
           top == Anchors(b, gw)
           d   == LocalDistances(c, b)
           bl  == LocalBits(d)
           p   == Pack(d, bl, w)
           ng  == CeilDiv(n, gw)
           nl  == CeilDiv(n, lw)
           pw  == PackedWords(Len(d), bl)
<1>1. n \in Nat \ {0}
  OBVIOUS
<1>2. gw \in Nat \ {0} /\ lw \in Nat \ {0}
  <2> HIDE DEF n
  <2>. QED BY <1>1, HierWindows
<1>3. d \in Seq(Word) /\ Len(d) = nl
  BY DistancesAre
<1> HIDE DEF gw, lw, d
<1>4. top \in Seq(Word) /\ Len(top) = ng /\ ng \in Nat /\ nl \in Nat
  BY <1>1, <1>2, AnchorsAreWords, CeilDivIs
<1>5. nl # 0
  <2>1. n <= nl * lw
    BY <1>1, <1>2, CeilDivIs
  <2> SUFFICES ASSUME nl = 0 PROVE FALSE
    OBVIOUS
  <2>2. nl * lw = 0
    BY <1>2
  <2> HIDE DEF nl, n
  <2>. QED BY <1>1, <2>1, <2>2
<1>6. d # <<>>
  <2>1. Len(<<>>) = 0
    OBVIOUS
  <2> HIDE DEF nl
  <2>. QED BY <1>3, <1>5, <2>1
<1>7. bl \in 0 .. WordBits /\ bl \in Word /\ \A k \in 1 .. Len(d) : d[k] < 2 ^ bl
  BY <1>3, <1>6, BitsCounted
<1> HIDE DEF bl
<1>8. p \in Seq(Word) /\ Len(p) = pw /\ pw \in Nat
  BY <1>3, <1>7, PackIsWords
<1>9. pw <= nl
  <2>1. Len(d) \in Nat
    BY <1>3
  <2>2. pw <= Len(d)
    BY <1>7, <2>1, PackedFits
  <2>. QED BY <1>3, <2>2
<1>10. Unpack(p, Len(d), bl) = d
  BY <1>3, <1>7, Unpacked
<1> HIDE DEF p, pw, ng, nl, n, top
<1>11. pw \in 0 .. nl
  BY <1>4, <1>8, <1>9
<1>. QED BY ONLY <1>1, <1>2, <1>3, <1>4, <1>5, <1>7, <1>8, <1>10, <1>11 DEF HierParts, n, gw, lw, top, d, bl, p, ng, nl, pw

\* A hierarchical put is a code of its block, for some padding w.
LEMMA HierPutIs ==
  ASSUME WholeBytes, NEW c, c.gw \in Nat, c.lw \in Nat, c.sep \in BOOLEAN,
         NEW s \in States, ~c.sep => s.meta = <<>>, NEW b \in Seq(Word), b # <<>>
  PROVE  \E w \in Word : HierPut(c, s, b) = HierCode(c, b, w)
<1> DEFINE v    == IF c.sep THEN s.meta ELSE s.data
           d    == LocalDistances(c, b)
           last == 1 + CeilDiv(Len(b), GlobalWindow(c, Len(b))) + PackedWords(Len(d), LocalBits(d))
           w    == IF last <= Len(v) THEN v[last] ELSE 0
           e    == HierCode(c, b, w)
<1>0. 0 \in Word
  BY HalfAssumption DEF Word, WordSize
<1>1. HierPut(c, s, b) = IF c.sep THEN e ELSE [s EXCEPT !.data = e.data]
  BY DEF HierPut
<1>2. w \in Word
  <2>1. v \in Seq(Word)
    BY DEF States
  <2>2. last \in Nat \ {0}
    <3>1. HierParts(c, b, 0)
      BY <1>0, HierPartsAre
    <3>2. /\ CeilDiv(Len(b), GlobalWindow(c, Len(b))) \in Nat
          /\ PackedWords(Len(d), LocalBits(d)) \in Nat
      <4> DEFINE y == CeilDiv(Len(b), LocalWindow(c, Len(b)))
                 z == PackedWords(Len(d), LocalBits(d))
      <4>1. CeilDiv(Len(b), GlobalWindow(c, Len(b))) \in Nat /\ z \in 0 .. y
        BY ONLY <3>1, Zenon DEF HierParts
      <4> HIDE DEF y, z
      <4>2. z \in Nat
        BY ONLY <4>1
      <4>. QED BY <4>1, <4>2 DEF z
    <3> DEFINE y == CeilDiv(Len(b), GlobalWindow(c, Len(b)))
               z == PackedWords(Len(d), LocalBits(d))
    <3> HIDE DEF y, z
    <3>3. 1 + y + z \in Nat \ {0}
      BY <3>2 DEF y, z
    <3>. QED BY <3>3 DEF y, z
  <2>3. last <= Len(v) => v[last] \in Word
    <3> HIDE DEF v, last
    <3>. QED BY <2>1, <2>2
  <2>. QED BY <1>0, <2>3
<1>3. ~c.sep => e = [data |-> e.data, meta |-> <<>>]
  BY DEF HierCode
<1>4. ~c.sep => [s EXCEPT !.data = e.data] = [data |-> e.data, meta |-> <<>>]
  <2> HIDE DEF e
  <2>. QED BY OnlyData
<1>5. HierPut(c, s, b) = e
  <2> HIDE DEF e
  <2>. QED BY <1>1, <1>3, <1>4
<1> HIDE DEF w
<1>. QED BY <1>2, <1>5

\* The decoded value, from the parts of the code.
LEMMA FromBothAnchors ==
  ASSUME NEW c, c.gw \in Nat, c.lw \in Nat, NEW b \in Seq(Word), HierAccepts(c, Len(b)),
         NEW j \in 1 .. Len(b)
  PROVE  LET n == Len(b)
             gw == GlobalWindow(c, n)
             lw == LocalWindow(c, n)
         IN  Plus(Residuals(b, lw)[j],
                  Plus(Anchors(b, gw)[(j - 1) \div gw + 1],
                       LocalDistances(c, b)[(j - 1) \div lw + 1])) = b[j]
<1> DEFINE n   == Len(b)
           gw  == GlobalWindow(c, n)
           lw  == LocalWindow(c, n)
           top == Anchors(b, gw)
           low == Anchors(b, lw)
           d   == LocalDistances(c, b)
           k   == (j - 1) \div lw + 1
           t   == (j - 1) \div gw + 1
<1>1. n \in Nat \ {0} /\ b # <<>> /\ j \in 1 .. n
  OBVIOUS
<1>2. gw \in Nat \ {0} /\ lw \in Nat \ {0} /\ gw % lw = 0
  <2>1. gw % lw = 0
    BY DEF HierAccepts
  <2>2. gw \in Nat \ {0} /\ lw \in Nat \ {0}
    <3> HIDE DEF n
    <3>. QED BY <1>1, HierWindows
  <2>. QED BY <2>1, <2>2
<1>3. \A i0 \in 1 .. CeilDiv(n, lw) :
        /\ d[i0] = Minus(low[i0], top[((i0 - 1) * lw) \div gw + 1])
        /\ top[((i0 - 1) * lw) \div gw + 1] \in Word /\ low[i0] \in Word
  BY <1>1, DistancesAre
<1> HIDE DEF gw, lw, d, top
<1>4. k \in 1 .. CeilDiv(n, lw) /\ k - 1 = (j - 1) \div lw
  <2>1. (j - 1) \div lw \in Nat /\ (j - 1) \div lw < CeilDiv(n, lw)
    BY <1>1, <1>2, WindowOfValue
  <2>2. CeilDiv(n, lw) \in Nat
    BY <1>1, <1>2, CeilDivIs
  <2> DEFINE x == (j - 1) \div lw
             y == CeilDiv(n, lw)
  <2>3. x \in Nat /\ x < y /\ y \in Nat
    BY <2>1, <2>2
  <2> HIDE DEF x, y
  <2>4. x + 1 \in 1 .. y /\ (x + 1) - 1 = x
    BY <2>3
  <2>. QED BY <2>4 DEF x, y
<1>5. ((k - 1) * lw) \div gw + 1 = t
  <2> DEFINE x == j - 1
  <2>1. x \in Nat
    BY <1>1
  <2> HIDE DEF x
  <2>2. ((x \div lw) * lw) \div gw = x \div gw
    BY <1>2, <2>1, NestedWindows
  <2>. QED BY ONLY <1>4, <2>2, Zenon DEF x, t
<1>6. Plus(Residuals(b, lw)[j], low[k]) = b[j]
  <2> HIDE DEF n
  <2>. QED BY <1>2, FromAnchor DEF low, k
<1> HIDE DEF k, t, low
<1>7. d[k] = Minus(low[k], top[t]) /\ top[t] \in Word /\ low[k] \in Word
  BY ONLY <1>3, <1>4, <1>5, Zenon
<1>8. Plus(top[t], d[k]) = low[k]
  <2> DEFINE x == low[k]
             y == top[t]
  <2>1. x \in Word /\ y \in Word /\ d[k] = Minus(x, y)
    BY <1>7
  <2> HIDE DEF x, y
  <2>2. Plus(y, Minus(x, y)) = x
    BY <2>1, ResidualRecovered
  <2>. QED BY <2>1, <2>2 DEF x, y
<1>9. Plus(Residuals(b, lw)[j], Plus(top[t], d[k])) = b[j]
  BY <1>6, <1>8
<1>. QED BY ONLY <1>9, Zenon DEF n, gw, lw, top, d, k, t

\* What HierGet makes of the header v and of the data, when the header has
\* the parts of the code of b.
LEMMA HierGetIs ==
  ASSUME NEW c, c.gw \in Nat, c.lw \in Nat, c.sep \in BOOLEAN, NEW b \in Seq(Word),
         HierAccepts(c, Len(b)), NEW w, HierParts(c, b, w), NEW e, NEW v,
         v = (IF c.sep THEN e.meta ELSE e.data),
         HeaderAt(v, LocalBits(LocalDistances(c, b)), Anchors(b, GlobalWindow(c, Len(b))),
                  Pack(LocalDistances(c, b), LocalBits(LocalDistances(c, b)), w)),
         NEW off, off = (IF c.sep THEN 0 ELSE 1 + CeilDiv(Len(b), GlobalWindow(c, Len(b)))
                           + PackedWords(Len(LocalDistances(c, b)), LocalBits(LocalDistances(c, b)))),
         \A j \in 1 .. Len(b) : e.data[off + j] = Residuals(b, LocalWindow(c, Len(b)))[j]
  PROVE  HierGet(c, e, Len(b)) = b
<1> DEFINE n   == Len(b)
           gw  == GlobalWindow(c, n)
           lw  == LocalWindow(c, n)
           top == Anchors(b, gw)
           d   == LocalDistances(c, b)
           bl  == LocalBits(d)
           p   == Pack(d, bl, w)
           ng  == CeilDiv(n, gw)
           nl  == CeilDiv(n, lw)
           pw  == PackedWords(nl, v[1])
           u   == Unpack(SubSeq(v, ng + 2, ng + 1 + pw), nl, v[1])
           o   == IF c.sep THEN 0 ELSE 1 + ng + pw
<1>1. HierGet(c, e, n) =
        [j \in 1 .. n |-> Plus(e.data[o + j], Plus(v[(j - 1) \div gw + 2], u[(j - 1) \div lw + 1]))]
  BY DEF HierGet
<1>2. HierParts(c, b, w)
  OBVIOUS
<1>3. /\ n \in Nat \ {0} /\ gw \in Nat \ {0} /\ lw \in Nat \ {0}
      /\ top \in Seq(Word) /\ Len(top) = ng /\ Len(d) = nl /\ p \in Seq(Word)
      /\ Len(p) = PackedWords(Len(d), bl) /\ Unpack(p, Len(d), bl) = d
  BY ONLY <1>2, Zenon DEF HierParts
<1>4. HeaderAt(v, bl, top, p)
  OBVIOUS
<1>5. \A j \in 1 .. n : e.data[off + j] = Residuals(b, lw)[j]
  OBVIOUS
<1>6. off = IF c.sep THEN 0 ELSE 1 + ng + PackedWords(Len(d), bl)
  OBVIOUS
<1>7. \A j \in 1 .. n : Plus(Residuals(b, lw)[j],
                             Plus(top[(j - 1) \div gw + 1], d[(j - 1) \div lw + 1])) = b[j]
  BY FromBothAnchors
<1>a. b = [j \in 1 .. n |-> b[j]]
  OBVIOUS
<1> HIDE DEF n, gw, lw, top, d, bl, p, ng, nl
<1>8. v[1] = bl
  BY <1>4 DEF HeaderAt
<1>9. SubSeq(v, Len(top) + 2, Len(top) + 1 + Len(p)) = p
  BY <1>3, <1>4, LastPart
<1>10. pw = PackedWords(Len(d), bl) /\ pw = Len(p)
  BY <1>3, <1>8
<1>11. u = d
  BY ONLY <1>3, <1>8, <1>9, <1>10, Zenon
<1>12. o = off
  BY <1>6, <1>10
<1> HIDE DEF u, o, pw
<1>13. \A j \in 1 .. n : v[(j - 1) \div gw + 2] = top[(j - 1) \div gw + 1]
  <2> SUFFICES ASSUME NEW j \in 1 .. n PROVE v[(j - 1) \div gw + 2] = top[(j - 1) \div gw + 1]
    OBVIOUS
  <2> DEFINE x == (j - 1) \div gw
  <2>1. x \in Nat /\ x < ng
    BY <1>3, WindowOfValue DEF ng
  <2>2. ng \in Nat
    BY <1>3, CeilDivIs DEF ng
  <2> HIDE DEF x
  <2>3. x + 1 \in 1 .. Len(top) /\ (x + 1) + 1 = x + 2
    BY <1>3, <2>1, <2>2
  <2>4. v[(x + 1) + 1] = top[x + 1]
    BY ONLY <1>4, <2>3, Zenon DEF HeaderAt
  <2>. QED BY ONLY <2>3, <2>4, Zenon DEF x
<1>14. \A j \in 1 .. n :
         Plus(e.data[o + j], Plus(v[(j - 1) \div gw + 2], u[(j - 1) \div lw + 1])) = b[j]
  BY ONLY <1>5, <1>7, <1>11, <1>12, <1>13, Zenon
<1>15. HierGet(c, e, n) = b
  BY ONLY <1>1, <1>14, <1>a, Zenon
<1>. QED BY <1>15 DEF n

\* The code of the hierarchical codec is a code of the block, whatever the
\* padding holds.
LEMMA HierCodesAre ==
  ASSUME WholeBytes, NEW c, c.kind = "hier", c.gw \in Nat, c.lw \in Nat, c.sep \in BOOLEAN,
         NEW b \in Seq(Word), b # <<>>, HierAccepts(c, Len(b)), NEW w \in Word
  PROVE  CodeOf(c, HierCode(c, b, w), b)
<1> DEFINE n   == Len(b)
           gw  == GlobalWindow(c, n)
           lw  == LocalWindow(c, n)
           top == Anchors(b, gw)
           d   == LocalDistances(c, b)
           bl  == LocalBits(d)
           p   == Pack(d, bl, w)
           ng  == CeilDiv(n, gw)
           nl  == CeilDiv(n, lw)
           pw  == PackedWords(Len(d), bl)
           res == Residuals(b, lw)
           h   == <<bl>> \o top \o p
           e   == HierCode(c, b, w)
<1>1. HierParts(c, b, w)
  BY HierPartsAre
<1>2. /\ n \in Nat \ {0} /\ gw \in Nat \ {0} /\ lw \in Nat \ {0}
      /\ top \in Seq(Word) /\ Len(top) = ng /\ ng \in Nat
      /\ Len(d) = nl /\ nl \in Nat \ {0} /\ bl \in Word
      /\ p \in Seq(Word) /\ Len(p) = pw /\ pw \in 0 .. nl
  BY ONLY <1>1, Zenon DEF HierParts
<1>3. e = IF c.sep THEN [data |-> res, meta |-> h] ELSE [data |-> h \o res, meta |-> <<>>]
  BY DEF HierCode
<1>4. res \in Seq(Word) /\ Len(res) = n
  <2> HIDE DEF lw
  <2>. QED BY <1>2, AnchorsAreWords
<1>5. Room(c, n) = IF c.sep THEN [data |-> n, meta |-> 1 + ng + nl]
                            ELSE [data |-> n + (1 + ng + nl), meta |-> 0]
  BY DEF Room, HierAlloc
<1>6. KeptApart(c) <=> c.sep
  BY DEF KeptApart
<1>7. \A o0 : /\ o0 = (IF c.sep THEN 0 ELSE 1 + ng + pw)
              /\ \A j \in 1 .. n : e.data[o0 + j] = res[j]
              /\ HeaderAt(IF c.sep THEN e.meta ELSE e.data, bl, top, p)
            => HierGet(c, e, n) = b
  <2> SUFFICES ASSUME NEW o0, o0 = (IF c.sep THEN 0 ELSE 1 + ng + pw),
                      \A j \in 1 .. n : e.data[o0 + j] = res[j],
                      HeaderAt(IF c.sep THEN e.meta ELSE e.data, bl, top, p)
               PROVE  HierGet(c, e, n) = b
    OBVIOUS
  <2> DEFINE v == IF c.sep THEN e.meta ELSE e.data
  <2>1. HeaderAt(v, bl, top, p) /\ v = IF c.sep THEN e.meta ELSE e.data
    OBVIOUS
  <2> HIDE DEF v, e
  <2>. QED BY <1>1, <2>1, HierGetIs
<1> HIDE DEF n, gw, lw, top, d, bl, p, ng, nl, pw, res, e
<1>8. h \in Seq(Word) /\ Len(h) = 1 + ng + pw /\ HeaderAt(h, bl, top, p)
  <2>1. h \in Seq(Word) /\ Len(h) = 1 + Len(top) + Len(p) /\ HeaderAt(h, bl, top, p)
    BY <1>2, HeaderIs
  <2>. QED BY <1>2, <2>1
<1> HIDE DEF h
<1>9. pw \in Nat /\ pw <= nl /\ n \in Nat /\ ng \in Nat /\ nl \in Nat
  BY <1>2
<1>10. CASE c.sep
  <2>1. e = [data |-> res, meta |-> h] /\ e.data = res /\ e.meta = h
    BY <1>3, <1>10
  <2>2. e \in States
    BY <1>4, <1>8, <2>1 DEF States
  <2>3. Len(e.data) <= Room(c, n).data /\ Len(e.meta) <= Room(c, n).meta
    <3>1. Room(c, n).data = n /\ Room(c, n).meta = 1 + ng + nl
      BY <1>5, <1>10
    <3>. QED BY <1>4, <1>8, <1>9, <2>1, <3>1
  <2>4. \A j \in 1 .. n : e.data[0 + j] = res[j]
    <3>1. \A j \in 1 .. n : 0 + j = j
      BY <1>9
    <3>. QED BY ONLY <2>1, <3>1, Zenon
  <2>5. HierGet(c, e, n) = b
    BY ONLY <1>7, <1>8, <1>10, <2>1, <2>4, Zenon
  <2>6. Get(c, e, n) = b
    BY <2>5 DEF Get
  <2>. QED BY <1>6, <1>10, <2>2, <2>3, <2>6 DEF CodeOf, e, n
<1>11. CASE ~c.sep
  <2>1. e = [data |-> h \o res, meta |-> <<>>] /\ e.data = h \o res /\ e.meta = <<>>
    BY <1>3, <1>11
  <2>2. Concatenated(h, res) /\ HeaderAt(h \o res, bl, top, p)
    <3>1. Len(h) = 1 + Len(top) + Len(p)
      BY <1>2, <1>8
    <3>. QED BY <1>2, <1>4, <1>8, <3>1, HeaderInFront
  <2>3. h \o res \in Seq(Word) /\ Len(h \o res) = (1 + ng + pw) + n
    BY <1>4, <1>8, <2>2 DEF Concatenated
  <2> DEFINE t == h \o res
  <2>4. \A j \in 1 .. n : t[(1 + ng + pw) + j] = res[j]
    BY ONLY <1>4, <1>8, <2>2, Zenon DEF Concatenated
  <2>5. t \in Seq(Word) /\ Len(t) <= n + (1 + ng + nl) /\ n + (1 + ng + nl) \in Nat
    <3> HIDE DEF t
    <3>1. t \in Seq(Word) /\ Len(t) = (1 + ng + pw) + n
      BY <2>3 DEF t
    <3>. QED BY <1>9, <3>1
  <2> HIDE DEF t
  <2>6. e = [data |-> t, meta |-> <<>>] /\ e.data = t
    BY <2>1 DEF t
  <2> DEFINE m == n + (1 + ng + nl)
  <2>7. m \in Nat /\ Len(t) <= m
    BY <2>5
  <2> HIDE DEF m
  <2>8. e \in States /\ e.meta = <<>> /\ Len(e.data) <= m /\ Len(e.meta) <= 0
    BY <2>5, <2>6, <2>7, DataIsState
  <2>9. Room(c, n).data = m /\ Room(c, n).meta = 0
    BY <1>5, <1>11 DEF m
  <2>10. HeaderAt(t, bl, top, p)
    BY <2>2 DEF t
  <2>11. HierGet(c, e, n) = b
    BY ONLY <1>7, <1>11, <2>4, <2>6, <2>10, Zenon
  <2>12. Get(c, e, n) = b
    BY <2>11 DEF Get
  <2>. QED BY <2>8, <2>9, <2>12 DEF CodeOf, e, n
<1>12. c.sep \in BOOLEAN
  OBVIOUS
<1>. QED BY <1>10, <1>11, <1>12

\* A code made where another one was, or on an empty object, is a code made anew.
Anew(c, s, b) == Put(c, s, b) \in Encodings(c, b)

\* The codecs whose code of a block is the same whatever was there.
LEMMA OneCode ==
  ASSUME NEW c, c.kind # "hier", NEW s, NEW b, Put(c, s, b) = Put(c, Fresh, b)
  PROVE  Anew(c, s, b)
BY DEF Anew, Encodings

\* What an object has before it takes a block: nothing, or the code of the last.
Ready(c, s, b) ==
  \/ s.data = <<>>
  \/ \E a \in Seq(Word) : /\ a # <<>>
                          /\ Accepts(c, a)
                          /\ Reusable(c, Len(a), b)
                          /\ s \in Encodings(c, a)

\* Every class codes as a new object does, and a new object's code gives the block back.
LEMMA Taken ==
  ASSUME WholeBytes, NEW c, Settings(c), NEW s \in States, ~KeptApart(c) => s.meta = <<>>,
         NEW b \in Seq(Word), b # <<>>, Accepts(c, b), c.kind = "vrle" => Ready(c, s, b)
  PROVE  /\ Anew(c, s, b)
         /\ c.kind # "hier" => CodeOf(c, Put(c, s, b), b)
<1>1. CASE c.kind = "delta"
  <2>1. s.meta = <<>>
    BY <1>1 DEF KeptApart
  <2>. QED BY <1>1, <2>1, DeltaCodes, OneCode
<1>2. CASE c.kind = "double"
  <2>1. s.meta = <<>>
    BY <1>2 DEF KeptApart
  <2>. QED BY <1>2, <2>1, DoubleDeltaCodes, OneCode
<1>3. CASE c.kind = "for"
  <2>1. c.w \in Nat /\ c.sep \in BOOLEAN
    BY <1>3 DEF Settings
  <2>2. ~c.sep => s.meta = <<>>
    BY <1>3 DEF KeptApart
  <2>. QED BY <1>3, <2>1, <2>2, FORCodesAre, OneCode
<1>4. CASE c.kind = "hier"
  <2>1. c.gw \in Nat /\ c.lw \in Nat /\ c.sep \in BOOLEAN
    BY <1>4 DEF Settings
  <2>2. ~c.sep => s.meta = <<>>
    BY <1>4 DEF KeptApart
  <2>3. \E w \in Word : HierPut(c, s, b) = HierCode(c, b, w)
    BY <2>1, <2>2, HierPutIs
  <2>4. Put(c, s, b) = HierPut(c, s, b)
    BY <1>4 DEF Put
  <2>5. Encodings(c, b) = {HierCode(c, b, w) : w \in Word}
    BY <1>4 DEF Encodings
  <2>. QED BY ONLY <1>4, <2>3, <2>4, <2>5, Zenon DEF Anew
<1>5. CASE c.kind \in {"rle", "rle8"}
  <2>1. s.meta = <<>>
    BY <1>5 DEF KeptApart
  <2>. QED BY <1>5, <2>1, RunLengthCodes, OneCode
<1>6. CASE c.kind = "predict"
  <2>1. s.meta = <<>> /\ c.predictor \in Predictors
    BY <1>6 DEF KeptApart, Settings
  <2>. QED BY <1>6, <2>1, PredictiveCodes, OneCode
<1>7. CASE c.kind = "vdelta"
  <2>1. s.meta = <<>> /\ c.isa \in InstructionSets /\ c.lanes \in Nat \ {0} /\ VectorAccepts(c, b)
    BY <1>7 DEF KeptApart, Settings, Vectorised, Accepts
  <2>. QED BY <1>7, <2>1, VectorDeltaCodesAre, OneCode
<1>8. CASE c.kind = "vfor"
  <2>1. s.meta = <<>> /\ c.isa \in InstructionSets /\ c.lanes \in Nat \ {0} /\ VectorAccepts(c, b)
    BY <1>8 DEF KeptApart, Settings, Vectorised, Accepts
  <2>. QED BY <1>8, <2>1, VectorFORCodesAre, OneCode
<1>9. CASE c.kind = "vrle"
  <2>1. s.meta = <<>> /\ c.isa \in InstructionSets /\ c.lanes \in Nat \ {0} /\ VectorAccepts(c, b)
    BY <1>9 DEF KeptApart, Settings, Vectorised, Accepts
  <2>2. \E a \in Seq(Word) : VectorAccepts(c, a) /\ Len(a) = Len(b)
                             /\ (s.data = <<>> \/ s = Put(c, Fresh, a))
    <3>1. CASE s.data = <<>>
      BY <2>1, <3>1
    <3>2. ASSUME NEW a \in Seq(Word), Accepts(c, a), Reusable(c, Len(a), b), s \in Encodings(c, a)
          PROVE  VectorAccepts(c, a) /\ Len(a) = Len(b) /\ s = Put(c, Fresh, a)
      BY <1>9, <3>2 DEF Accepts, Reusable, Encodings, Vectorised
    <3>. QED BY <1>9, <3>1, <3>2 DEF Ready
  <2>. QED BY <1>9, <2>1, <2>2, VectorRLECodesAre, OneCode
<1>. QED BY <1>1, <1>2, <1>3, <1>4, <1>5, <1>6, <1>7, <1>8, <1>9 DEF Settings

\* Whatever padding it has, a code decodes to its block.
LEMMA CodesAre ==
  ASSUME WholeBytes, NEW c, Settings(c), NEW b \in Seq(Word), b # <<>>, Accepts(c, b),
         NEW e \in Encodings(c, b)
  PROVE  CodeOf(c, e, b)
<1>1. CASE c.kind = "hier"
  <2>1. c.gw \in Nat /\ c.lw \in Nat /\ c.sep \in BOOLEAN /\ HierAccepts(c, Len(b))
    BY <1>1 DEF Settings, Accepts
  <2>2. \A w \in Word : CodeOf(c, HierCode(c, b, w), b)
    BY <1>1, <2>1, HierCodesAre
  <2>3. PICK w \in Word : e = HierCode(c, b, w)
    BY <1>1 DEF Encodings
  <2>. QED BY ONLY <2>2, <2>3, Zenon
<1>2. CASE c.kind # "hier"
  <2>1. e = Put(c, Fresh, b)
    BY <1>2 DEF Encodings
  <2>2. Fresh \in States /\ Fresh.meta = <<>> /\ Ready(c, Fresh, b)
    BY FreshIsState DEF Ready
  <2>3. CodeOf(c, Put(c, Fresh, b), b)
    BY <1>2, <2>2, Taken
  <2>. QED BY <2>1, <2>3
<1>. QED BY <1>1, <1>2

----------------------------------------------------------------------------
(* One object over its life *)

\* The object holds a code of its block, or nothing but a side vector.
ObjectInv ==
  /\ codec \in Codecs
  /\ st \in States
  /\ ~KeptApart(codec) => st.meta = <<>>
  /\ block \in Blocks \cup {<<>>}
  /\ block = <<>> => st.data = <<>>
  /\ block # <<>> => Accepts(codec, block) /\ st \in Encodings(codec, block)
  /\ out # <<>> => out = block

\* The code that the object holds is one of its block.
LEMMA Held ==
  ASSUME ObjectInv, block # <<>>
  PROVE  CodeOf(codec, st, block)
<1>1. Settings(codec) /\ block \in Seq(Word) /\ Accepts(codec, block) /\ st \in Encodings(codec, block)
  BY SettingsAssumption, BlocksAssumption DEF ObjectInv
<1>2. WholeBytes
  BY WholeBytesAssumption DEF WholeBytes
<1>. QED BY <1>1, <1>2, CodesAre

\* A new object satisfies the invariant.
LEMMA ObjectInit == Init => ObjectInv
BY FreshIsState DEF Init, ObjectInv

\* Encoding, decoding and resetting keep the invariant.
LEMMA ObjectStep == ObjectInv /\ [Next]_vars => ObjectInv'
<1> SUFFICES ASSUME ObjectInv, [Next]_vars
             PROVE  ObjectInv'
  OBVIOUS
<1>1. ASSUME NEW b \in Blocks, Encode(b)
      PROVE  ObjectInv'
  <2>1. b \in Seq(Word) /\ b # <<>> /\ Settings(codec) /\ Accepts(codec, b)
    BY <1>1, SettingsAssumption, BlocksAssumption DEF Encode, ObjectInv
  <2>2. WholeBytes
    BY WholeBytesAssumption DEF WholeBytes
  <2>3. Ready(codec, st, b)
    <3>1. CASE block = <<>>
      BY <3>1 DEF ObjectInv, Ready
    <3>2. CASE block # <<>>
      <4>1. block \in Seq(Word) /\ Accepts(codec, block) /\ st \in Encodings(codec, block)
        BY <3>2, BlocksAssumption DEF ObjectInv
      <4>2. Reusable(codec, Len(block), b)
        BY <1>1, <3>2 DEF Encode
      <4>. QED BY <3>2, <4>1, <4>2 DEF Ready
    <3>. QED BY <3>1, <3>2
  <2>4. Anew(codec, st, b)
    BY <2>1, <2>2, <2>3, Taken DEF ObjectInv
  <2>5. st' = Put(codec, st, b) /\ block' = b /\ out' = <<>> /\ codec' = codec
    BY <1>1 DEF Encode
  <2>6. st' \in Encodings(codec, b)
    BY <2>4, <2>5 DEF Anew
  <2>7. CodeOf(codec, st', b)
    BY <2>1, <2>2, <2>6, CodesAre
  <2>8. st' \in States /\ (~KeptApart(codec) => st'.meta = <<>>)
    BY <2>7 DEF CodeOf
  <2>. QED BY ONLY <1>1, <2>1, <2>5, <2>6, <2>8, ObjectInv DEF ObjectInv
<1>2. ASSUME Decode
      PROVE  ObjectInv'
  <2>1. CodeOf(codec, st, block)
    BY <1>2, Held DEF Decode
  <2>2. out' = block
    BY <1>2, <2>1 DEF Decode, CodeOf
  <2>. QED BY <1>2, <2>2 DEF ObjectInv, Decode
<1>3. ASSUME Clear
      PROVE  ObjectInv'
  <2>1. st' \in States /\ st'.meta = st.meta /\ st'.data = <<>>
    <3>1. <<>> \in Seq(Word)
      OBVIOUS
    <3> DEFINE z == <<>>
    <3> HIDE DEF z
    <3>2. st' = [st EXCEPT !.data = z] /\ st \in States /\ z \in Seq(Word)
      BY <1>3, <3>1 DEF Clear, ObjectInv, z
    <3>3. st' \in States /\ st'.meta = st.meta /\ st'.data = z
      BY ONLY <3>2 DEF States
    <3>. QED BY <3>3 DEF z
  <2>2. block' = <<>> /\ out' = <<>> /\ codec' = codec
    BY <1>3 DEF Clear
  <2>. QED BY <2>1, <2>2 DEF ObjectInv
<1>4. ASSUME CloneFresh
      PROVE  ObjectInv'
  <2>1. st' \in States /\ st'.meta = <<>> /\ st'.data = <<>>
    BY <1>4, FreshIsState DEF CloneFresh
  <2>2. block' = <<>> /\ out' = <<>> /\ codec' = codec
    BY <1>4 DEF CloneFresh
  <2>. QED BY <2>1, <2>2 DEF ObjectInv
<1>5. CASE UNCHANGED vars
  BY <1>5 DEF ObjectInv, vars
<1>. QED BY <1>1, <1>2, <1>3, <1>4, <1>5 DEF Next

\* The invariant holds throughout the object's life.
LEMMA ObjectAlways == Spec => []ObjectInv
BY ObjectInit, ObjectStep, PTL DEF Spec

\* Every vector of every object holds words, whatever is done to it.
THEOREM ObjectTypes == Spec => []TypeOK
<1>1. ObjectInv => TypeOK
  <2> SUFFICES ASSUME ObjectInv
               PROVE  TypeOK
    OBVIOUS
  <2>1. out \in Seq(Word)
    <3>1. <<>> \in Seq(Word)
      OBVIOUS
    <3>. QED BY <3>1, BlocksAssumption DEF ObjectInv
  <2>2. st.data \in Seq(Word) /\ st.meta \in Seq(Word)
    BY DEF ObjectInv, States
  <2>3. \A s \in {st.data, st.meta, out} : \A k \in DOMAIN s : s[k] \in Word
    <3>1. \A s \in Seq(Word) : \A k \in DOMAIN s : s[k] \in Word
      OBVIOUS
    <3>. QED BY ONLY <2>1, <2>2, <3>1, Zenon
  <2>. QED BY <2>3 DEF ObjectInv, TypeOK
<1>. QED BY <1>1, ObjectAlways, PTL

\* What is read back is what was put in.
THEOREM ObjectRoundTrip == Spec => []RoundTrip
<1>1. ObjectInv => RoundTrip
  BY DEF ObjectInv, RoundTrip
<1>. QED BY <1>1, ObjectAlways, PTL

\* A used object codes as a new one.
THEOREM ObjectHistoryFree == Spec => []HistoryFree
<1>1. ObjectInv => HistoryFree
  BY DEF ObjectInv, HistoryFree
<1>. QED BY <1>1, ObjectAlways, PTL

\* What is written by index has been allocated.
THEOREM ObjectFits == Spec => []FitsAllocation
<1>1. ObjectInv => FitsAllocation
  <2>1. ASSUME ObjectInv, block # <<>>
        PROVE  /\ Len(st.data) <= Room(codec, Len(block)).data
               /\ Len(st.meta) <= Room(codec, Len(block)).meta
    BY <2>1, Held DEF CodeOf
  <2>. QED BY <2>1 DEF FitsAllocation
<1>. QED BY <1>1, ObjectAlways, PTL

----------------------------------------------------------------------------
(***************************************************************************)
(* The first codecs of a composite.  CompositeCodec assumes of PutFirst,   *)
(* GetFirst and CodesOfFirst what Put, Get and Encodings do here, of every *)
(* state that the composite may leave in a first codec's vectors and more. *)
(***************************************************************************)

\* Whatever words the composite has left in its vectors, a first codec codes as
\* a new object does (OverwriteAssumption).  Vectorised run lengths, which
\* resize without clearing, are left out; the collection cascades none.
THEOREM FirstCodecsOverwrite ==
  ASSUME NEW c, Settings(c), c.kind # "vrle",
         NEW s \in States, ~KeptApart(c) => s.meta = <<>>,
         NEW b \in Seq(Word), b # <<>>, Accepts(c, b)
  PROVE  Put(c, s, b) \in Encodings(c, b)
<1>1. WholeBytes
  BY WholeBytesAssumption DEF WholeBytes
<1>2. Anew(c, s, b)
  BY <1>1, Taken
<1>. QED BY <1>2 DEF Anew

\* A first codec decodes each of its codes of a block into the block, and they
\* are words (InverseAssumption, VectorsAssumption), in a side vector only if
\* the class has one.
THEOREM FirstCodecsInvert ==
  ASSUME NEW c, Settings(c), NEW b \in Seq(Word), b # <<>>, Accepts(c, b),
         NEW e \in Encodings(c, b)
  PROVE  /\ Get(c, e, Len(b)) = b
         /\ e \in [data : Seq(Word), meta : Seq(Word)]
         /\ ~KeptApart(c) => e.meta = <<>>
<1>1. WholeBytes
  BY WholeBytesAssumption DEF WholeBytes
<1>2. CodeOf(c, e, b)
  BY <1>1, CodesAre
<1>. QED BY <1>2 DEF CodeOf, States

----------------------------------------------------------------------------
(* The int32_t codecs *)

\* What the run lengths of a block stand for.
LEMMA RunsAre32 ==
  ASSUME NEW b \in Seq(Word), Len(b) < WordSize
  PROVE  /\ Even(RLECode(b)) /\ Len(RLECode(b)) <= 2 * Len(b)
         /\ FlattenSeq(Expand(RLECode(b), 0)) = b
<1> DEFINE n == Len(b)
           end == [k \in 1 .. n |-> RunEnd(b, k)]
           ch == [k \in 1 .. n |-> <<b[k], (RunEnd(b, k) - k) % WordSize>>]
           P(g) == g = [i0 \in 1 .. n + 1 |->
                          IF i0 > n THEN <<>>
                          ELSE <<b[i0], (RunEnd(b, i0) - i0) % WordSize>> \o g[RunEnd(b, i0)]]
<1>0. n \in Nat /\ \A k \in 1 .. n : b[k] \in Word
  OBVIOUS
<1>1. RLECode(b) = (CHOOSE g : P(g))[1]
  BY DEF RLECode
<1>2. \A k \in 1 .. n : end[k] = RunEnd(b, k) /\ ch[k] = <<b[k], (RunEnd(b, k) - k) % WordSize>>
  OBVIOUS
<1> HIDE DEF end, ch
<1>3. RunsAt(b, end, ch, 0) /\ EndsBehind(n, end, ch)
  <2>1. ASSUME NEW k \in 1 .. n
        PROVE  /\ end[k] \in k + 1 .. n + 1
               /\ \A j \in k .. end[k] - 1 : b[j] = b[k]
               /\ Even(ch[k]) /\ Len(ch[k]) <= 2 * (end[k] - k)
               /\ FlattenSeq(Expand(ch[k], 0)) = Repeated(b[k], end[k] - k)
               /\ ch[k] \in Seq(Word)
    <3>1. end[k] \in k + 1 .. n + 1 /\ \A j \in k .. end[k] - 1 : b[j] = b[k]
      BY <1>2, RunEndIs
    <3> DEFINE v == b[k]
               run == end[k] - k
    <3>2. v \in Word /\ run \in Nat \ {0} /\ run <= n /\ WordSize \in Nat /\ run + 0 = run
      BY <1>0, <3>1, HalfAssumption DEF WordSize
    <3>3. ch[k] = <<v, run % WordSize>>
      BY <1>2
    <3> HIDE DEF v, run
    <3>4. run < WordSize
      BY <1>0, <3>2
    <3>5. run % WordSize = run
      BY ONLY <3>2, <3>4, WrapOnce
    <3>6. run \in Word
      BY ONLY <3>2, <3>4 DEF Word
    <3>7. 0 \in Nat
      OBVIOUS
    <3>8. /\ Even(<<v, run>>) /\ Len(<<v, run>>) = 2
          /\ FlattenSeq(Expand(<<v, run>>, 0)) = Repeated(v, run + 0)
      BY ONLY <3>2, <3>6, <3>7, ExpandPair
    <3>9. ch[k] = <<v, run>> /\ 2 <= 2 * run
      BY <3>2, <3>3, <3>5
    <3>10. /\ Even(ch[k]) /\ Len(ch[k]) <= 2 * run
           /\ FlattenSeq(Expand(ch[k], 0)) = Repeated(v, run)
           /\ ch[k] \in Seq(Word)
      <4>1. ch[k] \in Seq(Word)
        BY <3>8, <3>9 DEF Even
      <4>. QED BY ONLY <3>2, <3>8, <3>9, <4>1, Zenon
    <3>. QED BY ONLY <3>1, <3>10 DEF v, run
  <2>. QED BY <2>1 DEF RunsAt, EndsBehind
<1> DEFINE g == CHOOSE g : P(g)
<1>4. P(g)
  <2>1. PICK f \in [1 .. n + 1 -> Seq(Word)] : Backwards(f, n, end, ch)
    BY <1>0, <1>3, BackwardsExists
  <2>2. f = [k \in 1 .. n + 1 |-> f[k]]
    OBVIOUS
  <2>3. \A k \in 1 .. n + 1 :
          f[k] = IF k > n THEN <<>> ELSE <<b[k], (RunEnd(b, k) - k) % WordSize>> \o f[RunEnd(b, k)]
    <3> SUFFICES ASSUME NEW k \in 1 .. n + 1
                 PROVE  f[k] = IF k > n THEN <<>>
                               ELSE <<b[k], (RunEnd(b, k) - k) % WordSize>> \o f[RunEnd(b, k)]
      OBVIOUS
    <3>1. CASE k > n
      <4>1. k = n + 1
        BY <1>0, <3>1
      <4>. QED BY <2>1, <3>1, <4>1 DEF Backwards
    <3>2. CASE ~(k > n)
      <4>1. k \in 1 .. n
        BY <1>0, <3>2
      <4>. QED BY <1>2, <2>1, <3>2, <4>1 DEF Backwards
    <3>. QED BY <3>1, <3>2
  <2>4. P(f)
    <3> HIDE DEF n
    <3>1. f = [k \in 1 .. n + 1 |->
                 IF k > n THEN <<>> ELSE <<b[k], (RunEnd(b, k) - k) % WordSize>> \o f[RunEnd(b, k)]]
      BY ONLY <2>2, <2>3, Zenon
    <3>. QED BY ONLY <3>1
  <2> HIDE DEF P
  <2>. QED BY <2>4
<1>5. Backwards(g, n, end, ch)
  <2>1. g = [k \in 1 .. n + 1 |->
               IF k > n THEN <<>> ELSE <<b[k], (RunEnd(b, k) - k) % WordSize>> \o g[RunEnd(b, k)]]
    BY <1>4
  <2> HIDE DEF g, n
  <2>2. \A k \in 1 .. n + 1 :
          g[k] = IF k > n THEN <<>> ELSE <<b[k], (RunEnd(b, k) - k) % WordSize>> \o g[RunEnd(b, k)]
    BY ONLY <2>1
  <2>3. n + 1 \in 1 .. n + 1 /\ n + 1 > n
    BY <1>0
  <2>4. \A k \in 1 .. n : k \in 1 .. n + 1 /\ ~(k > n)
    BY <1>0
  <2>5. g[n + 1] = <<>>
    BY ONLY <2>2, <2>3, Zenon
  <2>6. \A k \in 1 .. n : g[k] = ch[k] \o g[end[k]]
    BY ONLY <1>2, <2>2, <2>4, Zenon
  <2>. QED BY <2>5, <2>6 DEF Backwards
<1> HIDE DEF g, P
<1>6. /\ Even(g[1]) /\ Len(g[1]) <= 2 * Len(b)
      /\ FlattenSeq(Expand(g[1], 0)) = b
  BY <1>3, <1>5, BackwardsDecodes
<1>. QED BY <1>1, <1>6 DEF g

\* The int32_t run lengths: behind an empty run the vector stands for the block.
LEMMA RunsDecode32 ==
  ASSUME NEW b \in Seq(Word), Len(b) < WordSize
  PROVE  RLEDecoded(<<0, 0>> \o RLECode(b)) = b
<1> DEFINE z == Repeated(0, 2)
           p == RLECode(b)
           d == z \o p
<1>1. Repeated(0, 2) = <<0, 0>>
  BY DEF Repeated
<1>2. Even(z) /\ FlattenSeq(Expand(z, 0)) = <<>>
  <2>1. 1 \in Nat /\ 2 * 1 = 2
    OBVIOUS
  <2>2. Even(Repeated(0, 2 * 1)) /\ FlattenSeq(Expand(Repeated(0, 2 * 1), 0)) = <<>>
    BY <2>1, EmptyRuns
  <2>. QED BY ONLY <2>1, <2>2, Zenon DEF z
<1>3. Even(p) /\ FlattenSeq(Expand(p, 0)) = b
  BY RunsAre32
<1> HIDE DEF p, z
<1>4. Even(d)
  BY <1>2, <1>3, EvenConcat
<1>5. FlattenSeq(Expand(d, 0)) = FlattenSeq(Expand(z, 0)) \o FlattenSeq(Expand(p, 0))
  <2>1. 0 \in Nat
    OBVIOUS
  <2>. QED BY <1>2, <1>3, <2>1, ExpandConcat
<1> HIDE DEF d
<1>6. RLEDecoded(d) = FlattenSeq(Expand(d, 0))
  <2>2. PICK r \in Nat : Len(d) = 2 * r
    BY <1>4 DEF Even
  <2>3. \A k \in 1 .. Len(d) \div 2 : d[2 * k] + 0 = d[2 * k]
    <3>1. \A k \in 1 .. Len(d) \div 2 : 2 * k \in 1 .. Len(d)
      BY <2>2
    <3>2. \A k \in 1 .. Len(d) : d[k] \in Int
      <4>1. \A k \in 1 .. Len(d) : d[k] \in Word
        BY <1>4 DEF Even
      <4>. QED BY <4>1 DEF Word
    <3>3. \A x \in Int : x + 0 = x
      OBVIOUS
    <3>. QED BY ONLY <3>1, <3>2, <3>3, Zenon
  <2>4. Expand(d, 0) = [k \in 1 .. Len(d) \div 2 |-> [j \in 1 .. d[2 * k] |-> d[2 * k - 1]]]
    BY <2>3 DEF Expand
  <2>. QED BY <2>4 DEF RLEDecoded
<1>7. <<>> \o b = b
  OBVIOUS
<1>8. RLEDecoded(d) = b
  BY ONLY <1>2, <1>3, <1>5, <1>6, <1>7, Zenon
<1>. QED BY <1>1, <1>8 DEF d, z, p

\* A block has a least word, as signed words go.
LEMMA LeastSignedIsWord ==
  ASSUME NEW b \in Seq(Word), b # <<>>
  PROVE  LeastSigned(b) \in Word
<1> DEFINE S == ToSet(b)
           f == [x \in S |-> Signed(x)]
           T == {f[x] : x \in S}
           P(x) == \A y \in S : Signed(x) <= Signed(y)
<1>0. DOMAIN b = 1 .. Len(b) /\ Len(b) \in Nat \ {0} /\ \A j \in 1 .. Len(b) : b[j] \in Word
  OBVIOUS
<1>1. S \in SUBSET Word /\ S # {} /\ S = {b[j] : j \in 1 .. Len(b)}
  BY <1>0 DEF ToSet
<1>2. IsFiniteSet(S)
  <2>1. IsFiniteSet(1 .. Len(b))
    <3>1. 1 \in Int /\ Len(b) \in Int
      BY <1>0
    <3>. QED BY <3>1, FS_Interval
  <2>. QED BY <1>1, <2>1, FiniteImage
<1> HIDE DEF S
<1>3. \A x \in S : f[x] = Signed(x) /\ f[x] \in Int
  BY <1>1, HalfAssumption DEF Signed, Word, WordSize
<1>4. IsFiniteSet(T)
  BY <1>2, FiniteImage
<1>5. T \in SUBSET Int /\ T # {}
  BY <1>1, <1>3
<1>6. Min(T) \in T /\ \A y \in T : Min(T) <= y
  BY ONLY <1>4, <1>5, MinIsLeast
<1>7. PICK x \in S : Min(T) = f[x]
  BY <1>6
<1>8. \E x0 \in S : P(x0)
  <2>1. \A y \in S : f[y] \in T
    OBVIOUS
  <2>2. \A y \in S : Signed(x) <= Signed(y)
    BY ONLY <1>3, <1>6, <1>7, <2>1, Zenon
  <2>. QED BY <2>2
<1>9. LeastSigned(b) = CHOOSE x0 \in S : P(x0)
  BY DEF LeastSigned, S
<1> HIDE DEF P
<1>10. LeastSigned(b) \in S
  BY <1>8, <1>9
<1>. QED BY <1>1, <1>10

\* The sum of words does not depend on their order.
LEMMA PlusCommutes == \A a \in Word, d \in Word : Plus(a, d) = Plus(d, a)
<1>1. \A a \in Word, d \in Word : a + d = d + a
  BY DEF Word
<1>. QED BY <1>1 DEF Plus

\* The int32_t frame of reference gives the block back.
LEMMA FORDecodes32 ==
  ASSUME NEW b \in Seq(Word), b # <<>>
  PROVE  FORCode(b) \in Seq(Word) /\ FORDecoded(FORCode(b), Len(b)) = b
<1> DEFINE r == LeastSigned(b)
           e == FORCode(b)
           n == Len(b)
<1>0. n \in Nat /\ DOMAIN b = 1 .. n /\ (\A j \in 1 .. n : b[j] \in Word) /\ b = [j \in 1 .. n |-> b[j]]
  OBVIOUS
<1>1. r \in Word
  BY LeastSignedIsWord
<1>2. e = <<r>> \o RestZigzag(b, r)
  BY <1>0 DEF FORCode, RestZigzag
<1> HIDE DEF r, e
<1>3. /\ e \in Seq(Word) /\ e[1] = r
      /\ \A j \in 1 .. n : e[j + 1] = ZigzagEnc16(Minus(b[j], r))
  BY ONLY <1>1, <1>2, ReferenceAndRest, b \in Seq(Word), Zenon
<1>4. \A j \in 1 .. n : Plus(ZigzagDec16(e[j + 1]), e[1]) = b[j]
  <2> SUFFICES ASSUME NEW j \in 1 .. n PROVE Plus(ZigzagDec16(e[j + 1]), e[1]) = b[j]
    OBVIOUS
  <2> DEFINE x == b[j]
             d == ZigzagDec16(ZigzagEnc16(Minus(x, r)))
  <2>1. x \in Word
    BY <1>0
  <2>2. Plus(r, d) = x
    BY ONLY <1>1, <2>1, ResidualRecovered, Zenon
  <2>3. d \in Word
    BY <1>1, <2>1, WordsClosed
  <2>4. Plus(d, r) = Plus(r, d)
    BY ONLY <1>1, <2>3, PlusCommutes, Zenon
  <2>5. e[j + 1] = ZigzagEnc16(Minus(x, r))
    BY <1>3
  <2>. QED BY ONLY <1>3, <2>2, <2>4, <2>5, Zenon
<1>5. FORDecoded(e, n) = [j \in 1 .. n |-> b[j]]
  BY <1>4 DEF FORDecoded
<1>. QED BY <1>0, <1>3, <1>5 DEF e, n

----------------------------------------------------------------------------
(* One int32_t object *)

\* An empty run in front of the codes of a run length codec.
Leads(v) == Resize(v, 2) = <<0, 0>>

\* The blocks of the benchmark.
ShortBlock(b) == b \in Seq(Word) /\ Len(b) \in 1 .. Half - 1

\* What AllocEncoded and EncodeArray leave in a vector that held v.
Encoded32(c, v, b) == EncodeArray(c, AllocEncoded(c, v, Len(b)), b)

\* What they leave in the vector of a new object.
FreshCode(c, b) == Encoded32(c, <<>>, b)

\* An empty vector, grown, leads with zeros.
LEMMA LeadsEmpty == Leads(<<>>)
BY DEF Leads, Resize

\* Resizing keeps what the vector leads with.
LEMMA LeadsResized ==
  ASSUME NEW v \in Seq(Word), Leads(v), NEW m \in Nat
  PROVE  Leads(Resize(v, m)) /\ Resize(v, m) \in Seq(Word)
<1> DEFINE u == Resize(v, m)
<1>1. 0 \in Word
  BY HalfAssumption DEF Word, WordSize
<1>2. Len(v) \in Nat /\ \A k \in 1 .. Len(v) : v[k] \in Word
  OBVIOUS
<1>3. u \in Seq(Word) /\ Len(u) = m /\ \A k \in 1 .. m : u[k] = IF k <= Len(v) THEN v[k] ELSE 0
  BY <1>1, <1>2 DEF Resize
<1>4. \A k \in 1 .. 2 : (IF k <= Len(v) THEN v[k] ELSE 0) = 0
  <2>1. Resize(v, 2) = <<0, 0>>
    BY DEF Leads
  <2>2. \A k \in 1 .. 2 : Resize(v, 2)[k] = IF k <= Len(v) THEN v[k] ELSE 0
    BY DEF Resize
  <2>3. \A k \in 1 .. 2 : <<0, 0>>[k] = 0
    OBVIOUS
  <2>. QED BY <2>1, <2>2, <2>3
<1> HIDE DEF u
<1>5. \A k \in 1 .. 2 : (IF k <= Len(u) THEN u[k] ELSE 0) = 0
  BY <1>3, <1>4
<1>6. Resize(u, 2) = [k \in 1 .. 2 |-> 0]
  BY <1>5 DEF Resize
<1>7. [k \in 1 .. 2 |-> 0] = <<0, 0>>
  OBVIOUS
<1>. QED BY <1>3, <1>6, <1>7 DEF Leads, u

\* A vector that begins with two zeros leads with zeros.
LEMMA LeadsInFront ==
  ASSUME NEW t \in Seq(Word)
  PROVE  Leads(<<0, 0>> \o t) /\ <<0, 0>> \o t \in Seq(Word)
<1> DEFINE z == <<0, 0>>
           u == z \o t
<1>1. z \in Seq(Word) /\ Len(z) = 2 /\ z[1] = 0 /\ z[2] = 0
  BY HalfAssumption DEF Word, WordSize
<1> HIDE DEF z
<1>2. u \in Seq(Word) /\ Len(u) >= 2 /\ u[1] = 0 /\ u[2] = 0
  <2>1. Concatenated(z, t)
    BY <1>1, Concatenation
  <2>2. u \in Seq(Word) /\ Len(u) = Len(z) + Len(t) /\ \A k \in 1 .. Len(z) : u[k] = z[k]
    BY <2>1 DEF Concatenated
  <2>3. Len(t) \in Nat
    OBVIOUS
  <2>. QED BY ONLY <1>1, <2>2, <2>3
<1> HIDE DEF u
<1>3. \A k \in 1 .. 2 : (IF k <= Len(u) THEN u[k] ELSE 0) = 0
  BY <1>2
<1>4. Resize(u, 2) = [k \in 1 .. 2 |-> 0]
  BY <1>3 DEF Resize
<1>5. [k \in 1 .. 2 |-> 0] = <<0, 0>>
  OBVIOUS
<1>. QED BY <1>2, <1>4, <1>5 DEF Leads, u, z

\* A block that is short enough for its run lengths.
LEMMA ShortBlocksAre ==
  ASSUME NEW b, ShortBlock(b)
  PROVE  b \in Seq(Word) /\ b # <<>> /\ Len(b) < WordSize /\ Len(b) \in Nat \ {0}
<1>1. Len(b) # 0 /\ Len(b) \in Nat
  BY DEF ShortBlock
<1>2. b # <<>>
  BY <1>1
<1>3. Len(b) < WordSize
  BY HalfAssumption DEF ShortBlock, WordSize
<1>. QED BY <1>1, <1>2, <1>3 DEF ShortBlock

\* Words behind words are words.
LEMMA AppendedWords ==
  ASSUME NEW v \in Seq(Word), NEW t \in Seq(Word)
  PROVE  v \o t \in Seq(Word)
BY Concatenation DEF Concatenated

\* Nothing in front changes nothing.
LEMMA NothingInFront ==
  ASSUME NEW t \in Seq(Word)
  PROVE  <<>> \o t = t
OBVIOUS

\* The predictive code is a word for each element.
LEMMA PredictCodeIsWords ==
  ASSUME NEW p \in Predictors, NEW b \in Seq(Word), b # <<>>
  PROVE  PredictCode(p, b) \in Seq(Word) /\ Len(PredictCode(p, b)) = Len(b)
<1> DEFINE n == Len(b)
           stride == BlockStride(n)
           v == [k \in 0 .. n - 1 |-> b[k + 1]]
           x == [k \in DOMAIN b |->
                  ZigzagEnc16(Minus(b[k], Predict(p, Neighbors32(v, k - 1, stride))))]
<1>1. /\ n \in Nat \ {0} /\ DOMAIN b = 1 .. n
      /\ \A k \in 1 .. n : b[k] \in Word
      /\ v \in [0 .. n - 1 -> Word]
  OBVIOUS
<1>2. stride \in Nat \ {0}
  BY <1>1, StrideIsPositive
<1>3. PredictCode(p, b) = x
  BY DEF PredictCode
<1> HIDE DEF v, stride
<1>4. ASSUME NEW k \in 1 .. n
      PROVE  ZigzagEnc16(Minus(b[k], Predict(p, Neighbors32(v, k - 1, stride)))) \in Word
  <2> DEFINE q == Predict(p, Neighbors32(v, k - 1, stride))
  <2>1. k - 1 \in 0 .. n - 1
    BY <1>1
  <2>2. q \in Word
    BY <1>1, <1>2, <2>1, PredictionsAreWords
  <2>3. b[k] \in Word
    BY <1>1
  <2> HIDE DEF q
  <2>4. Minus(b[k], q) \in Word
    BY <2>2, <2>3, WordsClosed
  <2>5. ZigzagEnc16(Minus(b[k], q)) \in Word
    BY <2>4, WordsClosed
  <2>. QED BY <2>5 DEF q
<1>. QED BY <1>1, <1>3, <1>4

\* What EncodeArray makes of the vector v, class by class.
Forms(c, v, b) ==
  /\ c.kind = "delta" => Encoded32(c, v, b) = v \o ZigzagTail(Differences(b))
  /\ c.kind = "double" => Encoded32(c, v, b) = v \o ZigzagTail(Differences(Differences(b)))
  /\ c.kind = "for" => Encoded32(c, v, b) = v \o FORCode(b)
  /\ c.kind = "rle" => Encoded32(c, v, b) = Resize(v, 2) \o RLECode(b)
  /\ c.kind = "predict" /\ c.predictor \in Predictors
       => Encoded32(c, v, b) = PredictCode(c.predictor, b)

\* EncodeArray, class by class.
LEMMA EncodedForms ==
  ASSUME NEW c, NEW v, NEW b, ShortBlock(b)
  PROVE  Forms(c, v, b)
<1>1. c.kind = "delta" => Encoded32(c, v, b) = v \o ZigzagTail(Differences(b))
  BY DEF Encoded32, EncodeArray, AllocEncoded
<1>2. c.kind = "double" => Encoded32(c, v, b) = v \o ZigzagTail(Differences(Differences(b)))
  BY DEF Encoded32, EncodeArray, AllocEncoded
<1>3. c.kind = "for" => Encoded32(c, v, b) = v \o FORCode(b)
  BY DEF Encoded32, EncodeArray, AllocEncoded
<1>4. c.kind = "rle" => Encoded32(c, v, b) = Resize(v, 2) \o RLECode(b)
  BY DEF Encoded32, EncodeArray, AllocEncoded
<1>5. ASSUME c.kind = "predict", c.predictor \in Predictors
      PROVE  Encoded32(c, v, b) = PredictCode(c.predictor, b)
  <2> DEFINE n == Len(b)
             u == Resize(v, n)
             x == PredictCode(c.predictor, b)
  <2>1. Encoded32(c, v, b) = x \o SubSeq(u, n + 1, Len(u))
    BY <1>5 DEF Encoded32, EncodeArray, AllocEncoded
  <2>2. n \in Nat
    BY ShortBlocksAre
  <2>3. Len(u) = n
    BY <2>2 DEF Resize
  <2>4. SubSeq(u, n + 1, n) = <<>>
    <3> HIDE DEF u, n
    <3>. QED BY <2>2
  <2>5. x \in Seq(Word)
    BY <1>5, PredictCodeIsWords, ShortBlocksAre
  <2> HIDE DEF x
  <2>6. x \o <<>> = x
    BY <2>5
  <2>. QED BY ONLY <2>1, <2>3, <2>4, <2>6, Zenon DEF x
<1>. QED BY ONLY <1>1, <1>2, <1>3, <1>4, <1>5, Zenon DEF Forms

\* Resizing keeps words.
LEMMA ResizeIsWords ==
  ASSUME NEW v \in Seq(Word), NEW n \in Nat
  PROVE  Resize(v, n) \in Seq(Word)
<1>1. 0 \in Word
  BY HalfAssumption DEF Word, WordSize
<1>2. \A k \in 1 .. Len(v) : v[k] \in Word
  OBVIOUS
<1>. QED BY <1>1, <1>2 DEF Resize

\* The codes that follow what the vector holds.
LEMMA CodesAreWords32 ==
  ASSUME NEW b, ShortBlock(b)
  PROVE  /\ ZigzagTail(Differences(b)) \in Seq(Word)
         /\ ZigzagTail(Differences(Differences(b))) \in Seq(Word)
         /\ FORCode(b) \in Seq(Word)
         /\ RLECode(b) \in Seq(Word)
<1>1. b \in Seq(Word) /\ b # <<>> /\ Len(b) < WordSize
  BY ShortBlocksAre
<1>2. Differences(b) \in Seq(Word)
  BY <1>1, DifferencesAreWords
<1>3. Differences(Differences(b)) \in Seq(Word)
  BY <1>2, DifferencesAreWords
<1>4. /\ ZigzagTail(Differences(b)) \in Seq(Word)
      /\ ZigzagTail(Differences(Differences(b))) \in Seq(Word)
  BY <1>2, <1>3, DifferencesAreWords
<1>5. FORCode(b) \in Seq(Word)
  BY <1>1, FORDecodes32
<1>6. RLECode(b) \in Seq(Word)
  BY <1>1, RunsAre32 DEF Even
<1>. QED BY <1>4, <1>5, <1>6

\* EncodeArray leaves words in the vector.
LEMMA EncodedIsWords ==
  ASSUME NEW c, Setting32(c), NEW v \in Seq(Word), NEW b, ShortBlock(b)
  PROVE  Encoded32(c, v, b) \in Seq(Word)
<1>0. Forms(c, v, b)
  BY EncodedForms
<1>a. /\ ZigzagTail(Differences(b)) \in Seq(Word)
      /\ ZigzagTail(Differences(Differences(b))) \in Seq(Word)
      /\ FORCode(b) \in Seq(Word)
      /\ RLECode(b) \in Seq(Word)
  BY CodesAreWords32
<1>b. \A t \in Seq(Word) : v \o t \in Seq(Word)
  BY AppendedWords
<1>1. CASE c.kind \in {"delta", "double", "for"}
  <2>1. c.kind = "delta" \/ c.kind = "double" \/ c.kind = "for"
    BY <1>1
  <2>. QED BY ONLY <1>0, <1>a, <1>b, <2>1, Zenon DEF Forms
<1>2. CASE c.kind = "rle"
  <2>1. Resize(v, 2) \in Seq(Word)
    BY ResizeIsWords
  <2>2. Resize(v, 2) \o RLECode(b) \in Seq(Word)
    BY ONLY <1>a, <2>1, AppendedWords, Zenon
  <2>. QED BY ONLY <1>0, <1>2, <2>2, Zenon DEF Forms
<1>3. CASE c.kind = "predict"
  <2>1. c.predictor \in Predictors
    BY <1>3 DEF Setting32
  <2>2. PredictCode(c.predictor, b) \in Seq(Word)
    BY <2>1, PredictCodeIsWords, ShortBlocksAre
  <2>. QED BY ONLY <1>0, <1>3, <2>1, <2>2, Zenon DEF Forms
<1>. QED BY <1>1, <1>2, <1>3 DEF Setting32

\* Run lengths behind an empty run and predictions are those of a new object.
LEMMA OverwritingIsFresh ==
  ASSUME NEW c, Setting32(c), Overwrites(c), NEW v, c.kind = "rle" => Leads(v),
         NEW b, ShortBlock(b)
  PROVE  /\ Encoded32(c, v, b) = FreshCode(c, b)
         /\ c.kind = "rle" => Leads(Encoded32(c, v, b))
<1>0. Forms(c, v, b) /\ Forms(c, <<>>, b)
  BY EncodedForms
<1>1. CASE c.kind = "rle"
  <2>1. Encoded32(c, v, b) = <<0, 0>> \o RLECode(b)
    <3>1. Resize(v, 2) = <<0, 0>>
      BY <1>1 DEF Leads
    <3>. QED BY ONLY <1>0, <1>1, <3>1, Zenon DEF Forms
  <2>2. FreshCode(c, b) = <<0, 0>> \o RLECode(b)
    <3>1. Resize(<<>>, 2) = <<0, 0>>
      BY LeadsEmpty DEF Leads
    <3>. QED BY ONLY <1>0, <1>1, <3>1, Zenon DEF Forms, FreshCode
  <2>3. Leads(<<0, 0>> \o RLECode(b))
    BY CodesAreWords32, LeadsInFront
  <2>. QED BY <2>1, <2>2, <2>3
<1>2. CASE c.kind = "predict"
  <2>1. c.predictor \in Predictors
    BY <1>2 DEF Setting32
  <2>. QED BY ONLY <1>0, <1>2, <2>1, c.kind = "predict" => c.kind # "rle", Zenon DEF Forms, FreshCode
<1>. QED BY <1>1, <1>2 DEF Overwrites

\* A block that is put into a new object is restored.
LEMMA FreshDecodes ==
  ASSUME NEW c, Setting32(c), NEW b, ShortBlock(b)
  PROVE  DecodeArray(c, FreshCode(c, b), Len(b)) = b
<1>0. b \in Seq(Word) /\ b # <<>> /\ Len(b) < WordSize
  BY ShortBlocksAre
<1>f. Forms(c, <<>>, b)
  BY EncodedForms
<1>g. /\ <<>> \o ZigzagTail(Differences(b)) = ZigzagTail(Differences(b))
      /\ <<>> \o ZigzagTail(Differences(Differences(b))) = ZigzagTail(Differences(Differences(b)))
      /\ <<>> \o FORCode(b) = FORCode(b)
  BY CodesAreWords32, NothingInFront
<1>h. Resize(<<>>, 2) = <<0, 0>>
  BY LeadsEmpty DEF Leads
<1>1. CASE c.kind = "delta"
  <2>1. FreshCode(c, b) = ZigzagTail(Differences(b))
    BY ONLY <1>1, <1>f, <1>g, Zenon DEF Forms, FreshCode
  <2>. QED BY <1>0, <1>1, <2>1, DeltaDecodes DEF DecodeArray
<1>2. CASE c.kind = "double"
  <2>1. FreshCode(c, b) = ZigzagTail(Differences(Differences(b)))
    BY ONLY <1>2, <1>f, <1>g, Zenon DEF Forms, FreshCode
  <2>2. DecodeArray(c, FreshCode(c, b), Len(b))
          = PrefixSums(PrefixSums(FreshCode(c, b), Len(b), ZigzagDec16), Len(b), Plain)
    BY <1>2 DEF DecodeArray
  <2>. QED BY <1>0, <2>1, <2>2, DoubleDeltaDecodes
<1>3. CASE c.kind = "for"
  <2>1. FreshCode(c, b) = FORCode(b)
    BY ONLY <1>3, <1>f, <1>g, Zenon DEF Forms, FreshCode
  <2>. QED BY <1>0, <1>3, <2>1, FORDecodes32 DEF DecodeArray
<1>4. CASE c.kind = "rle"
  <2>1. FreshCode(c, b) = <<0, 0>> \o RLECode(b)
    BY ONLY <1>4, <1>f, <1>h, Zenon DEF Forms, FreshCode
  <2>. QED BY <1>0, <1>4, <2>1, RunsDecode32 DEF DecodeArray
<1>5. CASE c.kind = "predict"
  <2>0. c.predictor \in Predictors
    BY <1>5 DEF Setting32
  <2>1. FreshCode(c, b) = PredictCode(c.predictor, b)
    BY ONLY <1>5, <1>f, <2>0, Zenon DEF Forms, FreshCode
  <2>. QED BY <1>0, <1>5, <2>0, <2>1, PredictDecodes32 DEF DecodeArray
<1>. QED BY <1>1, <1>2, <1>3, <1>4, <1>5 DEF Setting32

----------------------------------------------------------------------------
(* The benchmark *)

\* The states of a benchmarked object, and what is recorded of a block.
Objects == [first : Seq(Word), packed : Seq(Word), intermediateEncodedSize : Nat]
Records == [block : BlockSet, numCodedValues : Nat]

\* Codec k is not between EncodeArray and the record of the block.
Idle(k) == k # ci \/ stage \in {"block", "encode", "done"}

\* The last block of codec k was recorded without an error.
LastClean(k) == Len(stats[k]) > 0 /\ ~IsError(stats[k][Len(stats[k])])

\* What codec k encodes does not depend on what its vector held.
Honest(k) == Overwrites(codecs[k]) \/ Unharmed(k)

\* The vector whose length is recorded.
Holder == IF Current.cascaded THEN State.packed ELSE State.first

\* The types of the benchmark, as far as the proof needs them.
BenchTypes ==
  /\ codecs \in Collections
  /\ ci \in DOMAIN codecs
  /\ config \in Nat \ {0}
  /\ stage \in {"block", "encode", "decode", "verify", "done"}
  /\ object \in [DOMAIN codecs -> Objects]
  /\ stats \in [DOMAIN codecs -> Seq(Records)]
  /\ stage \in {"encode", "decode", "verify"} => data \in BlockSet

\* Between two blocks an object is as CloneFresh made it, but after an error.
Clean == \A k \in DOMAIN codecs : Idle(k) /\ (LastClean(k) \/ Unharmed(k)) => object[k] = Untouched

\* The two words to which a run-length vector is cut are zeros.
Led == \A k \in DOMAIN codecs : codecs[k].kind = "rle" => Leads(object[k].first)

\* From encoding to verification an honest object holds a new object's code.
Coded == stage \in {"decode", "verify"} /\ Honest(ci) => Holder = FreshCode(Current, data)

\* At verification an honest object has given the block back.
Restored == stage = "verify" /\ Honest(ci) => dataBack = data

\* The recorded size is that of a new object.
SizeTrue(k, r) == r.numCodedValues = FreshSize(codecs[k], r.block)

\* Which records are true.
Sizes ==
  \A k \in DOMAIN codecs : \A j \in DOMAIN stats[k] :
    /\ Overwrites(codecs[k]) => IsError(stats[k][j]) \/ SizeTrue(k, stats[k][j])
    /\ Unharmed(k) => SizeTrue(k, stats[k][j])

\* The inductive invariant of the benchmark.
BenchInv == BenchTypes /\ Clean /\ Led /\ Coded /\ Restored /\ Sizes

\* The codecs of a collection, and the blocks.
LEMMA CodecsAre ==
  ASSUME BenchTypes
  PROVE  /\ \A k \in DOMAIN codecs : Setting32(codecs[k])
         /\ DOMAIN codecs = 1 .. Len(codecs) /\ Len(codecs) \in Nat \ {0}
         /\ \A b \in BlockSet : ShortBlock(b)
BY CollectionsAssumption, BlockSetAssumption DEF BenchTypes, ShortBlock

\* An object as CloneFresh makes it.
LEMMA UntouchedIs == Untouched \in Objects /\ Untouched.first = <<>>
<1>1. <<>> \in Seq(Word) /\ 0 \in Nat
  OBVIOUS
<1> DEFINE z == <<>>
<1> HIDE DEF z
<1>2. z \in Seq(Word) /\ Untouched = [first |-> z, packed |-> z, intermediateEncodedSize |-> 0]
  BY <1>1 DEF z, Untouched
<1>3. Untouched \in Objects /\ Untouched.first = z
  BY <1>1, <1>2 DEF Objects
<1>. QED BY <1>3 DEF z

\* The invariant holds before the first block.
LEMMA BenchInitially == BenchInit => BenchInv
<1> SUFFICES ASSUME BenchInit PROVE BenchInv
  OBVIOUS
<1>1. DOMAIN codecs = 1 .. Len(codecs) /\ Len(codecs) \in Nat \ {0}
  BY CollectionsAssumption DEF BenchInit
<1>2. \A k \in DOMAIN codecs : object[k] = Untouched /\ stats[k] = <<>>
  BY DEF BenchInit
<1>3. BenchTypes
  <2>1. 1 \in DOMAIN codecs
    BY <1>1
  <2>2. object \in [DOMAIN codecs -> Objects]
    BY UntouchedIs DEF BenchInit
  <2>3. stats \in [DOMAIN codecs -> Seq(Records)]
    <3>1. <<>> \in Seq(Records)
      OBVIOUS
    <3>. QED BY <3>1 DEF BenchInit
  <2>. QED BY <2>1, <2>2, <2>3 DEF BenchInit, BenchTypes
<1>4. Clean
  BY <1>2 DEF Clean
<1>5. Led
  BY ONLY <1>2, UntouchedIs, LeadsEmpty, Zenon DEF Led
<1>6. Coded /\ Restored
  BY DEF BenchInit, Coded, Restored
<1>7. Sizes
  <2>1. \A k \in DOMAIN codecs : DOMAIN stats[k] = {}
    BY <1>2
  <2>. QED BY <2>1 DEF Sizes
<1>. QED BY <1>3, <1>4, <1>5, <1>6, <1>7 DEF BenchInv

\* What a step leaves of an invariant when only the block changes.
LEMMA NextBlock ==
  ASSUME BenchInv, ReadBlock
  PROVE  BenchInv'
<1>1. /\ codecs' = codecs /\ object' = object /\ stats' = stats /\ ci' = ci /\ config' = config
      /\ stage = "block" /\ stage' = "encode" /\ data' \in BlockSet
  BY DEF ReadBlock
<1>2. BenchTypes'
  BY <1>1 DEF BenchInv, BenchTypes
<1>3. Clean'
  BY <1>1 DEF BenchInv, Clean, Idle, LastClean, Unharmed
<1>4. Led'
  BY <1>1 DEF BenchInv, Led
<1>5. Coded' /\ Restored'
  BY <1>1 DEF Coded, Restored
<1>6. Sizes'
  BY ONLY <1>1, BenchInv, Zenon DEF BenchInv, Sizes, Unharmed, SizeTrue
<1>. QED BY <1>2, <1>3, <1>4, <1>5, <1>6 DEF BenchInv

\* The next access transformation clones every object anew.
LEMMA NextTransformation ==
  ASSUME BenchInv, NextConfig
  PROVE  BenchInv'
<1>0. codecs' = codecs /\ object' = object /\ ci' = ci /\ data' = data /\ stage = "block"
  BY DEF NextConfig
<1>1. CASE config = NumConfigs
  <2>1. stage' = "done" /\ config' = config /\ stats' = stats
    BY <1>1 DEF NextConfig
  <2>2. BenchTypes'
    BY <1>0, <2>1 DEF BenchInv, BenchTypes
  <2>3. Clean'
    BY <1>0, <2>1 DEF BenchInv, Clean, Idle, LastClean, Unharmed
  <2>4. Led' /\ Coded' /\ Restored'
    BY <1>0, <2>1 DEF BenchInv, Led, Coded, Restored
  <2>5. Sizes'
    BY ONLY <1>0, <2>1, BenchInv, Zenon DEF BenchInv, Sizes, Unharmed, SizeTrue
  <2>. QED BY <2>2, <2>3, <2>4, <2>5 DEF BenchInv
<1>2. CASE config # NumConfigs
  <2>1. stage' = "block" /\ config' = config + 1 /\ stats' = [k \in DOMAIN codecs |-> <<>>]
    BY <1>0, <1>2 DEF NextConfig
  <2>2. \A k \in DOMAIN codecs : stats'[k] = <<>> /\ Len(stats'[k]) = 0 /\ DOMAIN stats'[k] = {}
    BY <2>1
  <2>3. config' # 1 /\ config' \in Nat \ {0}
    BY <2>1 DEF BenchInv, BenchTypes
  <2>4. BenchTypes'
    <3>1. <<>> \in Seq(Records)
      OBVIOUS
    <3>2. stats' \in [DOMAIN codecs -> Seq(Records)]
      BY <2>1, <3>1
    <3>. QED BY <1>0, <2>1, <2>3, <3>2 DEF BenchInv, BenchTypes
  <2>5. Clean'
    <3> SUFFICES ASSUME NEW k \in DOMAIN codecs, (LastClean(k) \/ Unharmed(k))'
                 PROVE  object[k] = Untouched
      BY <1>0 DEF Clean
    <3>1. ~LastClean(k)'
      BY <2>2 DEF LastClean
    <3>2. ~codecs[k].cascaded
      BY <1>0, <2>3, <3>1 DEF Unharmed
    <3>. QED BY <1>0, <3>2 DEF BenchInv, Clean, Idle, Unharmed
  <2>6. Led' /\ Coded' /\ Restored'
    BY <1>0, <2>1 DEF BenchInv, Led, Coded, Restored
  <2>7. Sizes'
    BY <1>0, <2>2 DEF Sizes
  <2>. QED BY <2>4, <2>5, <2>6, <2>7 DEF BenchInv
<1>. QED BY <1>1, <1>2

\* The records with one more behind them.
LEMMA AppendedRecord ==
  ASSUME NEW s \in Seq(Records), NEW r \in Records
  PROVE  /\ Append(s, r) \in Seq(Records) /\ Len(Append(s, r)) = Len(s) + 1
         /\ Append(s, r)[Len(s) + 1] = r
         /\ \A j \in DOMAIN s : Append(s, r)[j] = s[j]
         /\ \A j \in DOMAIN Append(s, r) : j \in DOMAIN s \/ j = Len(s) + 1
         /\ DOMAIN s \subseteq DOMAIN Append(s, r) /\ Len(s) + 1 \in DOMAIN Append(s, r)
<1> DEFINE R == Records
<1>1. s \in Seq(R) /\ r \in R
  OBVIOUS
<1> HIDE DEF R
<1>2. /\ Append(s, r) \in Seq(R) /\ Len(Append(s, r)) = Len(s) + 1
      /\ Append(s, r)[Len(s) + 1] = r
      /\ \A j \in 1 .. Len(s) : Append(s, r)[j] = s[j]
  BY <1>1, AppendProperties
<1>3. DOMAIN s = 1 .. Len(s) /\ Len(s) \in Nat
  BY <1>1
<1>4. DOMAIN Append(s, r) = 1 .. Len(s) + 1
  BY <1>2
<1>5. /\ \A j \in 1 .. Len(s) + 1 : j \in 1 .. Len(s) \/ j = Len(s) + 1
      /\ 1 .. Len(s) \subseteq 1 .. Len(s) + 1 /\ Len(s) + 1 \in 1 .. Len(s) + 1
  BY <1>3
<1>. QED BY ONLY <1>2, <1>3, <1>4, <1>5, Zenon DEF R

\* The record r of the current block is made, its codec's object is left as o.
Recorded(o, r) ==
  /\ object' = [object EXCEPT ![ci] = o]
  /\ Record(r)
  /\ NextCodec
  /\ codecs' = codecs /\ config' = config /\ data' = data

\* What keeps the invariant: the object is reset, or the record is an error of
\* a composite.
Lawful(o, r) ==
  /\ o = Untouched \/ (Current.cascaded /\ IsError(r))
  /\ Current.kind = "rle" => Leads(o.first)
  /\ Overwrites(Current) => IsError(r) \/ SizeTrue(ci, r)
  /\ Unharmed(ci) => SizeTrue(ci, r) \/ (Current.cascaded /\ IsError(r))

\* Recording a block lawfully keeps the invariant.
LEMMA RecordedKeeps ==
  ASSUME BenchInv, NEW o \in Objects, NEW r \in Records, stage \in {"encode", "decode", "verify"},
         Recorded(o, r), Lawful(o, r)
  PROVE  BenchInv'
<1> DEFINE D == DOMAIN codecs
<1>1. /\ BenchTypes /\ Clean /\ Led /\ Sizes
      /\ ci \in D /\ object \in [D -> Objects] /\ stats \in [D -> Seq(Records)]
      /\ data \in BlockSet /\ D = 1 .. Len(codecs) /\ Len(codecs) \in Nat \ {0}
  BY CodecsAre DEF BenchInv, BenchTypes
<1>2. /\ codecs' = codecs /\ config' = config /\ data' = data
      /\ object' = [object EXCEPT ![ci] = o]
      /\ stats' = [stats EXCEPT ![ci] = Append(@, r)]
  BY DEF Recorded, Record
<1>3. ci' \in D /\ stage' \in {"encode", "block"}
  <2>1. NextCodec
    BY DEF Recorded
  <2>. QED BY <1>1, <2>1 DEF NextCodec
<1>4. /\ object' \in [D -> Objects] /\ object'[ci] = o
      /\ \A k \in D : k # ci => object'[k] = object[k]
  BY <1>1, <1>2
<1> DEFINE s == stats[ci]
           t == Append(s, r)
<1>5. s \in Seq(Records)
  BY <1>1
<1>6. /\ stats'[ci] = t /\ \A k \in D : k # ci => stats'[k] = stats[k]
  BY <1>1, <1>2
<1>7. /\ t \in Seq(Records) /\ Len(t) = Len(s) + 1 /\ t[Len(s) + 1] = r
      /\ \A j \in DOMAIN s : t[j] = s[j]
      /\ \A j \in DOMAIN t : j \in DOMAIN s \/ j = Len(s) + 1
      /\ DOMAIN s \subseteq DOMAIN t /\ Len(s) + 1 \in DOMAIN t
  BY <1>5, AppendedRecord
<1>8. stats' \in [D -> Seq(Records)]
  BY <1>1, <1>2, <1>7
<1> HIDE DEF s, t, D
<1>9. BenchTypes'
  BY ONLY <1>1, <1>2, <1>3, <1>4, <1>8 DEF BenchTypes, D
<1>10. config = 1 /\ (\A j \in DOMAIN t : ~IsError(t[j])) => Unharmed(ci)
  <2> SUFFICES ASSUME config = 1, \A j \in DOMAIN t : ~IsError(t[j]) PROVE Unharmed(ci)
    OBVIOUS
  <2>1. \A j \in DOMAIN s : ~IsError(s[j])
    BY ONLY <1>7, \A j \in DOMAIN t : ~IsError(t[j]), Zenon
  <2>. QED BY <2>1 DEF Unharmed, s
<1>11. Current.cascaded /\ IsError(r) => ~(\A j \in DOMAIN t : ~IsError(t[j]))
  BY <1>7
<1>12. Clean'
  <2> SUFFICES ASSUME NEW k \in D, (LastClean(k) \/ Unharmed(k))'
               PROVE  object'[k] = Untouched
    BY <1>2 DEF Clean, D
  <2>1. CASE k = ci
    <3>1. CASE o = Untouched
      BY <1>4, <2>1, <3>1
    <3>2. CASE Current.cascaded /\ IsError(r)
      <4>1. stats'[k] = t /\ IsError(t[Len(t)])
        BY <1>6, <1>7, <2>1, <3>2
      <4>2. ~LastClean(k)'
        BY <4>1 DEF LastClean
      <4>3. ~Unharmed(k)'
        BY ONLY <1>2, <1>11, <2>1, <3>2, <4>1, Zenon DEF Unharmed, Current
      <4>. QED BY <4>2, <4>3
    <3>. QED BY <3>1, <3>2 DEF Lawful
  <2>2. CASE k # ci
    <3>1. stats'[k] = stats[k] /\ object'[k] = object[k]
      BY <1>4, <1>6, <2>2
    <3>2. LastClean(k) \/ Unharmed(k)
      BY ONLY <1>2, <3>1, (LastClean(k) \/ Unharmed(k))', Zenon DEF LastClean, Unharmed
    <3>. QED BY <1>1, <2>2, <3>1, <3>2 DEF Clean, Idle, D
  <2>. QED BY <2>1, <2>2
<1>13. Led'
  <2> SUFFICES ASSUME NEW k \in D, codecs[k].kind = "rle" PROVE Leads(object'[k].first)
    BY <1>2 DEF Led, D
  <2>1. CASE k = ci
    BY <1>4, <2>1 DEF Lawful, Current
  <2>2. CASE k # ci
    BY <1>1, <1>4, <2>2 DEF Led, D
  <2>. QED BY <2>1, <2>2
<1>14. Coded' /\ Restored'
  BY <1>3 DEF Coded, Restored
<1>15. Sizes'
  <2> SUFFICES ASSUME NEW k \in D, NEW j \in DOMAIN stats'[k]
               PROVE  /\ Overwrites(codecs[k]) => IsError(stats'[k][j]) \/ SizeTrue(k, stats'[k][j])
                      /\ Unharmed(k)' => SizeTrue(k, stats'[k][j])
    BY <1>2 DEF Sizes, SizeTrue, D
  <2>1. CASE k # ci
    <3>1. stats'[k] = stats[k]
      BY <1>6, <2>1
    <3>2. Unharmed(k)' => Unharmed(k)
      BY ONLY <1>2, <3>1, Zenon DEF Unharmed
    <3>. QED BY <1>1, <3>1, <3>2 DEF Sizes, D
  <2>2. CASE k = ci
    <3>1. stats'[k] = t
      BY <1>6, <2>2
    <3>2. Unharmed(k)' => Unharmed(ci) /\ ~(Current.cascaded /\ IsError(r))
      <4>1. Unharmed(k)' => ~codecs[ci].cascaded \/ (config = 1 /\ \A l \in DOMAIN t : ~IsError(t[l]))
        BY ONLY <1>2, <2>2, <3>1, Zenon DEF Unharmed
      <4>2. codecs[ci].cascaded = Current.cascaded
        BY DEF Current
      <4>3. ~codecs[ci].cascaded => Unharmed(ci)
        BY DEF Unharmed
      <4>. QED BY ONLY <1>10, <1>11, <4>1, <4>2, <4>3, Zenon
    <3>3. CASE j \in DOMAIN s
      <4>1. t[j] = stats[ci][j]
        BY <1>7, <3>3 DEF s
      <4>2. /\ Overwrites(codecs[ci]) => IsError(stats[ci][j]) \/ SizeTrue(ci, stats[ci][j])
            /\ Unharmed(ci) => SizeTrue(ci, stats[ci][j])
        BY <1>1, <3>3 DEF Sizes, s, D
      <4>. QED BY ONLY <2>2, <3>1, <3>2, <4>1, <4>2, Zenon
    <3>4. CASE j = Len(s) + 1
      <4>1. t[j] = r
        BY <1>7, <3>4
      <4>2. Lawful(o, r)
        OBVIOUS
      <4>. QED BY ONLY <2>2, <3>1, <3>2, <4>1, <4>2, Zenon DEF Lawful, Current
    <3>. QED BY <1>7, <3>1, <3>3, <3>4
  <2>. QED BY <2>1, <2>2
<1>. QED BY <1>9, <1>12, <1>13, <1>14, <1>15 DEF BenchInv

\* The current codec, its object and the current block.
CurrentIs ==
  /\ Setting32(Current) /\ Current.cascaded \in BOOLEAN
  /\ State \in Objects
  /\ State = [first |-> State.first, packed |-> State.packed,
              intermediateEncodedSize |-> State.intermediateEncodedSize]
  /\ State.first \in Seq(Word) /\ State.packed \in Seq(Word)
  /\ State.intermediateEncodedSize \in Nat
  /\ Current.kind = "rle" => Leads(State.first)

\* What the invariant says of the object at hand.
LEMMA CurrentObject ==
  ASSUME BenchInv
  PROVE  CurrentIs
<1>1. ci \in DOMAIN codecs /\ Setting32(codecs[ci])
  BY CodecsAre DEF BenchInv, BenchTypes
<1>2. State \in Objects
  BY <1>1 DEF BenchInv, BenchTypes, State
<1>3. /\ State = [first |-> State.first, packed |-> State.packed,
                  intermediateEncodedSize |-> State.intermediateEncodedSize]
      /\ State.first \in Seq(Word) /\ State.packed \in Seq(Word)
      /\ State.intermediateEncodedSize \in Nat
  BY <1>2 DEF Objects
<1>4. Setting32(Current) /\ Current.cascaded \in BOOLEAN
  BY <1>1 DEF Current, Setting32
<1>5. Current.kind = "rle" => Leads(State.first)
  BY <1>1 DEF BenchInv, Led, Current, State
<1>. QED BY ONLY <1>2, <1>3, <1>4, <1>5, Zenon DEF CurrentIs

\* An object no error has met encodes as a new one does.
LEMMA FirstEncodedIs ==
  ASSUME BenchInv, stage = "encode"
  PROVE  /\ FirstEncoded \in Seq(Word) /\ Len(FirstEncoded) \in Nat
         /\ Honest(ci) => FirstEncoded = FreshCode(Current, data)
         /\ Current.kind = "rle" => Leads(FirstEncoded)
<1>1. CurrentIs /\ ShortBlock(data)
  BY CurrentObject, CodecsAre DEF BenchInv, BenchTypes
<1>2. FirstEncoded = Encoded32(Current, State.first, data)
  BY DEF FirstEncoded, Encoded32
<1>3. FirstEncoded \in Seq(Word)
  BY ONLY <1>1, <1>2, EncodedIsWords, Zenon DEF CurrentIs
<1>4. Len(FirstEncoded) \in Nat
  BY <1>3
<1>5. Overwrites(Current) => /\ FirstEncoded = FreshCode(Current, data)
                             /\ Current.kind = "rle" => Leads(FirstEncoded)
  BY ONLY <1>1, <1>2, OverwritingIsFresh, Zenon DEF CurrentIs
<1>6. Current.kind = "rle" => Overwrites(Current)
  BY DEF Overwrites
<1>7. Unharmed(ci) => FirstEncoded = FreshCode(Current, data)
  <2> SUFFICES ASSUME Unharmed(ci) PROVE FirstEncoded = FreshCode(Current, data)
    OBVIOUS
  <2>1. State = Untouched
    BY DEF BenchInv, BenchTypes, Clean, Idle, State
  <2>2. State.first = <<>>
    BY <2>1, UntouchedIs
  <2>. QED BY <1>2, <2>2 DEF FreshCode
<1>. QED BY <1>3, <1>4, <1>5, <1>6, <1>7 DEF Honest, Current

\* The fields of an object.
LEMMA ObjectIs ==
  ASSUME NEW f \in Seq(Word), NEW p \in Seq(Word), NEW m \in Nat
  PROVE  LET o == [first |-> f, packed |-> p, intermediateEncodedSize |-> m]
         IN  o \in Objects /\ o.first = f /\ o.packed = p /\ o.intermediateEncodedSize = m
BY DEF Objects

\* The current object is replaced by o, and the codec goes on with its block.
Replaced(o) ==
  /\ object' = [object EXCEPT ![ci] = o]
  /\ codecs' = codecs /\ config' = config /\ stats' = stats /\ data' = data /\ ci' = ci

\* Replacing the object at hand keeps what does not speak of its code.
LEMMA ReplacedKeeps ==
  ASSUME BenchInv, NEW o \in Objects, Replaced(o), stage \in {"encode", "decode"},
         stage' \in {"decode", "verify"}, Current.kind = "rle" => Leads(o.first)
  PROVE  /\ BenchTypes' /\ Clean' /\ Led' /\ Sizes'
         /\ Current' = Current /\ State' = o /\ Honest(ci)' = Honest(ci) /\ data' = data
<1> DEFINE D == DOMAIN codecs
<1>1. /\ ci \in D /\ object \in [D -> Objects] /\ data \in BlockSet
  BY DEF BenchInv, BenchTypes
<1>2. /\ object' = [object EXCEPT ![ci] = o]
      /\ codecs' = codecs /\ config' = config /\ stats' = stats /\ data' = data /\ ci' = ci
  BY DEF Replaced
<1>3. object' \in [D -> Objects] /\ object'[ci] = o /\ \A k \in D : k # ci => object'[k] = object[k]
  BY <1>1, <1>2
<1>4. BenchTypes'
  BY <1>1, <1>2, <1>3 DEF BenchInv, BenchTypes
<1>5. \A k \in D : Unharmed(k)' = Unharmed(k) /\ LastClean(k)' = LastClean(k)
  BY <1>2 DEF Unharmed, LastClean
<1>6. Clean'
  <2> SUFFICES ASSUME NEW k \in D, Idle(k)', (LastClean(k) \/ Unharmed(k))'
               PROVE  object'[k] = Untouched
    BY <1>2 DEF Clean
  <2>1. k # ci
    BY <1>2 DEF Idle
  <2>2. Idle(k) /\ (LastClean(k) \/ Unharmed(k))
    BY <1>5, <2>1 DEF Idle
  <2>. QED BY <1>3, <2>1, <2>2 DEF BenchInv, Clean
<1>7. Led'
  <2> SUFFICES ASSUME NEW k \in D, codecs[k].kind = "rle" PROVE Leads(object'[k].first)
    BY <1>2 DEF Led
  <2>1. CASE k = ci
    BY <1>3, <2>1 DEF Current
  <2>2. CASE k # ci
    BY <1>3, <2>2 DEF BenchInv, Led
  <2>. QED BY <2>1, <2>2
<1>8. Sizes'
  BY ONLY <1>2, BenchInv, Zenon DEF BenchInv, Sizes, Unharmed, SizeTrue
<1>9. Current' = Current /\ State' = o
  BY <1>2, <1>3 DEF Current, State
<1>10. Honest(ci)' = Honest(ci)
  BY <1>1, <1>2, <1>5 DEF Honest
<1>. QED BY <1>2, <1>4, <1>6, <1>7, <1>8, <1>9, <1>10

\* EncodeArray keeps the invariant.
LEMMA BlockEncoded ==
  ASSUME BenchInv, EncodeBlock
  PROVE  BenchInv'
<1> DEFINE f == IF Current.cascaded THEN <<>> ELSE FirstEncoded
           p == IF Current.cascaded THEN FirstEncoded ELSE State.packed
           m == IF Current.cascaded THEN Len(FirstEncoded) ELSE State.intermediateEncodedSize
           o == [first |-> f, packed |-> p, intermediateEncodedSize |-> m]
<1>1. stage = "encode" /\ stage' = "decode" /\ CurrentIs
  BY CurrentObject DEF EncodeBlock
<1>2. /\ FirstEncoded \in Seq(Word) /\ Len(FirstEncoded) \in Nat
      /\ Honest(ci) => FirstEncoded = FreshCode(Current, data)
      /\ Current.kind = "rle" => Leads(FirstEncoded)
  BY <1>1, FirstEncodedIs
<1>3. f \in Seq(Word) /\ p \in Seq(Word) /\ m \in Nat
  <2>1. <<>> \in Seq(Word)
    OBVIOUS
  <2>. QED BY ONLY <1>1, <1>2, <2>1, Zenon DEF CurrentIs
<1>4. Current.kind = "rle" => Leads(f)
  BY <1>1, <1>2, LeadsEmpty DEF CurrentIs
<1>5. Replaced(o)
  <2>1. [State EXCEPT !.first = FirstEncoded]
          = [first |-> FirstEncoded, packed |-> State.packed,
             intermediateEncodedSize |-> State.intermediateEncodedSize]
    BY <1>1 DEF CurrentIs
  <2>2. object' = [object EXCEPT ![ci] =
          IF Current.cascaded
          THEN [first |-> <<>>, packed |-> FirstEncoded,
                intermediateEncodedSize |-> Len(FirstEncoded)]
          ELSE [State EXCEPT !.first = FirstEncoded]]
    BY DEF EncodeBlock
  <2>3. (IF Current.cascaded
         THEN [first |-> <<>>, packed |-> FirstEncoded,
               intermediateEncodedSize |-> Len(FirstEncoded)]
         ELSE [State EXCEPT !.first = FirstEncoded]) = o
    <3>1. Current.cascaded \in BOOLEAN
      BY <1>1 DEF CurrentIs
    <3>. QED BY ONLY <2>1, <3>1, Zenon
  <2>4. codecs' = codecs /\ config' = config /\ stats' = stats /\ data' = data /\ ci' = ci
    BY DEF EncodeBlock
  <2>. QED BY ONLY <2>2, <2>3, <2>4, Zenon DEF Replaced
<1>6. o \in Objects /\ o.first = f /\ o.packed = p
  BY <1>3, ObjectIs
<1> DEFINE q == o
<1> HIDE DEF q
<1>7. q \in Objects /\ q.first = f /\ q.packed = p /\ Replaced(q)
  BY <1>5, <1>6 DEF q
<1> HIDE DEF o, f, p, m
<1>8. /\ BenchTypes' /\ Clean' /\ Led' /\ Sizes'
      /\ Current' = Current /\ State' = q /\ Honest(ci)' = Honest(ci) /\ data' = data
  BY <1>1, <1>4, <1>7, ReplacedKeeps
<1>9. Coded'
  <2> SUFFICES ASSUME Honest(ci)' PROVE Holder' = FreshCode(Current, data)'
    BY DEF Coded
  <2>1. Holder' = (IF Current.cascaded THEN p ELSE f)
    BY ONLY <1>7, <1>8, Zenon DEF Holder
  <2>2. (IF Current.cascaded THEN p ELSE f) = FirstEncoded
    BY DEF p, f
  <2>3. FirstEncoded = FreshCode(Current, data)
    BY <1>2, <1>8
  <2>4. FreshCode(Current, data)' = FreshCode(Current', data')
    BY DEF FreshCode, Encoded32
  <2>. QED BY ONLY <1>8, <2>1, <2>2, <2>3, <2>4, Zenon
<1>10. Restored'
  BY <1>1 DEF Restored
<1>. QED BY <1>8, <1>9, <1>10 DEF BenchInv

\* Assigning to fields of the object at hand replaces it.
LEMMA FirstReplaced ==
  ASSUME BenchInv, NEW f, NEW m
  PROVE  /\ [object EXCEPT ![ci].first = f]
              = [object EXCEPT ![ci] = [first |-> f, packed |-> State.packed,
                   intermediateEncodedSize |-> State.intermediateEncodedSize]]
         /\ [object EXCEPT ![ci].first = f, ![ci].intermediateEncodedSize = m]
              = [object EXCEPT ![ci] = [first |-> f, packed |-> State.packed,
                                        intermediateEncodedSize |-> m]]
<1>1. CurrentIs /\ ci \in DOMAIN object /\ object = [k \in DOMAIN object |-> object[k]]
  BY CurrentObject DEF BenchInv, BenchTypes
<1>2. object[ci] = [first |-> State.first, packed |-> State.packed,
                    intermediateEncodedSize |-> State.intermediateEncodedSize]
  BY <1>1 DEF CurrentIs, State
<1> DEFINE x == State.first
           y == State.packed
           z == State.intermediateEncodedSize
<1>3. object[ci] = [first |-> x, packed |-> y, intermediateEncodedSize |-> z]
  BY <1>2
<1> HIDE DEF x, y, z
<1>4. [object[ci] EXCEPT !.first = f] = [first |-> f, packed |-> y, intermediateEncodedSize |-> z]
  BY ONLY <1>3
<1>5. [object EXCEPT ![ci].first = f]
        = [object EXCEPT ![ci] = [first |-> f, packed |-> y, intermediateEncodedSize |-> z]]
  BY ONLY <1>1, <1>4
<1>6. [object EXCEPT ![ci].first = f, ![ci].intermediateEncodedSize = m]
        = [object EXCEPT ![ci] = [first |-> f, packed |-> y, intermediateEncodedSize |-> m]]
  <2> DEFINE g == [object EXCEPT ![ci].first = f]
  <2>1. DOMAIN g = DOMAIN object /\ g[ci] = [first |-> f, packed |-> y, intermediateEncodedSize |-> z]
    BY ONLY <1>1, <1>5
  <2>2. [object EXCEPT ![ci].first = f, ![ci].intermediateEncodedSize = m]
          = [g EXCEPT ![ci].intermediateEncodedSize = m]
    OBVIOUS
  <2>3. [g[ci] EXCEPT !.intermediateEncodedSize = m]
          = [first |-> f, packed |-> y, intermediateEncodedSize |-> m]
    <3> HIDE DEF g
    <3>. QED BY ONLY <2>1
  <2>4. \A k \in DOMAIN object : k # ci => g[k] = object[k]
    BY ONLY <1>1, <1>5
  <2>5. g = [k \in DOMAIN object |-> g[k]]
    BY ONLY <1>1, <1>5
  <2> HIDE DEF g
  <2>6. [g EXCEPT ![ci].intermediateEncodedSize = m]
          = [object EXCEPT ![ci] = [first |-> f, packed |-> y, intermediateEncodedSize |-> m]]
    BY ONLY <1>1, <2>1, <2>3, <2>4, <2>5
  <2>. QED BY <2>2, <2>6
<1>. QED BY <1>5, <1>6 DEF x, y, z

\* DecodeArray keeps the invariant.
LEMMA BlockDecoded ==
  ASSUME BenchInv, DecodeBlock
  PROVE  BenchInv'
<1> DEFINE f == IF Current.cascaded THEN State.packed ELSE State.first
           o == [first |-> f, packed |-> State.packed,
                 intermediateEncodedSize |-> State.intermediateEncodedSize]
<1>1. stage = "decode" /\ stage' = "verify" /\ CurrentIs
  BY CurrentObject DEF DecodeBlock
<1>2. f \in Seq(Word) /\ State.packed \in Seq(Word) /\ State.intermediateEncodedSize \in Nat
  BY <1>1 DEF CurrentIs
<1>3. f = Holder
  BY DEF Holder
<1>4. Honest(ci) => f = FreshCode(Current, data)
  BY <1>1, <1>3 DEF BenchInv, Coded
<1>5. ShortBlock(data)
  BY <1>1, CodecsAre DEF BenchInv, BenchTypes
<1>6. Current.kind = "rle" => Leads(f)
  <2>1. Current.kind = "rle" => Overwrites(Current) /\ Honest(ci)
    BY DEF Overwrites, Honest, Current
  <2>2. Overwrites(Current) /\ Current.kind = "rle" => Leads(FreshCode(Current, data))
    BY ONLY <1>1, <1>5, LeadsEmpty, OverwritingIsFresh, <<>> \in Seq(Word), Zenon
       DEF CurrentIs, FreshCode
  <2>. QED BY ONLY <1>4, <2>1, <2>2, Zenon
<1>7. Replaced(o)
  <2>1. object' = [object EXCEPT ![ci].first = f]
    BY DEF DecodeBlock, State
  <2>2. object' = [object EXCEPT ![ci] = o]
    BY ONLY <2>1, BenchInv, FirstReplaced, Zenon
  <2>. QED BY <2>2 DEF DecodeBlock, Replaced
<1>8. o \in Objects /\ o.first = f /\ o.packed = State.packed
  BY <1>2, ObjectIs
<1> DEFINE q == o
<1> HIDE DEF q
<1>9. q \in Objects /\ q.first = f /\ q.packed = State.packed /\ Replaced(q)
  BY <1>7, <1>8 DEF q
<1>10. dataBack' = DecodeArray(Current, f, Len(data))
  <2>1. object'[ci] = q
    BY <1>9 DEF Replaced, BenchInv, BenchTypes
  <2>2. dataBack' = DecodeArray(Current, object'[ci].first, Len(data))
    BY DEF DecodeBlock
  <2>. QED BY ONLY <1>9, <2>1, <2>2, Zenon
<1> HIDE DEF o
<1>11. /\ BenchTypes' /\ Clean' /\ Led' /\ Sizes'
       /\ Current' = Current /\ State' = q /\ Honest(ci)' = Honest(ci) /\ data' = data
  <2>1. Current.kind = "rle" => Leads(q.first)
    BY ONLY <1>6, <1>9, Zenon
  <2>2. stage \in {"encode", "decode"} /\ stage' \in {"decode", "verify"}
    BY <1>1
  <2>. QED BY ONLY <1>9, <2>1, <2>2, BenchInv, ReplacedKeeps, Zenon
<1>12. Coded'
  <2> SUFFICES ASSUME Honest(ci)' PROVE Holder' = FreshCode(Current, data)'
    BY DEF Coded
  <2>1. Holder' = (IF Current.cascaded THEN State.packed ELSE f)
    BY ONLY <1>9, <1>11, Zenon DEF Holder
  <2>2. (IF Current.cascaded THEN State.packed ELSE f) = f
    OBVIOUS
  <2>3. f = FreshCode(Current, data)
    BY <1>4, <1>11
  <2>4. FreshCode(Current, data)' = FreshCode(Current', data')
    BY DEF FreshCode, Encoded32
  <2>. QED BY ONLY <1>11, <2>1, <2>2, <2>3, <2>4, Zenon
<1>13. Restored'
  <2> SUFFICES ASSUME Honest(ci)' PROVE dataBack' = data'
    BY DEF Restored
  <2>1. f = FreshCode(Current, data)
    BY <1>4, <1>11
  <2>2. DecodeArray(Current, FreshCode(Current, data), Len(data)) = data
    BY ONLY <1>1, <1>5, FreshDecodes, Zenon DEF CurrentIs
  <2>. QED BY ONLY <1>10, <1>11, <2>1, <2>2, Zenon
<1>. QED BY <1>11, <1>12, <1>13 DEF BenchInv

\* The record of an error is one.
LEMMA ErrorIs ==
  ASSUME data \in BlockSet
  PROVE  ErrorStats \in Records /\ IsError(ErrorStats)
BY DEF ErrorStats, Records, IsError

\* An exception of EncodeArray keeps the invariant.
LEMMA ErrorEncoding ==
  ASSUME BenchInv, EncodeError
  PROVE  BenchInv'
<1> DEFINE o == [first |-> FirstEncoded, packed |-> State.packed,
                 intermediateEncodedSize |-> Len(FirstEncoded)]
<1>1. stage = "encode" /\ Current.cascaded /\ CurrentIs /\ data \in BlockSet
  BY CurrentObject DEF EncodeError, BenchInv, BenchTypes
<1>2. /\ FirstEncoded \in Seq(Word) /\ Len(FirstEncoded) \in Nat
      /\ Current.kind = "rle" => Leads(FirstEncoded)
  BY <1>1, FirstEncodedIs
<1>3. o \in Objects /\ o.first = FirstEncoded
  BY <1>1, <1>2, ObjectIs DEF CurrentIs
<1>4. Recorded(o, ErrorStats)
  <2>1. object' = [object EXCEPT ![ci].first = FirstEncoded,
                                 ![ci].intermediateEncodedSize = Len(FirstEncoded)]
    BY DEF EncodeError
  <2>2. object' = [object EXCEPT ![ci] = o]
    BY ONLY <2>1, BenchInv, FirstReplaced, Zenon
  <2>. QED BY <2>2 DEF EncodeError, Recorded
<1> HIDE DEF o
<1>5. Lawful(o, ErrorStats)
  BY <1>1, <1>2, <1>3, ErrorIs DEF Lawful
<1>. QED BY <1>1, <1>3, <1>4, <1>5, ErrorIs, RecordedKeeps

\* An exception of DecodeArray keeps the invariant.
LEMMA ErrorDecoding ==
  ASSUME BenchInv, DecodeError
  PROVE  BenchInv'
<1> DEFINE m == State.intermediateEncodedSize + Overflow
           f == Resize(State.first, m)
           o == [first |-> f, packed |-> State.packed,
                 intermediateEncodedSize |-> State.intermediateEncodedSize]
<1>1. stage = "decode" /\ Current.cascaded /\ CurrentIs /\ data \in BlockSet
  BY CurrentObject DEF DecodeError, BenchInv, BenchTypes
<1>2. m \in Nat
  BY <1>1, OverflowAssumption DEF CurrentIs
<1>3. f \in Seq(Word) /\ (Current.kind = "rle" => Leads(f))
  <2> HIDE DEF m
  <2>. QED BY ONLY <1>1, <1>2, ResizeIsWords, LeadsResized, Zenon DEF CurrentIs
<1>4. Recorded(o, ErrorStats)
  <2>1. object' = [object EXCEPT ![ci].first = f]
    BY DEF DecodeError
  <2>2. object' = [object EXCEPT ![ci] = o]
    BY ONLY <2>1, BenchInv, FirstReplaced, Zenon
  <2>. QED BY <2>2 DEF DecodeError, Recorded
<1> HIDE DEF f
<1>5. o \in Objects /\ o.first = f
  BY <1>1, <1>3, ObjectIs DEF CurrentIs
<1> HIDE DEF o
<1>6. Lawful(o, ErrorStats)
  BY <1>1, <1>3, <1>5, ErrorIs DEF Lawful
<1>. QED BY <1>1, <1>4, <1>5, <1>6, ErrorIs, RecordedKeeps

\* A block restored and recorded keeps the invariant.
LEMMA Verified ==
  ASSUME BenchInv, VerifyAndRecord
  PROVE  BenchInv'
<1> DEFINE n == EncodedNumValues(Current, State)
           r == [block |-> data, numCodedValues |-> n]
<1>1. stage = "verify" /\ CurrentIs /\ data \in BlockSet
  BY CurrentObject DEF VerifyAndRecord, BenchInv, BenchTypes
<1>2. n = Len(Holder)
  BY <1>1 DEF EncodedNumValues, Holder, CurrentIs
<1>3. n \in Nat
  BY <1>1 DEF EncodedNumValues, CurrentIs
<1>4. r \in Records /\ r.block = data /\ r.numCodedValues = n
  <2> HIDE DEF n
  <2>. QED BY <1>1, <1>3 DEF Records
<1>5. Recorded(Untouched, r)
  BY DEF VerifyAndRecord, Reset, Recorded
<1> HIDE DEF n, r
<1>6. Honest(ci) => SizeTrue(ci, r)
  <2> SUFFICES ASSUME Honest(ci) PROVE SizeTrue(ci, r)
    OBVIOUS
  <2>1. Holder = FreshCode(Current, data)
    BY <1>1 DEF BenchInv, Coded
  <2>2. FreshSize(Current, data) = Len(FreshCode(Current, data))
    BY DEF FreshSize, FreshCode, Encoded32
  <2>. QED BY ONLY <1>2, <1>4, <2>1, <2>2, Zenon DEF SizeTrue, Current
<1>7. Lawful(Untouched, r)
  BY <1>6, UntouchedIs, LeadsEmpty DEF Lawful, Honest, Current
<1>8. stage \in {"encode", "decode", "verify"}
  BY <1>1
<1>. QED BY ONLY <1>4, <1>5, <1>7, <1>8, BenchInv, UntouchedIs, RecordedKeeps, Zenon

\* A block not restored and recorded as an error keeps the invariant.
LEMMA FailedVerification ==
  ASSUME BenchInv, RoundtripFail
  PROVE  BenchInv'
<1>1. stage = "verify" /\ dataBack # data /\ data \in BlockSet
  BY DEF RoundtripFail, BenchInv, BenchTypes
<1>2. Recorded(Untouched, ErrorStats)
  BY DEF RoundtripFail, Reset, Recorded
<1>3. ~Honest(ci)
  BY <1>1 DEF BenchInv, Restored
<1>4. Lawful(Untouched, ErrorStats)
  BY <1>3, UntouchedIs, LeadsEmpty DEF Lawful, Honest, Current
<1>5. stage \in {"encode", "decode", "verify"} /\ ErrorStats \in Records
  BY <1>1, ErrorIs
<1>. QED BY ONLY <1>2, <1>4, <1>5, BenchInv, UntouchedIs, RecordedKeeps, Zenon

\* Every step of the benchmark keeps the invariant.
LEMMA BenchStep == BenchInv /\ [BenchNext]_benchVars => BenchInv'
<1> SUFFICES ASSUME BenchInv, [BenchNext]_benchVars PROVE BenchInv'
  OBVIOUS
<1>1. CASE UNCHANGED benchVars
  <2>1. /\ codecs' = codecs /\ config' = config /\ object' = object /\ stats' = stats
        /\ data' = data /\ ci' = ci /\ dataBack' = dataBack /\ stage' = stage
    BY <1>1 DEF benchVars
  <2>2. BenchTypes' /\ Led'
    BY <2>1 DEF BenchInv, BenchTypes, Led
  <2>3. Clean'
    BY ONLY <2>1, BenchInv, Zenon DEF BenchInv, Clean, Idle, LastClean, Unharmed
  <2>4. Sizes'
    BY ONLY <2>1, BenchInv, Zenon DEF BenchInv, Sizes, Unharmed, SizeTrue
  <2>5. Coded'
    BY ONLY <2>1, BenchInv, Zenon
       DEF BenchInv, Coded, Honest, Unharmed, Holder, Current, State, FreshCode, Encoded32
  <2>6. Restored'
    BY ONLY <2>1, BenchInv, Zenon DEF BenchInv, Restored, Honest, Unharmed
  <2>. QED BY <2>2, <2>3, <2>4, <2>5, <2>6 DEF BenchInv
<1>2. CASE Finished
  BY <1>1, <1>2 DEF Finished
<1>. QED BY <1>1, <1>2, NextBlock, NextTransformation, BlockEncoded, ErrorEncoding, BlockDecoded,
            ErrorDecoding, Verified, FailedVerification DEF BenchNext

\* The invariant holds throughout the benchmark.
LEMMA BenchAlways == BenchSpec => []BenchInv
BY BenchInitially, BenchStep, PTL DEF BenchSpec

\* A codec that has just recorded a block goes on with an object as
\* CloneFresh made it.
THEOREM ObjectsAreReset == BenchSpec => []FreshUnlessError
<1>1. BenchInv => FreshUnlessError
  <2> SUFFICES ASSUME BenchInv, stage = "encode", Len(stats[ci]) > 0,
                      ~IsError(stats[ci][Len(stats[ci])])
               PROVE  State = Untouched
    BY DEF FreshUnlessError
  <2>1. ci \in DOMAIN codecs /\ Idle(ci) /\ LastClean(ci)
    BY DEF BenchInv, BenchTypes, Idle, LastClean
  <2>. QED BY <2>1 DEF BenchInv, Clean, State
<1>. QED BY <1>1, BenchAlways, PTL

\* Run lengths and predictive codecs measure and restore each block rightly,
\* whatever error came before.
THEOREM OverwritingCodecsAreHonest == BenchSpec => []OverwritingIsHonest
<1>1. BenchInv => OverwritingIsHonest
  <2> SUFFICES ASSUME BenchInv, NEW k \in DOMAIN codecs, Overwrites(codecs[k])
               PROVE  /\ \A j \in DOMAIN stats[k] :
                           IsError(stats[k][j])
                             \/ stats[k][j].numCodedValues = FreshSize(codecs[k], stats[k][j].block)
                      /\ stage = "verify" /\ k = ci => dataBack = data
    BY DEF OverwritingIsHonest
  <2>1. \A j \in DOMAIN stats[k] : IsError(stats[k][j]) \/ SizeTrue(k, stats[k][j])
    BY DEF BenchInv, Sizes
  <2>2. stage = "verify" /\ k = ci => dataBack = data
    BY DEF BenchInv, Restored, Honest
  <2>. QED BY ONLY <2>1, <2>2, Zenon DEF SizeTrue
<1>. QED BY <1>1, BenchAlways, PTL

\* A codec that no error has met restores each block and records the size a
\* new object has.
THEOREM UnharmedCodecsAreHonest == BenchSpec => []UnharmedIsHonest
<1>1. BenchInv => UnharmedIsHonest
  <2> SUFFICES ASSUME BenchInv, NEW k \in DOMAIN codecs, Unharmed(k)
               PROVE  /\ \A j \in DOMAIN stats[k] :
                           stats[k][j].numCodedValues = FreshSize(codecs[k], stats[k][j].block)
                      /\ stage = "verify" /\ k = ci => dataBack = data
    BY DEF UnharmedIsHonest
  <2>1. \A j \in DOMAIN stats[k] : SizeTrue(k, stats[k][j])
    BY DEF BenchInv, Sizes
  <2>2. stage = "verify" /\ k = ci => dataBack = data
    BY DEF BenchInv, Restored, Honest
  <2>. QED BY ONLY <2>1, <2>2, Zenon DEF SizeTrue
<1>. QED BY <1>1, BenchAlways, PTL

----------------------------------------------------------------------------
(* The loops *)

\* The coded words that the encoder has written are those of the block.
Coding ==
  \A j \in Positions :
    (pc \in {"encoded", "decode"} \/ (pc = "encode" /\ j < i))
      => compressed_data[j] = Encoded(class, in, j)

\* The inductive invariant of the loops.
IInv == LoopTypeOK /\ Coding /\ PrefixRestored

USE LengthAssumption, InputsAssumption

\* What is coded for an element is a word.
LEMMA EncodedIsWord ==
  ASSUME NEW p \in Classes, NEW v \in Buffers, NEW j \in Positions
  PROVE  Encoded(p, v, j) \in Word
<1>1. Prediction(p, v, j) \in Word /\ v[j] \in Word
  BY PredictAssumption DEF Buffers
<1>2. Minus(v[j], Prediction(p, v, j)) \in Word
  BY <1>1, WordsClosed
<1>3. ZigzagEnc16(Minus(v[j], Prediction(p, v, j))) \in Word
  BY <1>2, WordsClosed
<1>4. QED
  BY <1>2, <1>3 DEF Encoded

\* What is decoded for an element is a word, whatever the output buffer holds.
LEMMA DecodedIsWord ==
  ASSUME NEW p \in Classes, NEW v \in Buffers, NEW j \in Positions, NEW z \in Word
  PROVE  Decoded(p, v, j, z) \in Word
<1>1. Prediction(p, v, j) \in Word /\ ZigzagDec16(z) \in Word
  BY PredictAssumption, WordsClosed
<1>2. Plus(Prediction(p, v, j), z) \in Word
      /\ Plus(Prediction(p, v, j), ZigzagDec16(z)) \in Word
  BY <1>1, WordsClosed
<1>3. QED
  BY <1>2 DEF Decoded

\* An output buffer that begins like the block is enough to decode the next
\* element of the block.
LEMMA NextElement ==
  ASSUME NEW p \in Classes, NEW b \in Buffers, NEW v \in Buffers, NEW k \in Positions,
         \A j \in 0 .. k - 1 : v[j] = b[j]
  PROVE  Decoded(p, v, k, Encoded(p, b, k)) = b[k]
<1>1. Prediction(p, v, k) = Prediction(p, b, k)
  BY CausalAssumption
<1>2. b[k] \in Word /\ Prediction(p, b, k) \in Word
  BY PredictAssumption DEF Buffers
<1>3. /\ Plus(Prediction(p, b, k), Minus(b[k], Prediction(p, b, k))) = b[k]
      /\ Plus(Prediction(p, b, k),
              ZigzagDec16(ZigzagEnc16(Minus(b[k], Prediction(p, b, k))))) = b[k]
  BY <1>2, ResidualRecovered
<1>4. CASE Raw(p, k)
  BY <1>1, <1>3, <1>4 DEF Decoded, Encoded
<1>5. CASE ~Raw(p, k)
  BY <1>1, <1>3, <1>5 DEF Decoded, Encoded
<1>6. QED
  BY <1>4, <1>5

\* The invariant holds before the first call.
LEMMA Initially == LoopInit => IInv
<1> SUFFICES ASSUME LoopInit PROVE IInv
  OBVIOUS
<1>1. 0 \in Word
  BY HalfAssumption DEF Word, WordSize
<1>2. LoopTypeOK
  BY <1>1 DEF LoopInit, LoopTypeOK, Buffers
<1>3. Coding /\ PrefixRestored
  BY DEF LoopInit, Coding, PrefixRestored
<1>4. QED
  BY <1>2, <1>3 DEF IInv

\* Every step of a loop keeps the invariant.
LEMMA Inductive == IInv /\ [LoopNext]_loopVars => IInv'
<1> SUFFICES ASSUME IInv, [LoopNext]_loopVars PROVE IInv'
  OBVIOUS
<1> USE DEF IInv, LoopTypeOK
<1>0. in \in Buffers
  OBVIOUS
<1>1. ASSUME NEW b \in Inputs, StartEncode(b)
      PROVE  IInv'
  <2>1. LoopTypeOK'
    BY <1>1 DEF StartEncode
  <2>2. Coding' /\ PrefixRestored'
    BY <1>1 DEF StartEncode, Coding, PrefixRestored, Positions
  <2>3. QED
    BY <2>1, <2>2
<1>2. CASE EncodeStep
  <2>1. i \in Positions /\ Encoded(class, in, i) \in Word
    BY <1>0, <1>2, EncodedIsWord DEF EncodeStep, Positions
  <2>2. LoopTypeOK'
    BY <1>2, <2>1 DEF EncodeStep, Buffers
  <2>3. Coding'
    <3> SUFFICES ASSUME NEW j \in Positions, j < i + 1
                 PROVE  compressed_data'[j] = Encoded(class, in, j)
      BY <1>2 DEF EncodeStep, Coding, Encoded, Raw
    <3>1. CASE j = i
      BY <1>2, <2>1, <3>1 DEF EncodeStep, Buffers
    <3>2. CASE j # i
      <4>1. j < i
        BY <3>2 DEF Positions
      <4>2. QED
        BY <1>2, <3>2, <4>1 DEF EncodeStep, Coding, Buffers
    <3>3. QED
      BY <3>1, <3>2
  <2>4. PrefixRestored'
    BY <1>2 DEF EncodeStep, PrefixRestored
  <2>5. QED
    BY <2>2, <2>3, <2>4
<1>3. CASE EndEncode
  <2>1. LoopTypeOK'
    BY <1>3 DEF EndEncode
  <2>2. Coding'
    BY <1>3 DEF EndEncode, Coding, Positions, Encoded, Raw
  <2>3. PrefixRestored'
    BY <1>3 DEF EndEncode, PrefixRestored
  <2>4. QED
    BY <2>1, <2>2, <2>3
<1>4. CASE StartDecode
  <2>1. LoopTypeOK'
    BY <1>4 DEF StartDecode
  <2>2. Coding'
    BY <1>4 DEF StartDecode, Coding, Encoded, Raw
  <2>3. PrefixRestored'
    BY <1>4 DEF StartDecode, PrefixRestored
  <2>4. QED
    BY <2>1, <2>2, <2>3
<1>5. CASE DecodeStep
  <2>1. i \in Positions /\ compressed_data[i] = Encoded(class, in, i)
        /\ \A j \in 0 .. i - 1 : buffer[j] = in[j]
    BY <1>5 DEF DecodeStep, Positions, Coding, PrefixRestored
  <2>2. Decoded(class, buffer, i, compressed_data[i]) = in[i]
    BY <1>0, <2>1, NextElement
  <2>3. in[i] \in Word
    BY <1>0, <2>1 DEF Buffers
  <2>4. LoopTypeOK'
    BY <1>5, <2>1, <2>2, <2>3 DEF DecodeStep, Buffers
  <2>5. Coding'
    BY <1>5 DEF DecodeStep, Coding, Encoded, Raw
  <2>6. PrefixRestored'
    BY <1>5, <2>1, <2>2 DEF DecodeStep, PrefixRestored, Positions, Buffers
  <2>7. QED
    BY <2>4, <2>5, <2>6
<1>6. CASE EndDecode
  <2>1. LoopTypeOK'
    BY <1>6 DEF EndDecode
  <2>2. Coding' /\ PrefixRestored'
    BY <1>6 DEF EndDecode, Coding, PrefixRestored, Encoded, Raw
  <2>3. QED
    BY <2>1, <2>2
<1>7. CASE UNCHANGED loopVars
  BY <1>7 DEF loopVars, Coding, PrefixRestored, Encoded, Raw
<1>8. QED
  BY <1>1, <1>2, <1>3, <1>4, <1>5, <1>6, <1>7 DEF LoopNext

\* The inductive invariant holds in every reachable state.
THEOREM Invariant == LoopSpec => []IInv
  BY Initially, Inductive, PTL DEF LoopSpec

\* Type correctness: the loops write words only, inside the buffers.
THEOREM LoopsTypeCorrect == LoopSpec => []LoopTypeOK
<1>1. IInv => LoopTypeOK
  BY DEF IInv
<1>2. QED
  BY Invariant, <1>1, PTL

\* At every iteration of a decoder the output buffer begins with the block.
THEOREM PrefixIsRestored == LoopSpec => []PrefixRestored
<1>1. IInv => PrefixRestored
  BY DEF IInv
<1>2. QED
  BY Invariant, <1>1, PTL

\* A decoder returns with the whole block, whatever the buffer held.
THEOREM BlockIsRestored == LoopSpec => BlockRestored
<1>1. IInv /\ [LoopNext]_loopVars => [EndDecode => buffer = in]_loopVars
  <2> SUFFICES ASSUME IInv, EndDecode PROVE buffer = in
    OBVIOUS
  <2>1. i = N /\ \A j \in 0 .. N - 1 : buffer[j] = in[j]
    BY DEF IInv, LoopTypeOK, EndDecode, PrefixRestored
  <2>2. buffer \in [0 .. N - 1 -> Word] /\ in \in [0 .. N - 1 -> Word]
    BY DEF IInv, LoopTypeOK, Buffers, Positions
  <2>3. QED
    BY <2>1, <2>2
<1>2. QED
  BY Invariant, <1>1, PTL DEF LoopSpec, BlockRestored

============================================================================
