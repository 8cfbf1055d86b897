------------------------ MODULE AccessTransformations ----------------------
(***************************************************************************)
(* What a pipeline does with the words of a block: the orderings and the   *)
(* initial transformations before it is encoded, and the access            *)
(* transformations after it is decoded.  The latter either change the      *)
(* words or leave a number in kLinearSumSink; the vectorised ones work     *)
(* lane by lane up to the last whole vector and word by word behind it.    *)
(* A word is a uint16_t or, on the int32_t path, an int32_t, kept as its   *)
(* two's complement; the sink is an int32_t, two words wide on the         *)
(* uint16_t path.  A buffer may have more words than the block, behind it. *)
(***************************************************************************)
EXTENDS Words, Sequences, FiniteSetsExt

CONSTANTS VectorLanes,      \* 16 words in a vector
          MaxClasses,       \* 8
          Delta,            \* 2^23
          CountThreshold    \* --threshold

ASSUME LanesAssumption   == VectorLanes \in Nat /\ VectorLanes > 0 /\ VectorLanes % 2 = 0
ASSUME ClassesAssumption == MaxClasses \in Nat /\ MaxClasses > 1
ASSUME ShiftAssumption   == Delta \in Word /\ CountThreshold \in Word

Wrapped(n) == Signed(n % WordSize)
AsInt32(n) == n % (WordSize * WordSize)

\* Division of ints, which rounds towards zero.
Quotient(a, b) ==
  LET mag(n) == IF n < 0 THEN -n ELSE n
      q      == mag(a) \div mag(b)
  IN  IF (a < 0) = (b < 0) THEN q ELSE -q

SumOfWords(data, I) == MapThenSumSet(LAMBDA k : data[k], I)
Ints(data)          == [k \in DOMAIN data |-> Signed(data[k])]
AllOf(data)         == {data[k] : k \in DOMAIN data}

(***************************************************************************)
(* Orderings of a block of N * N words: word s goes to dst[s], counted     *)
(* from 0.  Morton codes leave the block unless N is a power of two.       *)
(***************************************************************************)
Places(N) == 0 .. N * N - 1

Remapped(b, dst) ==
  [k \in DOMAIN b |->
    IF \E s \in DOMAIN dst : dst[s] = k - 1
    THEN b[1 + CHOOSE s \in DOMAIN dst : dst[s] = k - 1] ELSE 0]

\* The bits of a coordinate, with a bit of room behind each; the bits of the
\* other coordinate go there.
Spread[x \in Nat] == IF x = 0 THEN 0 ELSE (x % 2) + 4 * Spread[x \div 2]

MortonCode(x, y) == Spread[x] + 2 * Spread[y]

MortonOrder(N) == [s \in Places(N) |-> MortonCode(s % N, s \div N)]
MortonFits(N)  == \A s \in Places(N) : MortonOrder(N)[s] \in Places(N)

ZigzagOrder(N) ==
  [s \in Places(N) |->
    IF (s \div N) % 2 = 0 THEN s ELSE (s \div N) * N + (N - 1 - (s % N))]

ApplyOrdering(b, o, N) ==
  CASE o = "default" -> b
    [] o = "zigzag"  -> Remapped(b, ZigzagOrder(N))
    [] o = "morton"  -> Remapped(b, MortonOrder(N))

(***************************************************************************)
(* The transformations of transformations.h, on all the int32_t words of a *)
(* vector.                                                                 *)
(***************************************************************************)
Avg(data) == Quotient(SumOfWords(Ints(data), DOMAIN data), Len(data))

Threshold(data, least) == [k \in DOMAIN data |-> IF Signed(data[k]) >= least THEN 1 ELSE 0]

Smoothed(data) ==
  LET d == Ints(data)
      n == Len(data)
  IN  [k \in 1 .. n |->
        CASE k = 1 -> Quotient(Wrapped(d[1] + d[2]), 2)
          [] k = n -> Quotient(Wrapped(d[n - 1] + d[n]), 2)
          [] OTHER -> Quotient(Wrapped(d[k - 1] + d[k] + d[k + 1]), 3)]

SmoothAndShift(data) ==
  LET s == Smoothed(data)
  IN  IF Len(data) < 2 THEN data
      ELSE [k \in DOMAIN data |-> (s[k] - Min({0} \cup AllOf(s))) % WordSize]

\* It divides by zero if there are fewer words than classes.
IndexBasedClassification(data) ==
  LET itemsPerClass == Len(data) \div MaxClasses
  IN  [k \in DOMAIN data |-> Min({(k - 1) \div itemsPerClass, MaxClasses - 1})]

ValueBasedClassification(data) ==
  LET d       == Ints(data)
      minVal  == Min(AllOf(d))
      range   == Wrapped(Max(AllOf(d)) - minVal)
      binSize == Quotient(range, MaxClasses - 1)
  IN  [k \in DOMAIN data |->
        IF binSize = 0 THEN 0
        ELSE Min({Quotient(Wrapped(d[k] - minVal), binSize), MaxClasses - 1}) % WordSize]

ValueShift(data) == [k \in DOMAIN data |-> Plus(data[k], Delta)]

ApplyTransformation(data, t) ==
  CASE t = "none"                     -> data
    [] t = "Threshold"                -> Threshold(data, Avg(data))
    [] t = "SmoothAndShift"           -> SmoothAndShift(data)
    [] t = "IndexBasedClassification" -> IndexBasedClassification(data)
    [] t = "ValueBasedClassification" -> ValueBasedClassification(data)
    [] t = "ValueShift"               -> ValueShift(data)

AccessTransformationMutatesData(t) ==
  t \in {"Threshold", "SmoothAndShift", "IndexBasedClassification",
         "ValueBasedClassification", "ValueShift"}

(***************************************************************************)
(* The access transformations that leave a number, of a block of n words.  *)
(***************************************************************************)
VectorEnd(n) == VectorLanes * (n \div VectorLanes)
InVectors(n) == 1 .. VectorEnd(n)
Behind(n)    == VectorEnd(n) + 1 .. n

LinearSum(data, n) == AsInt32(SumOfWords(data, 1 .. n))

\* The multiply-add takes words for signed ones.
LinearSumSimd(data, n) ==
  AsInt32(SumOfWords(Ints(data), InVectors(n)) + SumOfWords(data, Behind(n)))

LinearSumSimdUnpack(data, n) ==
  AsInt32(SumOfWords(data, InVectors(n)) + SumOfWords(data, Behind(n)))

LinearMin(data, n) ==
  Min({Min({WordSize - 1} \cup {data[k] : k \in InVectors(n)})} \cup {data[k] : k \in Behind(n)})

LinearMax(data, n) ==
  Max({Max({0} \cup {data[k] : k \in InVectors(n)})} \cup {data[k] : k \in Behind(n)})

Above(data, I) == Cardinality({k \in I : data[k] > CountThreshold})

\* (Mutant: the last two lanes are added like the others, in a word.)
LinearCountGtFxPInWords(data, n) ==
  (Above(data, InVectors(n)) % WordSize) + Above(data, Behind(n))

\* The lanes are counted and folded in words, the even and the odd ones
\* separately; the last two are added as an int.
LinearCountGtFxP(data, n) ==
  LET folded(parity) == Above(data, {k \in InVectors(n) : k % 2 = parity}) % WordSize
  IN  folded(1) + folded(0) + Above(data, Behind(n))

LinearCountGtFP(data, n) == Above(data, InVectors(n)) + Above(data, Behind(n))

\* The codec's own sum, from behind the block.
LinearSumFused(data, n) == AsInt32(data[n + 1] + WordSize * data[n + 2])

\* The others leave the sink alone, those that change words included: the
\* uint16_t version does not know them.
SinkU16(t, data, n, sink) ==
  CASE t = "linearSum"           -> LinearSum(data, n)
    [] t = "linearSumSimd"       -> LinearSumSimd(data, n)
    [] t = "linearSumSimdUnpack" -> LinearSumSimdUnpack(data, n)
    [] t = "linearMin"           -> LinearMin(data, n)
    [] t = "linearMax"           -> LinearMax(data, n)
    [] t = "linearCountGtFxP"    -> LinearCountGtFxP(data, n)
    [] t = "linearCountGtFP"     -> LinearCountGtFP(data, n)
    [] t = "linearSumFused"      -> LinearSumFused(data, n)
    [] OTHER                     -> sink

\* An int32_t sink of int32_t words.
SinkI32(t, data, n, sink) ==
  CASE t \in {"linearSum", "linearSumSimd"} -> SumOfWords(data, 1 .. n) % WordSize
    [] t = "linearSumFused"                 -> data[n + 1]
    [] OTHER                                -> sink

\* How many words behind the block a transformation reads.
ReadsBehind(path, t) ==
  IF t # "linearSumFused" THEN 0 ELSE IF path = "uint16" THEN 2 ELSE 1

ApplyAccessTransformation(path, t, data, n, sink) ==
  IF path = "uint16" THEN [data |-> data, sink |-> SinkU16(t, data, n, sink)]
  ELSE [data |-> IF AccessTransformationMutatesData(t) THEN ApplyTransformation(data, t) ELSE data,
        sink |-> SinkI32(t, data, n, sink)]

============================================================================
