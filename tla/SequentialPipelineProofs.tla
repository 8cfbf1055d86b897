---------------------- MODULE SequentialPipelineProofs ---------------------
(***************************************************************************)
(* The sequential pipeline, for every raster, request and combination, all *)
(* blocks and all shuffles: the sampled blocks are spread as they should   *)
(* be, every sample is a repetition, the ratio is the base codec's, the    *)
(* grid is in each state of a repetition what it should be, and a TRACE    *)
(* line gives the number of the raster's own words.                        *)
(***************************************************************************)
EXTENDS SequentialPipeline, Foundations, SequenceTheorems

----------------------------------------------------------------------------
(* Counting *)

\* How often c occurs in a sequence.
Count(s, c) == Cardinality({k \in DOMAIN s : s[k] = c})

LEMMA CountAppend ==
  ASSUME NEW S, NEW s \in Seq(S), NEW e \in S, NEW c
  PROVE  /\ Count(s, c) \in Nat
         /\ Count(Append(s, e), c) = Count(s, c) + (IF c = e THEN 1 ELSE 0)
<1> DEFINE A == {k \in DOMAIN s : s[k] = c}
           B == {k \in DOMAIN Append(s, e) : Append(s, e)[k] = c}
           m == Len(s) + 1
<1>1. IsFiniteSet(A) /\ Cardinality(A) \in Nat
  <2>1. IsFiniteSet(1 .. Len(s))
    BY FS_Interval
  <2>2. A \in SUBSET (1 .. Len(s))
    OBVIOUS
  <2>. QED BY <2>1, <2>2, FS_Subset, FS_CardinalityType
<1>2. m \notin A
  OBVIOUS
<1> HIDE DEF A, B, m
<1>5. Count(s, c) = Cardinality(A) /\ Count(Append(s, e), c) = Cardinality(B)
  BY DEF Count, A, B
<1>3. CASE c = e
  <2>1. B = A \cup {m}
    BY <1>3 DEF A, B, m
  <2>2. Cardinality(A \cup {m}) = Cardinality(A) + 1
    BY <1>1, <1>2, FS_AddElement
  <2>. QED BY <1>1, <1>3, <1>5, <2>1, <2>2
<1>4. CASE c # e
  <2>1. B = A
    BY <1>4 DEF A, B, m
  <2>. QED BY <1>1, <1>4, <1>5, <2>1
<1>. QED BY <1>3, <1>4

----------------------------------------------------------------------------
(* Blocks and their offsets *)

\* A raster that is not empty.
Raster ==
  /\ blocksInWidth \in Nat /\ blocksInHeight \in Nat /\ blockSize \in Nat \ {0}
  /\ Sampling!totalBlocks \in Nat \ {0}

Corners == [x : {column * blockSize : column \in 0 .. blocksInWidth - 1},
            y : {row * blockSize : row \in 0 .. blocksInHeight - 1}]

LEMMA PlaceOfBlock ==
  ASSUME Raster, NEW b \in Sampling!Blocks
  PROVE  /\ blocksInWidth \in Nat \ {0}
         /\ b % blocksInWidth \in 0 .. blocksInWidth - 1
         /\ b \div blocksInWidth \in 0 .. blocksInHeight - 1
         /\ b = (b \div blocksInWidth) * blocksInWidth + (b % blocksInWidth)
<1>1. b \in Nat /\ b < blocksInWidth * blocksInHeight
  BY SMT DEF Raster, Sampling!Blocks, Sampling!totalBlocks
<1>2. blocksInWidth \in Nat \ {0}
  BY <1>1, SMT DEF Raster
<1>3. /\ b \div blocksInWidth \in Nat /\ b % blocksInWidth \in 0 .. blocksInWidth - 1
      /\ b = (b \div blocksInWidth) * blocksInWidth + (b % blocksInWidth)
  BY <1>1, <1>2, Division
<1>4. b \div blocksInWidth < blocksInHeight
  <2> DEFINE q == b \div blocksInWidth
  <2>1. q \in Nat /\ q * blocksInWidth <= b
    <3>1. q * blocksInWidth \in Nat
      BY <1>2, <1>3, MulMono
    <3>. QED BY <1>3, <3>1, SMT
  <2>2. blocksInHeight * blocksInWidth = blocksInWidth * blocksInHeight
    BY SMT DEF Raster
  <2>3. q * blocksInWidth < blocksInHeight * blocksInWidth
    <3>1. q * blocksInWidth \in Nat /\ blocksInHeight * blocksInWidth \in Nat
      BY <1>2, <2>1, MulMono DEF Raster
    <3>. QED BY <1>1, <2>1, <2>2, <3>1, SMT
  <2>. QED BY <1>2, <2>1, <2>3, MulCancel DEF Raster
<1>. QED BY <1>2, <1>3, <1>4 DEF Raster

LEMMA OffsetIsCorner ==
  ASSUME Raster, NEW b \in Sampling!Blocks
  PROVE  Sampling!Offset(b) \in Corners
BY PlaceOfBlock, Zenon DEF Sampling!Offset, Corners

\* Two blocks have two offsets.
LEMMA OffsetInjective ==
  ASSUME Raster, NEW b \in Sampling!Blocks, NEW c \in Sampling!Blocks, Sampling!Offset(b) = Sampling!Offset(c)
  PROVE  b = c
<1>1. /\ (b % blocksInWidth) * blockSize = (c % blocksInWidth) * blockSize
      /\ (b \div blocksInWidth) * blockSize = (c \div blocksInWidth) * blockSize
  BY DEF Sampling!Offset
<1>2. /\ b % blocksInWidth \in Nat /\ c % blocksInWidth \in Nat
      /\ b \div blocksInWidth \in Nat /\ c \div blocksInWidth \in Nat
  BY PlaceOfBlock
<1>3. b % blocksInWidth = c % blocksInWidth /\ b \div blocksInWidth = c \div blocksInWidth
  BY <1>1, <1>2, MulCancel DEF Raster
<1>. QED BY <1>3, PlaceOfBlock

\* The corner that the caller computes from a block's number is its offset.
LEMMA CornerIsOffset ==
  ASSUME Raster, NEW b \in Sampling!Blocks
  PROVE  Sampling!Corner(b) = Sampling!Offset(b)
<1> DEFINE IsAt(c) == (c.y \div blockSize) * blocksInWidth + (c.x \div blockSize) = b
<1>1. ASSUME NEW column \in Nat
      PROVE  (column * blockSize) \div blockSize = column
  BY QuotientOf, MulMono, SMT DEF Raster
<1>2. IsAt(Sampling!Offset(b))
  BY <1>1, PlaceOfBlock DEF Sampling!Offset
<1>3. ASSUME NEW c \in Corners, IsAt(c)
      PROVE  c = Sampling!Offset(b)
  <2>1. PICK column \in 0 .. blocksInWidth - 1, row \in 0 .. blocksInHeight - 1 :
          c = [x |-> column * blockSize, y |-> row * blockSize]
    BY DEF Corners
  <2>2. row * blocksInWidth + column = b /\ row \in Nat
    BY <1>1, <1>3, <2>1 DEF Raster
  <2>3. row = b \div blocksInWidth /\ column = b % blocksInWidth
    BY <2>2, PlaceOfBlock, QuotientOf
  <2>. QED BY <2>1, <2>3 DEF Sampling!Offset
<1>. QED BY <1>2, <1>3, OffsetIsCorner, Zenon DEF Sampling!Corner, Corners

\* The wraps and the samples are what was asked for.
LEMMA GoalFits ==
  ASSUME Raster, numBlocks \in Nat \ {0}
  PROVE  /\ Sampling!fullWraps \in Nat /\ Sampling!goal \in Nat /\ Sampling!goal <= Sampling!totalBlocks
         /\ Sampling!fullWraps * Sampling!totalBlocks \in Nat
         /\ Sampling!fullWraps * Sampling!totalBlocks + Sampling!goal = numBlocks
         /\ numBlocks <= Sampling!totalBlocks => Sampling!fullWraps = 0 /\ Sampling!goal = numBlocks
<1>0. Sampling!totalBlocks \in Nat \ {0}
  BY DEF Raster
<1>1. CASE numBlocks <= Sampling!totalBlocks
  <2>1. Sampling!fullWraps = 0 /\ 0 * Sampling!totalBlocks = 0
    BY <1>0, <1>1, SMT DEF Sampling!fullWraps
  <2>. QED BY <1>0, <1>1, <2>1 DEF Sampling!goal
<1>2. CASE Sampling!totalBlocks < numBlocks
  <2>1. Sampling!fullWraps = numBlocks \div Sampling!totalBlocks
    BY <1>0, <1>2, SMT DEF Sampling!fullWraps
  <2>2. /\ Sampling!fullWraps \in Nat /\ numBlocks % Sampling!totalBlocks \in 0 .. Sampling!totalBlocks - 1
        /\ numBlocks = Sampling!fullWraps * Sampling!totalBlocks + (numBlocks % Sampling!totalBlocks)
    BY <1>0, <2>1, Division
  <2>3. Sampling!fullWraps * Sampling!totalBlocks \in Nat
    BY <1>0, <2>2, MulMono
  <2>4. Sampling!goal = numBlocks % Sampling!totalBlocks
    BY <2>2, <2>3, SMT DEF Sampling!goal
  <2>. QED BY <1>0, <1>2, <2>2, <2>3, <2>4, SMT
<1>. QED BY <1>0, <1>1, <1>2

----------------------------------------------------------------------------
(* The invariant *)

Points == [x : Nat, y : Nat]

\* What the caller gets, once the raster and the request are not empty.
Request ==
  /\ Raster
  /\ numBlocks \in Nat \ {0}
  /\ numBlocks = IF allow_wrap \/ requested <= Sampling!totalBlocks THEN requested ELSE Sampling!totalBlocks

\* Each block has been pushed q times, those before r once more.
WrappedTo(q, r) ==
  \A b \in Sampling!Blocks : Count(offsets, Sampling!Offset(b)) = q + (IF b < r THEN 1 ELSE 0)

WrapInv ==
  /\ Sampling!totalBlocks < numBlocks /\ blockNum = 0 /\ sampled = 0
  /\ Len(offsets) = wrapPush /\ wrapPush <= Sampling!fullWraps * Sampling!totalBlocks
  /\ \E q \in Nat : \E r \in 0 .. Sampling!totalBlocks - 1 :
       wrapPush = q * Sampling!totalBlocks + r /\ WrappedTo(q, r)

IsSampled(b) == \E j \in 0 .. sampled - 1 : b = j * Sampling!sampleInterval

SampleInv ==
  /\ Sampling!goal > 0 /\ sampled <= Sampling!goal
  /\ blockNum = sampled * Sampling!sampleInterval
  /\ Len(offsets) = Sampling!fullWraps * Sampling!totalBlocks + sampled
  /\ \A b \in Sampling!Blocks :
       Count(offsets, Sampling!Offset(b)) = Sampling!fullWraps + (IF IsSampled(b) THEN 1 ELSE 0)

\* Without wraps the k-th offset is known.
SequenceInv ==
  numBlocks <= Sampling!totalBlocks =>
    /\ Len(offsets) = sampled /\ sampled <= Sampling!goal
    /\ \A k \in 1 .. sampled : offsets[k] = Sampling!Offset((k - 1) * Sampling!sampleInterval)

ResultInv ==
  /\ Len(offsets) = numBlocks
  /\ \A b \in Sampling!Blocks : Count(offsets, Sampling!Offset(b)) \in {Sampling!fullWraps, Sampling!fullWraps + 1}

Sampled ==
  /\ Sampling!TypeOK
  /\ offsets \in Seq(Points)
  /\ samplingPc \in {"start", "trap"} => offsets = <<>>
  /\ samplingPc = "start" => numBlocks = requested /\ wrapPush = 0 /\ blockNum = 0 /\ sampled = 0
  /\ samplingPc \in {"wrap", "sample", "done"} => Request
  /\ samplingPc = "wrap" => WrapInv
  /\ samplingPc = "sample" => SampleInv
  /\ samplingPc \in {"sample", "done"} => SequenceInv
  /\ samplingPc = "done" => ResultInv

\* What a step that pushes leaves alone.
LEMMA Frozen ==
  ASSUME UNCHANGED <<Sampling!inputs, numBlocks>>
  PROVE  /\ Sampling!totalBlocks' = Sampling!totalBlocks /\ Sampling!fullWraps' = Sampling!fullWraps /\ Sampling!goal' = Sampling!goal
         /\ Sampling!sampleInterval' = Sampling!sampleInterval /\ Sampling!Blocks' = Sampling!Blocks
         /\ \A b : Sampling!Offset(b)' = Sampling!Offset(b)
         /\ (Raster' <=> Raster) /\ (Request' <=> Request)
BY DEF Sampling!inputs, Sampling!totalBlocks, Sampling!fullWraps, Sampling!goal,
   Sampling!sampleInterval, Sampling!Blocks, Sampling!Offset, Raster, Request

LEMMA CornersArePoints ==
  ASSUME Raster PROVE Corners \subseteq Points
<1> SUFFICES ASSUME NEW column \in Nat, NEW row \in Nat
             PROVE  column * blockSize \in Nat /\ row * blockSize \in Nat
  BY DEF Raster, Corners, Points
<1>. QED BY MulMono DEF Raster

LEMMA EmptyCount == \A c : Count(<<>>, c) = 0
BY FS_EmptySet DEF Count

LEMMA SamplingBegins == Sampling!Init => Sampled
<1> SUFFICES ASSUME Sampling!Init PROVE Sampled
  OBVIOUS
<1>. QED BY RequestsAssumption DEF Sampling!Init, Sampled, Sampling!TypeOK, Points

LEMMA StartKeepsSampled ==
  ASSUME Sampled, Sampling!Start PROVE Sampled'
<1>1. /\ UNCHANGED <<Sampling!inputs, offsets, wrapPush, blockNum, sampled>>
      /\ offsets' = <<>> /\ wrapPush' = 0 /\ blockNum' = 0 /\ sampled' = 0 /\ numBlocks = requested
  BY DEF Sampled, Sampling!Start
<1>2. Sampling!TypeOK' /\ (offsets \in Seq(Points))'
  BY <1>1, SidesAssumption, RequestsAssumption DEF Sampled, Sampling!TypeOK, Sampling!inputs,
     Sampling!totalBlocks, Sampling!Start
<1>3. /\ blocksInWidth' \in Nat /\ blocksInHeight' \in Nat /\ blockSize' \in Nat \ {0}
      /\ numBlocks' \in Nat /\ Sampling!totalBlocks' \in Nat /\ Sampling!totalBlocks' = Sampling!totalBlocks
      /\ requested' \in Nat /\ requested' = requested /\ allow_wrap' = allow_wrap
  <2>1. /\ blocksInWidth' \in Nat /\ blocksInHeight' \in Nat /\ blockSize' \in Nat \ {0}
        /\ numBlocks' \in Nat /\ requested' \in Nat
        /\ requested' = requested /\ allow_wrap' = allow_wrap /\ Sampling!totalBlocks' = Sampling!totalBlocks
    BY <1>1, <1>2, SidesAssumption, SizeAssumption, RequestsAssumption
       DEF Sampling!TypeOK, Sampling!inputs, Sampling!totalBlocks
  <2>2. Sampling!totalBlocks' \in Nat
    <3>1. blocksInWidth' * blocksInHeight' \in Nat
      BY <2>1, Product
    <3>. QED BY <3>1 DEF Sampling!totalBlocks
  <2>. QED BY <2>1, <2>2
<1>4. /\ samplingPc' \in {"trap", "sample", "wrap"}
      /\ numBlocks' = IF ~allow_wrap /\ Sampling!totalBlocks < requested THEN Sampling!totalBlocks ELSE requested
      /\ samplingPc' # "trap" => numBlocks' \in Nat \ {0} /\ Sampling!totalBlocks' \in Nat \ {0}
      /\ samplingPc' = "sample" => numBlocks' <= Sampling!totalBlocks'
      /\ samplingPc' = "wrap" => Sampling!totalBlocks' < numBlocks'
  BY <1>3 DEF Sampling!Start
<1>5. samplingPc' # "trap" => Request'
  BY <1>3, <1>4 DEF Request, Raster
<1>6. \A b : Count(offsets', Sampling!Offset(b)') = 0
  BY <1>1, EmptyCount
<1>7. Len(offsets') = 0 /\ wrapPush' = 0 /\ blockNum' = 0 /\ sampled' = 0
  BY <1>1
<1>8. CASE samplingPc' = "sample"
  <2>1. PICK g \in Nat \ {0}, T \in Nat \ {0} : g = numBlocks' /\ T = Sampling!totalBlocks' /\ g <= T
    BY <1>4, <1>8
  <2>2. 0 * T = 0 /\ T \div g \in Nat
    BY Division, SMT
  <2>3. Sampling!fullWraps' = 0 /\ Sampling!goal' = g
    <3>1. Sampling!fullWraps' = 0
      BY <2>1 DEF Sampling!fullWraps
    <3>2. Sampling!goal' = g - 0 * T
      BY <2>1, <3>1 DEF Sampling!goal
    <3>. QED BY <2>2, <3>1, <3>2
  <2>4. Sampling!sampleInterval' \in Nat
    BY <2>1, <2>2, <2>3 DEF Sampling!sampleInterval
  <2>5. SampleInv'
    <3>1. \A b : ~IsSampled(b)'
      BY <1>1 DEF IsSampled
    <3>3. PICK v \in Nat : v = Sampling!sampleInterval' /\ 0 * v = 0
      BY <2>4, SMT
    <3>4. blockNum' = sampled' * Sampling!sampleInterval' /\ Len(offsets') = Sampling!fullWraps' * Sampling!totalBlocks' + sampled'
      <4>1. blockNum' = 0 * v /\ Len(offsets') = 0 * T + 0
        BY <1>7, Nothing, Zenon
      <4>. QED BY <1>7, <2>1, <2>3, <3>3, <4>1
    <3>2. \A b : Count(offsets', Sampling!Offset(b)') = Sampling!fullWraps' + (IF IsSampled(b)' THEN 1 ELSE 0)
      BY <1>6, <2>3, <3>1
    <3>5. Sampling!goal' > 0 /\ sampled' <= Sampling!goal'
      BY <1>7, <2>1, <2>3
    <3>. QED BY <3>2, <3>4, <3>5, Zenon DEF SampleInv
  <2>6. SequenceInv'
    BY <1>1, <1>7, <2>1, <2>3 DEF SequenceInv
  <2>. QED BY <1>1, <1>2, <1>5, <1>8, <2>5, <2>6 DEF Sampled
<1>9. CASE samplingPc' = "wrap"
  <2>1. PICK m \in Nat \ {0}, T \in Nat \ {0} : m = numBlocks' /\ T = Sampling!totalBlocks' /\ T < m
    BY <1>4, <1>9
  <2>2. 0 * T = 0 /\ m \div T \in Nat
    BY Division, SMT
  <2>3. Sampling!fullWraps' \in Nat
    BY <2>1, <2>2 DEF Sampling!fullWraps
  <2>4. Sampling!fullWraps' * T \in Nat
    BY <2>3, Product
  <2>5. WrappedTo(0, 0)'
    BY <1>6, <2>1 DEF WrappedTo, Sampling!Blocks
  <2>6. WrapInv'
    <3>1. \E q \in Nat : \E r \in 0 .. Sampling!totalBlocks' - 1 :
            wrapPush' = q * Sampling!totalBlocks' + r /\ WrappedTo(q, r)'
      <4>1. wrapPush' = 0 * Sampling!totalBlocks' + 0 /\ 0 \in Nat /\ 0 \in 0 .. Sampling!totalBlocks' - 1
        <5>1. 0 * T + 0 = 0 /\ 0 \in Nat /\ 0 \in 0 .. T - 1
          BY Nothing
        <5>. QED BY <1>7, <2>1, <5>1, Zenon
      <4>. QED BY <2>5, <4>1, Zenon
    <3>2. wrapPush' <= Sampling!fullWraps' * Sampling!totalBlocks'
      BY <1>1, <2>1, <2>4
    <3>. QED BY <1>1, <1>7, <2>1, <3>1, <3>2 DEF WrapInv
  <2>. QED BY <1>1, <1>2, <1>5, <1>9, <2>6 DEF Sampled
<1>10. CASE samplingPc' = "trap"
  BY <1>1, <1>2, <1>10 DEF Sampled
<1>. QED BY <1>4, <1>8, <1>9, <1>10

\* A push of a block's offset, whichever loop does it.
LEMMA PushKeepsSampled ==
  ASSUME Sampled, Raster, NEW c \in Sampling!Blocks, offsets' = Append(offsets, Sampling!Offset(c)),
         UNCHANGED <<Sampling!inputs, numBlocks, samplingPc>>, wrapPush' \in Nat, blockNum' \in Nat, sampled' \in Nat
  PROVE  /\ Sampling!TypeOK' /\ offsets' \in Seq(Points) /\ Len(offsets') = Len(offsets) + 1
         /\ \A k \in 1 .. Len(offsets) : offsets'[k] = offsets[k]
         /\ offsets'[Len(offsets) + 1] = Sampling!Offset(c)
         /\ \A b \in Sampling!Blocks :
              /\ Count(offsets, Sampling!Offset(b)) \in Nat
              /\ Count(offsets', Sampling!Offset(b)') = Count(offsets, Sampling!Offset(b)) + (IF b = c THEN 1 ELSE 0)
<1>1. offsets \in Seq(Points) /\ Sampling!Offset(c) \in Points /\ Sampling!Offset(c) \in Corners
  BY OffsetIsCorner, CornersArePoints DEF Sampled
<1>2. offsets' \in Seq(Points) /\ Len(offsets') = Len(offsets) + 1
      /\ DOMAIN offsets' = DOMAIN offsets \cup {Len(offsets) + 1}
  BY <1>1
<1>3. /\ \A k \in 1 .. Len(offsets) : offsets'[k] = offsets[k]
      /\ offsets'[Len(offsets) + 1] = Sampling!Offset(c)
  BY <1>1
<1>4. \A k \in DOMAIN offsets' : offsets'[k] \in Corners
  <2>1. \A k \in DOMAIN offsets : offsets[k] \in Corners
    BY DEF Sampled, Sampling!TypeOK, Corners
  <2>2. DOMAIN offsets = 1 .. Len(offsets)
    BY <1>1
  <2>. QED BY <1>1, <1>2, <1>3, <2>1, <2>2
<1>5. \A k \in DOMAIN offsets' :
        \E column \in 0 .. blocksInWidth - 1, row \in 0 .. blocksInHeight - 1 :
          offsets'[k] = [x |-> column * blockSize, y |-> row * blockSize]
  BY <1>4, Zenon DEF Corners
<1>6. Sampling!TypeOK'
  <2>1. /\ blocksInWidth' = blocksInWidth /\ blocksInHeight' = blocksInHeight
        /\ blockSize' = blockSize /\ requested' = requested /\ allow_wrap' = allow_wrap
        /\ numBlocks' = numBlocks /\ samplingPc' = samplingPc
    BY DEF Sampling!inputs
  <2>. QED BY <1>5, <2>1 DEF Sampled, Sampling!TypeOK
<1>7. ASSUME NEW b \in Sampling!Blocks
      PROVE  /\ Count(offsets, Sampling!Offset(b)) \in Nat
             /\ Count(offsets', Sampling!Offset(b)')
                  = Count(offsets, Sampling!Offset(b)) + (IF b = c THEN 1 ELSE 0)
  <2>1. Sampling!Offset(b)' = Sampling!Offset(b)
    BY Frozen
  <2>2. Sampling!Offset(b) = Sampling!Offset(c) <=> b = c
    BY OffsetInjective
  <2>3. /\ Count(offsets, Sampling!Offset(b)) \in Nat
        /\ Count(Append(offsets, Sampling!Offset(c)), Sampling!Offset(b))
             = Count(offsets, Sampling!Offset(b)) + (IF Sampling!Offset(b) = Sampling!Offset(c) THEN 1 ELSE 0)
    BY <1>1, CountAppend
  <2>. QED BY <2>1, <2>2, <2>3
<1>. QED BY <1>2, <1>3, <1>6, <1>7

LEMMA PushWrapKeepsSampled ==
  ASSUME Sampled, Sampling!PushWrap PROVE Sampled'
<1>1. /\ samplingPc = "wrap" /\ samplingPc' = "wrap" /\ UNCHANGED <<Sampling!inputs, numBlocks, samplingPc>>
      /\ wrapPush < Sampling!fullWraps * Sampling!totalBlocks /\ wrapPush' = wrapPush + 1
      /\ offsets' = Append(offsets, Sampling!Offset(wrapPush % Sampling!totalBlocks))
      /\ blockNum' = blockNum /\ sampled' = sampled
  BY DEF Sampling!PushWrap
<1>2. Request /\ WrapInv /\ Raster /\ Sampling!TypeOK
  BY <1>1 DEF Sampled, Request
<1>3. PICK T \in Nat \ {0} : T = Sampling!totalBlocks
  BY <1>2 DEF Raster
<1>4. PICK F \in Nat : F = Sampling!fullWraps /\ F * T \in Nat
  BY <1>2, <1>3, GoalFits DEF Request
<1>5. PICK q \in Nat, r \in 0 .. T - 1 : wrapPush = q * T + r /\ WrappedTo(q, r)
  BY <1>2, <1>3 DEF WrapInv
<1>6. wrapPush \in Nat /\ wrapPush % T = r /\ r \in Sampling!Blocks
  <2>1. wrapPush \in Nat
    BY <1>2 DEF Sampling!TypeOK
  <2>2. wrapPush % T = r
    BY <1>5, QuotientOf
  <2>. QED BY <1>3, <2>1, <2>2 DEF Sampling!Blocks
<1>7. UNCHANGED <<Sampling!inputs, numBlocks, samplingPc>> /\ wrapPush' \in Nat /\ blockNum' \in Nat /\ sampled' \in Nat
  BY <1>1, <1>2, <1>6 DEF Sampling!TypeOK
<1>8. /\ Sampling!TypeOK' /\ offsets' \in Seq(Points) /\ Len(offsets') = Len(offsets) + 1
      /\ \A b \in Sampling!Blocks :
           /\ Count(offsets, Sampling!Offset(b)) \in Nat
           /\ Count(offsets', Sampling!Offset(b)') = Count(offsets, Sampling!Offset(b)) + (IF b = r THEN 1 ELSE 0)
  <2>1. offsets' = Append(offsets, Sampling!Offset(r))
    BY <1>1, <1>3, <1>6
  <2>. QED BY <1>2, <1>6, <1>7, <2>1, PushKeepsSampled
<1>9. /\ Sampling!totalBlocks' = T /\ Sampling!fullWraps' = F /\ Sampling!Blocks' = Sampling!Blocks /\ Request'
  BY <1>1, <1>2, <1>3, <1>4, Frozen
<1>10. \E s \in Nat : \E t \in 0 .. T - 1 : wrapPush' = s * T + t /\ WrappedTo(s, t)'
  <2>1. ASSUME NEW b \in Sampling!Blocks
        PROVE  Count(offsets', Sampling!Offset(b)') = q + (IF b < r + 1 THEN 1 ELSE 0)
    <3>1. Count(offsets, Sampling!Offset(b)) = q + (IF b < r THEN 1 ELSE 0) /\ b \in Nat
      BY <1>3, <1>5, <2>1 DEF WrappedTo, Sampling!Blocks
    <3>. QED BY <1>8, <3>1
  <2>2. CASE r + 1 < T
    <3>1. WrappedTo(q, r + 1)'
      BY <1>9, <2>1, Zenon DEF WrappedTo
    <3>2. wrapPush' = q * T + (r + 1)
      BY <1>1, <1>5, Product
    <3>. QED BY <2>2, <3>1, <3>2
  <2>3. CASE r + 1 = T
    <3>1. \A b \in Sampling!Blocks : Count(offsets', Sampling!Offset(b)') = (q + 1) + (IF b < 0 THEN 1 ELSE 0)
      BY <1>3, <2>1, <2>3 DEF Sampling!Blocks
    <3>2. WrappedTo(q + 1, 0)'
      BY <1>9, <3>1, Zenon DEF WrappedTo
    <3>3. wrapPush' = (q + 1) * T + 0
      <4>1. (q + 1) * T = q * T + T /\ q * T \in Nat
        BY Product, SMT
      <4>. QED BY <1>1, <1>5, <2>3, <4>1
    <3>. QED BY <3>2, <3>3
  <2>. QED BY <2>2, <2>3
<1>11. WrapInv'
  <2>1. Sampling!totalBlocks' < numBlocks' /\ blockNum' = 0 /\ sampled' = 0
    BY <1>1, <1>2, <1>3, <1>9 DEF WrapInv
  <2>2. Len(offsets') = wrapPush' /\ wrapPush' <= F * T
    BY <1>1, <1>2, <1>3, <1>4, <1>6, <1>8 DEF WrapInv
  <2>. QED BY <1>9, <1>10, <2>1, <2>2 DEF WrapInv
<1>. QED BY <1>1, <1>8, <1>9, <1>11 DEF Sampled

LEMMA EndWrapsKeepsSampled ==
  ASSUME Sampled, Sampling!EndWraps PROVE Sampled'
<1>1. /\ samplingPc = "wrap" /\ wrapPush >= Sampling!fullWraps * Sampling!totalBlocks
      /\ samplingPc' = (IF Sampling!goal > 0 THEN "sample" ELSE "done")
      /\ UNCHANGED <<Sampling!inputs, numBlocks>>
      /\ offsets' = offsets /\ wrapPush' = wrapPush /\ blockNum' = blockNum /\ sampled' = sampled
  BY DEF Sampling!EndWraps
<1>2. Request /\ WrapInv /\ Raster /\ Sampling!TypeOK
  BY <1>1 DEF Sampled, Request
<1>3. PICK T \in Nat \ {0} : T = Sampling!totalBlocks
  BY <1>2 DEF Raster
<1>4. PICK F \in Nat, g \in Nat :
        F = Sampling!fullWraps /\ g = Sampling!goal /\ F * T \in Nat /\ F * T + g = numBlocks /\ g <= T
  BY <1>2, <1>3, GoalFits DEF Request
<1>5. PICK q \in Nat, r \in 0 .. T - 1 : wrapPush = q * T + r /\ WrappedTo(q, r)
  BY <1>2, <1>3 DEF WrapInv
<1>6. q = F /\ r = 0 /\ wrapPush = F * T
  <2>1. wrapPush >= F * T /\ wrapPush <= F * T
    BY <1>1, <1>2, <1>3, <1>4 DEF WrapInv
  <2>2. wrapPush \in Nat /\ F * T \in Nat
    BY <1>2, <1>4 DEF Sampling!TypeOK
  <2>3. wrapPush = F * T
    BY <2>1, <2>2
  <2>4. wrapPush = F * T + 0
    BY <2>2, <2>3
  <2>. QED BY <1>5, <2>3, <2>4, DivisionUnique
<1>7. /\ Sampling!totalBlocks' = T /\ Sampling!fullWraps' = F /\ Sampling!goal' = g /\ Sampling!Blocks' = Sampling!Blocks
      /\ Sampling!sampleInterval' = Sampling!sampleInterval /\ Request'
      /\ \A b : Count(offsets', Sampling!Offset(b)') = Count(offsets, Sampling!Offset(b))
  BY <1>1, <1>2, <1>3, <1>4, Frozen
<1>8. \A b \in Sampling!Blocks : Count(offsets', Sampling!Offset(b)') = F
  BY <1>3, <1>5, <1>6, <1>7 DEF WrappedTo, Sampling!Blocks
<1>9. Sampling!TypeOK' /\ (offsets \in Seq(Points))'
  BY <1>1 DEF Sampled, Sampling!TypeOK, Sampling!inputs
<1>10. SequenceInv'
  BY <1>1, <1>2, <1>3, <1>7 DEF SequenceInv, WrapInv, Sampling!TypeOK
<1>11. Len(offsets') = F * T /\ sampled' = 0 /\ blockNum' = 0
  BY <1>1, <1>2, <1>6 DEF WrapInv
<1>12. CASE Sampling!goal > 0
  <2>1. PICK v \in Nat : v = Sampling!sampleInterval' /\ 0 * v = 0
    <3>1. T \div g \in Nat
      BY <1>4, <1>12, Division
    <3>2. Sampling!sampleInterval \in Nat
      BY <1>3, <1>4, <3>1 DEF Sampling!sampleInterval
    <3>. QED BY <1>7, <3>2, Nothing
  <2>2. \A b : ~IsSampled(b)'
    BY <1>11 DEF IsSampled
  <2>3. \A b \in Sampling!Blocks : Count(offsets', Sampling!Offset(b)') = F + (IF IsSampled(b)' THEN 1 ELSE 0)
    BY <1>4, <1>8, <2>2
  <2>4. blockNum' = sampled' * Sampling!sampleInterval'
    BY <1>11, <2>1, Zenon
  <2>5. Len(offsets') = F * T + sampled' /\ Sampling!goal' > 0 /\ sampled' <= Sampling!goal'
    BY <1>4, <1>7, <1>11, <1>12
  <2>6. SampleInv'
    BY <1>7, <2>3, <2>4, <2>5, Zenon DEF SampleInv
  <2>. QED BY <1>1, <1>7, <1>9, <1>10, <1>12, <2>6 DEF Sampled
<1>13. CASE ~(Sampling!goal > 0)
  <2>1. g = 0 /\ numBlocks' = F * T
    BY <1>1, <1>4, <1>13
  <2>2. ResultInv'
    BY <1>7, <1>8, <1>11, <2>1 DEF ResultInv
  <2>. QED BY <1>1, <1>7, <1>9, <1>10, <1>13, <2>2 DEF Sampled
<1>. QED BY <1>12, <1>13

LEMMA PushSampleKeepsSampled ==
  ASSUME Sampled, Sampling!PushSample PROVE Sampled'
<1>1. /\ samplingPc = "sample" /\ samplingPc' = "sample" /\ UNCHANGED <<Sampling!inputs, numBlocks, samplingPc>>
      /\ sampled < Sampling!goal /\ sampled' = sampled + 1 /\ wrapPush' = wrapPush
      /\ offsets' = Append(offsets, Sampling!Offset(blockNum % Sampling!totalBlocks))
      /\ blockNum' = blockNum + Sampling!sampleInterval
  BY DEF Sampling!PushSample
<1>2. Request /\ SampleInv /\ SequenceInv /\ Raster /\ Sampling!TypeOK
  BY <1>1 DEF Sampled, Request
<1>3. PICK T \in Nat \ {0} : T = Sampling!totalBlocks
  BY <1>2 DEF Raster
<1>4. PICK F \in Nat, g \in Nat \ {0} :
        /\ F = Sampling!fullWraps /\ g = Sampling!goal /\ F * T \in Nat /\ g <= T
        /\ numBlocks <= T => F = 0
  BY <1>2, <1>3, GoalFits DEF Request, SampleInv
<1>5. PICK len \in Nat : len = sampled /\ len < g
  BY <1>1, <1>2, <1>4 DEF Sampling!TypeOK
<1>6. PICK v \in Nat \ {0}, m \in 0 .. T - 1 : v = Sampling!sampleInterval /\ m = len * v
  <2>1. Sampling!sampleInterval = (IF T \div g > 1 THEN T \div g ELSE 1)
    BY <1>3, <1>4 DEF Sampling!sampleInterval
  <2>2. Sampling!sampleInterval \in Nat \ {0} /\ len * Sampling!sampleInterval \in Nat /\ len * Sampling!sampleInterval < T
    BY <1>4, <1>5, <2>1, IntervalFits
  <2>. QED BY <2>2
<1>7. blockNum = m /\ m \in Sampling!Blocks /\ blockNum % T = m
  <2>1. blockNum = m
    BY <1>2, <1>5, <1>6 DEF SampleInv
  <2>2. m = 0 * T + m
    BY Nothing
  <2>3. m % T = m
    BY <2>2, QuotientOf
  <2>. QED BY <1>3, <2>1, <2>3 DEF Sampling!Blocks
<1>8. wrapPush' \in Nat /\ blockNum' \in Nat /\ sampled' \in Nat
  <2>1. wrapPush' \in Nat
    BY <1>1, <1>2 DEF Sampling!TypeOK
  <2>2. blockNum' = m + v /\ m \in Nat /\ v \in Nat
    BY <1>1, <1>6, <1>7
  <2>3. sampled' = len + 1
    BY <1>1, <1>5
  <2>. QED BY <1>5, <2>1, <2>2, <2>3
<1>9. /\ Sampling!TypeOK' /\ offsets' \in Seq(Points) /\ Len(offsets') = Len(offsets) + 1
      /\ \A k \in 1 .. Len(offsets) : offsets'[k] = offsets[k]
      /\ offsets'[Len(offsets) + 1] = Sampling!Offset(m)
      /\ \A b \in Sampling!Blocks :
           /\ Count(offsets, Sampling!Offset(b)) \in Nat
           /\ Count(offsets', Sampling!Offset(b)') = Count(offsets, Sampling!Offset(b)) + (IF b = m THEN 1 ELSE 0)
  <2>1. offsets' = Append(offsets, Sampling!Offset(m))
    BY <1>1, <1>3, <1>7
  <2>. QED BY <1>1, <1>2, <1>7, <1>8, <2>1, PushKeepsSampled
<1>10. /\ Sampling!totalBlocks' = T /\ Sampling!fullWraps' = F /\ Sampling!goal' = g /\ Sampling!Blocks' = Sampling!Blocks
       /\ Sampling!sampleInterval' = v /\ Request' /\ \A b : Sampling!Offset(b)' = Sampling!Offset(b)
  BY <1>1, <1>2, <1>3, <1>4, <1>6, Frozen
<1>11. ASSUME NEW b \in Sampling!Blocks
       PROVE  IsSampled(b)' <=> IsSampled(b) \/ b = m
  <2>1. IsSampled(b)' <=> \E j \in 0 .. len : b = j * v
    <3>1. sampled' - 1 = len
      BY <1>1, <1>5
    <3>. QED BY <1>10, <3>1 DEF IsSampled
  <2>2. IsSampled(b) <=> \E j \in 0 .. len - 1 : b = j * v
    BY <1>5, <1>6 DEF IsSampled
  <2>3. \A j \in 0 .. len : j = len \/ j \in 0 .. len - 1
    OBVIOUS
  <2>4. len \in 0 .. len /\ \A j \in 0 .. len - 1 : j \in 0 .. len
    OBVIOUS
  <2>. QED BY <1>6, <2>1, <2>2, <2>3, <2>4, Zenon
<1>12. ~IsSampled(m)
  <2> SUFFICES ASSUME NEW j \in 0 .. len - 1, len * v = j * v PROVE FALSE
    BY <1>5, <1>6 DEF IsSampled
  <2>1. len = j
    BY <1>6, MulCancel
  <2>. QED BY <2>1
<1>13. ASSUME NEW b \in Sampling!Blocks
       PROVE  Count(offsets', Sampling!Offset(b)') = F + (IF IsSampled(b)' THEN 1 ELSE 0)
  <2>1. Count(offsets, Sampling!Offset(b)) = F + (IF IsSampled(b) THEN 1 ELSE 0)
    BY <1>2, <1>4 DEF SampleInv
  <2>2. CASE b = m
    BY <1>9, <1>11, <1>12, <2>1, <2>2
  <2>3. CASE b # m
    BY <1>9, <1>11, <2>1, <2>3
  <2>. QED BY <2>2, <2>3
<1>14. SampleInv'
  <2>1. blockNum' = sampled' * Sampling!sampleInterval'
    <3>1. (len + 1) * v = len * v + v
      BY SMT
    <3>2. blockNum' = len * v + v
      BY <1>1, <1>6, <1>7
    <3>3. sampled' = len + 1
      BY <1>1, <1>5
    <3>. QED BY <1>10, <3>1, <3>2, <3>3, Zenon
  <2>2. Len(offsets') = F * T + sampled'
    <3>1. Len(offsets) = F * T + len
      BY <1>2, <1>3, <1>4, <1>5 DEF SampleInv
    <3>2. Len(offsets') = F * T + len + 1 /\ sampled' = len + 1
      BY <1>1, <1>5, <1>9, <3>1
    <3>. QED BY <1>4, <3>2
  <2>3. Sampling!goal' > 0 /\ sampled' <= Sampling!goal'
    BY <1>1, <1>4, <1>5, <1>10
  <2>. QED BY <1>10, <1>13, <2>1, <2>2, <2>3, Zenon DEF SampleInv
<1>15. SequenceInv'
  <2> SUFFICES ASSUME numBlocks' <= Sampling!totalBlocks'
               PROVE  /\ Len(offsets') = sampled' /\ sampled' <= Sampling!goal'
                      /\ (\A k \in 1 .. sampled : offsets[k] = Sampling!Offset((k - 1) * Sampling!sampleInterval))'
    BY Zenon DEF SequenceInv
  <2>1. Len(offsets) = len /\ \A k \in 1 .. len : offsets[k] = Sampling!Offset((k - 1) * v)
    BY <1>1, <1>2, <1>3, <1>5, <1>6, <1>10 DEF SequenceInv
  <2>2. Len(offsets') = len + 1 /\ sampled' = len + 1 /\ sampled' <= Sampling!goal'
    BY <1>1, <1>4, <1>5, <1>9, <1>10, <2>1
  <2>3. ASSUME NEW k \in 1 .. len + 1
        PROVE  offsets'[k] = Sampling!Offset((k - 1) * v)
    <3>1. CASE k <= len
      BY <1>9, <2>1, <3>1
    <3>2. CASE k = len + 1
      <4>1. k - 1 = len /\ (k - 1) * v = m
        BY <1>6, <3>2
      <4>2. offsets'[len + 1] = Sampling!Offset(m)
        BY <1>9, <2>1
      <4>. QED BY <3>2, <4>1, <4>2
    <3>. QED BY <3>1, <3>2
  <2>4. ASSUME NEW k \in 1 .. sampled'
        PROVE  (offsets[k] = Sampling!Offset((k - 1) * Sampling!sampleInterval))'
    <3>1. k \in 1 .. len + 1
      BY <2>2
    <3>. QED BY <1>10, <2>3, <3>1
  <2>. QED BY <2>2, <2>4
<1>. QED BY <1>1, <1>9, <1>10, <1>14, <1>15 DEF Sampled

LEMMA EndSamplesKeepsSampled ==
  ASSUME Sampled, Sampling!EndSamples PROVE Sampled'
<1>1. /\ samplingPc = "sample" /\ samplingPc' = "done" /\ sampled >= Sampling!goal /\ UNCHANGED <<Sampling!inputs, numBlocks>>
      /\ offsets' = offsets /\ wrapPush' = wrapPush /\ blockNum' = blockNum /\ sampled' = sampled
  BY DEF Sampling!EndSamples
<1>2. Request /\ SampleInv /\ SequenceInv /\ Raster /\ Sampling!TypeOK
  BY <1>1 DEF Sampled, Request
<1>3. /\ Sampling!fullWraps \in Nat /\ Sampling!goal \in Nat /\ Sampling!fullWraps * Sampling!totalBlocks + Sampling!goal = numBlocks
  BY <1>2, GoalFits DEF Request
<1>4. /\ Sampling!fullWraps' = Sampling!fullWraps /\ Sampling!goal' = Sampling!goal /\ Sampling!totalBlocks' = Sampling!totalBlocks
      /\ Sampling!Blocks' = Sampling!Blocks /\ Sampling!sampleInterval' = Sampling!sampleInterval /\ Request'
      /\ \A b : Sampling!Offset(b)' = Sampling!Offset(b)
  BY <1>1, <1>2, Frozen
<1>5. Sampling!TypeOK' /\ (offsets \in Seq(Points))'
  BY <1>1 DEF Sampled, Sampling!TypeOK, Sampling!inputs
<1>6. sampled = Sampling!goal
  BY <1>1, <1>2, <1>3 DEF SampleInv, Sampling!TypeOK
<1>7. Len(offsets') = numBlocks'
  BY <1>1, <1>2, <1>3, <1>6 DEF SampleInv
<1>8. \A b \in Sampling!Blocks : Count(offsets', Sampling!Offset(b)') \in {Sampling!fullWraps, Sampling!fullWraps + 1}
  BY <1>1, <1>2, <1>3, <1>4 DEF SampleInv
<1>9. ResultInv'
  BY <1>4, <1>7, <1>8 DEF ResultInv
<1>10. SequenceInv'
  BY <1>1, <1>2, <1>4 DEF SequenceInv
<1>. QED BY <1>1, <1>4, <1>5, <1>9, <1>10 DEF Sampled

LEMMA StutterKeepsSampled ==
  ASSUME Sampled, UNCHANGED samplingVars PROVE Sampled'
<1>1. /\ UNCHANGED <<Sampling!inputs, numBlocks>>
      /\ offsets' = offsets /\ wrapPush' = wrapPush /\ blockNum' = blockNum /\ sampled' = sampled
      /\ samplingPc' = samplingPc
  BY DEF samplingVars, Sampling!inputs
<1>2. /\ Sampling!totalBlocks' = Sampling!totalBlocks /\ Sampling!fullWraps' = Sampling!fullWraps /\ Sampling!goal' = Sampling!goal
      /\ Sampling!sampleInterval' = Sampling!sampleInterval /\ Sampling!Blocks' = Sampling!Blocks
      /\ \A b : Sampling!Offset(b)' = Sampling!Offset(b)
      /\ Request' <=> Request
  BY <1>1, Frozen
<1>3. Sampling!TypeOK' <=> Sampling!TypeOK
  BY <1>1 DEF Sampling!TypeOK, Sampling!inputs
<1>4. WrapInv' <=> WrapInv
  BY <1>1, <1>2 DEF WrapInv, WrappedTo
<1>5. SampleInv' <=> SampleInv
  BY <1>1, <1>2 DEF SampleInv, IsSampled
<1>6. SequenceInv' <=> SequenceInv
  BY <1>1, <1>2 DEF SequenceInv
<1>7. ResultInv' <=> ResultInv
  BY <1>1, <1>2 DEF ResultInv
<1>8. /\ numBlocks' = numBlocks /\ requested' = requested
  BY <1>1 DEF Sampling!inputs
<1>. QED BY <1>1, <1>2, <1>3, <1>4, <1>5, <1>6, <1>7, <1>8, Zenon DEF Sampled

\* Without wraps the k-th offset is that of block (k - 1) * sampleInterval, which
\* is another one for each k.
LEMMA SamplesDiffer == Sampled => Sampling!NoRepetition
<1> SUFFICES ASSUME Sampled, numBlocks <= Sampling!totalBlocks,
                    NEW j \in DOMAIN offsets, NEW k \in DOMAIN offsets, offsets[j] = offsets[k]
             PROVE  j = k
  BY DEF Sampling!NoRepetition
<1>1. offsets \in Seq(Points) /\ Sampling!TypeOK
  BY DEF Sampled
<1>2. samplingPc \in {"sample", "done"}
  <2>1. samplingPc \notin {"start", "trap"}
    BY DEF Sampled
  <2>2. samplingPc # "wrap"
    <3> SUFFICES ASSUME samplingPc = "wrap" PROVE FALSE
      OBVIOUS
    <3>1. Sampling!totalBlocks < numBlocks /\ Sampling!totalBlocks \in Nat /\ numBlocks \in Nat
      BY DEF Sampled, WrapInv, Request, Raster
    <3>. QED BY <3>1
  <2>. QED BY <1>1, <2>1, <2>2 DEF Sampling!TypeOK
<1>3. Request /\ Raster /\ SequenceInv
  BY <1>2 DEF Sampled, Request
<1>4. PICK T \in Nat \ {0}, g \in Nat \ {0} : T = Sampling!totalBlocks /\ g = Sampling!goal /\ g <= T
  BY <1>3, GoalFits DEF Request, Raster
<1>5. PICK len \in Nat :
        /\ len = sampled /\ len <= g /\ Len(offsets) = len
        /\ \A l \in 1 .. len : offsets[l] = Sampling!Offset((l - 1) * Sampling!sampleInterval)
  BY <1>1, <1>3, <1>4 DEF SequenceInv, Sampling!TypeOK
<1>6. j \in 1 .. len /\ k \in 1 .. len
  BY <1>1, <1>5
<1>7. Sampling!sampleInterval = (IF T \div g > 1 THEN T \div g ELSE 1)
  BY <1>4 DEF Sampling!sampleInterval
<1>8. PICK v \in Nat \ {0} : v = Sampling!sampleInterval
  <2>1. 0 \in Nat /\ 0 < g
    BY <1>4
  <2>. QED BY <1>4, <1>7, <2>1, IntervalFits
<1>9. ASSUME NEW l \in 1 .. len
      PROVE  (l - 1) * v \in Sampling!Blocks /\ offsets[l] = Sampling!Offset((l - 1) * v)
  <2>1. l - 1 \in Nat /\ l - 1 < g
    BY <1>4, <1>5
  <2>2. (l - 1) * v \in Nat /\ (l - 1) * v < T
    BY <1>4, <1>7, <1>8, <2>1, IntervalFits
  <2>. QED BY <1>4, <1>5, <1>8, <2>2 DEF Sampling!Blocks
<1>10. (j - 1) * v = (k - 1) * v
  BY <1>3, <1>6, <1>9, OffsetInjective
<1>11. j - 1 = k - 1
  <2>1. j - 1 \in Nat /\ k - 1 \in Nat
    BY <1>6
  <2>. QED BY <1>10, <2>1, MulCancel
<1>. QED BY <1>6, <1>11

\* At the end every block has been visited as often as there were wraps, or once
\* more.
LEMMA VisitsAreBalanced == Sampled => Sampling!Balanced
<1> SUFFICES ASSUME Sampled, samplingPc = "done" PROVE
      /\ Len(offsets) = IF allow_wrap \/ requested <= Sampling!totalBlocks THEN requested ELSE Sampling!totalBlocks
      /\ \A b, c \in Sampling!Blocks : Sampling!Visits(b) <= Sampling!Visits(c) + 1
  BY DEF Sampling!Balanced
<1>1. Request /\ Raster /\ ResultInv
  BY DEF Sampled, Request
<1>2. PICK F \in Nat : F = Sampling!fullWraps
  BY <1>1, GoalFits DEF Request
<1>3. ASSUME NEW b \in Sampling!Blocks PROVE Sampling!Visits(b) \in {F, F + 1}
  <2>1. Sampling!Corner(b) = Sampling!Offset(b)
    BY <1>1, CornerIsOffset
  <2>2. Sampling!Visits(b) = Count(offsets, Sampling!Offset(b))
    <3>1. \A S : Sampling!Cardinality(S) = Cardinality(S)
      BY DEF Sampling!Cardinality, Sampling!IsFiniteSet, Cardinality, IsFiniteSet
    <3>. QED BY <2>1, <3>1 DEF Sampling!Visits, Count
  <2>. QED BY <1>1, <1>2, <2>2 DEF ResultInv
<1>4. \A b, c \in Sampling!Blocks : Sampling!Visits(b) <= Sampling!Visits(c) + 1
  BY <1>2, <1>3
<1>. QED BY <1>1, <1>4 DEF ResultInv, Request

LEMMA SampleKeepsSampled ==
  ASSUME Sampled, Sample PROVE Sampled'
BY StartKeepsSampled, PushWrapKeepsSampled, EndWrapsKeepsSampled, PushSampleKeepsSampled,
   EndSamplesKeepsSampled, Zenon DEF Sample

\* What is known of the offsets when the sampling has ended.
LEMMA GridSize ==
  ASSUME Sampled, samplingPc = "done", allow_wrap
  PROVE  /\ Len(offsets) \in Requests /\ Len(offsets) \in Nat \ {0}
         /\ InGrid = 1 .. Len(offsets)
         /\ blockSize \in BlockSizes /\ blockSize \in Nat \ {0}
         /\ \A b \in InGrid : \E w \in Sides, h \in Sides :
              \E column \in 0 .. w - 1, row \in 0 .. h - 1 :
                offsets[b] = [x |-> column * blockSize, y |-> row * blockSize]
<1>1. /\ Sampling!TypeOK /\ Request /\ ResultInv
      /\ offsets \in Seq(Points)
  BY Zenon DEF Sampled
<1>2. /\ Len(offsets) = numBlocks /\ numBlocks \in Nat \ {0} /\ numBlocks = requested
  BY <1>1 DEF ResultInv, Request
<1>3. /\ blocksInWidth \in Sides /\ blocksInHeight \in Sides
      /\ requested \in Requests /\ blockSize \in BlockSizes
      /\ \A k \in DOMAIN offsets :
           \E column \in 0 .. blocksInWidth - 1, row \in 0 .. blocksInHeight - 1 :
             offsets[k] = [x |-> column * blockSize, y |-> row * blockSize]
  BY <1>1 DEF Sampling!TypeOK
<1>4. InGrid = 1 .. Len(offsets)
  BY <1>1, LenProperties DEF InGrid
<1>. QED BY <1>2, <1>3, <1>4, SizeAssumption DEF InGrid

LEMMA CombosAreRuns ==
  ASSUME Init, allow_wrap PROVE combo \in Runs
<1>1. /\ blocksInWidth \in Sides /\ blocksInHeight \in Sides
      /\ requested \in Requests /\ blockSize \in BlockSizes
      /\ combo \in Combos(blocksInWidth * blocksInHeight, requested, blockSize)
  BY DEF Init, Sampling!Init, Sampling!totalBlocks
<1>. QED BY <1>1 DEF Runs

----------------------------------------------------------------------------
(* The invariant *)

\* What main has done up to now, and the order of the accesses.
ControlInv ==
  /\ pc \in {"sample", "rep", "access", "done", "throw"}
  /\ rep \in Nat /\ pos \in Nat
  /\ allow_wrap => combo \in Runs
  /\ pc = "sample" =>
       /\ rep = 0 /\ meanCompRatio = None
       /\ stats = [k \in Kinds |-> {}] /\ med = [k \in Kinds |-> <<>>]
  /\ pc # "sample" =>
       /\ samplingPc = "done" /\ allow_wrap
       /\ accessIndexes \in Bijection(InGrid, InGrid)
  /\ pc = "access" => rep < combo.numReps /\ pos <= Len(offsets)
  /\ pc = "done" => rep >= combo.numReps

\* The grid is as long as the sample, and the one all repetitions share is
\* never touched.
GridForm ==
  /\ pc = "access" => codecs = [b \in InGrid |-> codecs[b]]
  /\ pc # "sample" /\ staticGrid => codecs = SplitIntoFullBlocks

RatioInv ==
  /\ meanCompRatio # None => meanCompRatio = SplitIntoFullBlocks
  /\ (pc # "sample" /\ combo.path = "uint16" /\ (staticGrid \/ rep > 0 \/ pc = "access")) =>
       meanCompRatio = SplitIntoFullBlocks

\* The first upto accesses of repetition r, as far as they are measured.
OfRep(kind, r, upto) ==
  IF kind = "enc" /\ ~dataChange THEN {}
  ELSE {<<r, p, accessIndexes[p + 1]>> : p \in 0 .. upto - 1}

Timed == IF rep > combo.numSkip THEN rep - combo.numSkip ELSE 0

Pushed(kind) == UNION {med[kind][k] : k \in 1 .. Timed}

\* The samples are the timed repetitions, the totals are those of the samples
\* and of the repetition that is being measured.
SamplesOf(kind) ==
  /\ Len(med[kind]) = Timed
  /\ \A k \in 1 .. Timed : med[kind][k] = OfRep(kind, combo.numSkip + k - 1, Len(offsets))
  /\ pc # "access" => stats[kind] = Pushed(kind)
  /\ pc = "access" =>
       /\ prev[kind] = Pushed(kind)
       /\ stats[kind] = Pushed(kind) \cup
                          (IF rep < combo.numSkip THEN {} ELSE OfRep(kind, rep, pos))

SamplesInv ==
  /\ med \in [Kinds -> Seq(SUBSET (Nat \X Nat \X Nat))]
  /\ stats = [kind \in Kinds |-> stats[kind]]
  /\ pc # "sample" => \A kind \in Kinds : SamplesOf(kind)

IInv == Sampled /\ ControlInv /\ GridForm /\ RatioInv /\ SamplesInv

LEMMA FunctionIsSeq ==
  ASSUME NEW m \in Nat, NEW f, f = [k \in 1 .. m |-> f[k]]
  PROVE  Len(f) = m /\ f \in Seq({f[k] : k \in 1 .. m})
<1>1. f \in [1 .. m -> {f[k] : k \in 1 .. m}]
  OBVIOUS
<1>2. f \in Seq({f[k] : k \in 1 .. m})
  BY <1>1, SeqDef
<1>3. DOMAIN f = 1 .. m /\ DOMAIN f = 1 .. Len(f) /\ Len(f) \in Nat
  BY <1>1, <1>2, LenProperties
<1>. QED BY <1>2, <1>3

\* What no action behind the sampling changes.
LEMMA Settled ==
  ASSUME UNCHANGED <<samplingVars, combo>>
  PROVE  /\ offsets' = offsets /\ samplingPc' = samplingPc /\ allow_wrap' = allow_wrap
         /\ InGrid' = InGrid /\ (dataChange' <=> dataChange) /\ (staticGrid' <=> staticGrid)
         /\ SplitIntoFullBlocks' = SplitIntoFullBlocks
BY DEF samplingVars, InGrid, dataChange, staticGrid, SplitIntoFullBlocks, Prepared, n

LEMMA SettledRep ==
  ASSUME UNCHANGED <<samplingVars, combo, accessIndexes>>
  PROVE  \A kind, r, upto : OfRep(kind, r, upto)' = OfRep(kind, r, upto)
BY Settled DEF OfRep

\* The combination that is run.
LEMMA ComboFacts ==
  ASSUME ControlInv, pc # "sample"
  PROVE  /\ combo \in Runs /\ combo.numReps \in Nat /\ combo.numSkip \in Nat
         /\ combo.base.overflow \in Nat
BY CombosAssumption DEF ControlInv

LEMMA InitInv == Init => IInv
<1> SUFFICES ASSUME Init PROVE IInv
  OBVIOUS
<1>1. Sampled
  BY SamplingBegins DEF Init
<1>2. ControlInv
  BY CombosAreRuns DEF Init, ControlInv
<1>3. GridForm /\ RatioInv
  BY DEF Init, GridForm, RatioInv
<1>4. SamplesInv
  <2>1. \A S : <<>> \in Seq(S)
    BY EmptySeq
  <2>. QED BY <2>1 DEF Init, SamplesInv
<1>. QED BY <1>1, <1>2, <1>3, <1>4 DEF IInv

LEMMA SampleKeeps ==
  ASSUME IInv, Sample PROVE IInv'
<1>1. /\ pc = "sample" /\ pc' = "sample"
      /\ UNCHANGED <<combo, rep, accessVars, statVars>>
  BY DEF Sample
<1>2. allow_wrap' = allow_wrap
  BY DEF Sample, Sampling!Start, Sampling!PushWrap, Sampling!EndWraps, Sampling!PushSample,
         Sampling!EndSamples, Sampling!inputs
<1>3. Sampled'
  BY SampleKeepsSampled DEF IInv
<1>4. ControlInv'
  BY <1>1, <1>2 DEF IInv, ControlInv, accessVars, statVars
<1>5. GridForm' /\ RatioInv'
  BY <1>1 DEF IInv, ControlInv, GridForm, RatioInv, statVars
<1>6. SamplesInv'
  BY <1>1 DEF IInv, SamplesInv, statVars
<1>. QED BY <1>3, <1>4, <1>5, <1>6 DEF IInv

LEMMA BeginKeeps ==
  ASSUME IInv, Begin PROVE IInv'
<1>1. /\ pc = "sample" /\ pc' = "rep" /\ samplingPc = "done" /\ allow_wrap
      /\ UNCHANGED <<samplingVars, combo>>
      /\ rep' = rep /\ pos' = pos /\ stats' = stats /\ med' = med
      /\ codecs' = (IF staticGrid THEN SplitIntoFullBlocks ELSE None)
      /\ meanCompRatio' = codecs'
  BY DEF Begin
<1>2. /\ Len(offsets) \in Requests /\ Len(offsets) \in Nat \ {0} /\ InGrid = 1 .. Len(offsets)
  BY <1>1, GridSize DEF IInv
<1>3. rep = 0 /\ stats = [k \in Kinds |-> {}] /\ med = [k \in Kinds |-> <<>>] /\ combo \in Runs
  BY <1>1 DEF IInv, ControlInv
<1>4. Sampled'
  BY <1>1, StutterKeepsSampled DEF IInv
<1>5. accessIndexes' \in Bijection(InGrid, InGrid)
  <2>1. CASE combo.pattern = "linear"
    <3>1. accessIndexes' = [k \in InGrid |-> k]
      BY <2>1 DEF Begin, InGrid
    <3>. QED BY <3>1 DEF Bijection, Injection, Surjection, IsInjective
  <2>2. CASE combo.pattern # "linear"
    BY <1>2, <2>2, ShufflesAssumption DEF Begin
  <2>. QED BY <2>1, <2>2
<1>6. ControlInv'
  BY <1>1, <1>3, <1>5, Settled DEF IInv, ControlInv
<1>7. GridForm' /\ RatioInv'
  BY <1>1, <1>3, Settled DEF IInv, GridForm, RatioInv
<1>8. SamplesInv'
  <2>1. Timed' = 0
    BY <1>1, <1>3, CombosAssumption DEF Timed
  <2>2. \A kind \in Kinds : Len(med[kind]) = 0
    BY <1>3
  <2>. QED BY <1>1, <1>3, <2>1, <2>2 DEF IInv, SamplesInv, SamplesOf, Pushed
<1>. QED BY <1>4, <1>6, <1>7, <1>8 DEF IInv

LEMMA StartRepKeeps ==
  ASSUME IInv, StartRep PROVE IInv'
<1>1. /\ pc = "rep" /\ pc' = "access" /\ rep < combo.numReps
      /\ UNCHANGED <<samplingVars, combo, accessIndexes>>
      /\ rep' = rep /\ pos' = 0 /\ stats' = stats /\ med' = med /\ prev' = stats
      /\ codecs' = (IF staticGrid THEN codecs ELSE SplitIntoFullBlocks)
      /\ meanCompRatio' = (IF combo.path = "uint16" /\ rep = 0 THEN codecs' ELSE meanCompRatio)
  BY DEF StartRep
<1>2. Len(offsets) \in Nat \ {0}
  BY <1>1, GridSize DEF IInv, ControlInv
<1>3. codecs' = SplitIntoFullBlocks
  BY <1>1 DEF IInv, GridForm
<1>4. Sampled'
  BY <1>1, StutterKeepsSampled DEF IInv
<1>5. ControlInv'
  BY <1>1, <1>2, Settled DEF IInv, ControlInv
<1>6. GridForm'
  <2>1. codecs' = [b \in InGrid |-> codecs'[b]]
    BY <1>3 DEF SplitIntoFullBlocks, InGrid
  <2>. QED BY <1>1, <1>3, <2>1, Settled DEF GridForm
<1>7. RatioInv'
  <2>1. ASSUME combo.path = "uint16" PROVE meanCompRatio' = SplitIntoFullBlocks
    <3>1. CASE rep = 0
      BY <1>1, <1>3, <2>1, <3>1
    <3>2. CASE rep # 0
      BY <1>1, <2>1, <3>2 DEF IInv, ControlInv, RatioInv
    <3>. QED BY <3>1, <3>2
  <2>2. ASSUME combo.path # "uint16" PROVE meanCompRatio' = meanCompRatio
    BY <1>1, <2>2
  <2>. QED BY <1>1, <2>1, <2>2, Settled DEF IInv, RatioInv
<1>8. SamplesInv'
  <2>1. Timed' = Timed
    BY <1>1 DEF Timed
  <2>2. \A kind : Pushed(kind)' = Pushed(kind)
    BY <1>1, <2>1 DEF Pushed
  <2>3. \A kind : OfRep(kind, rep, 0) = {}
    BY DEF OfRep
  <2>. QED BY <1>1, <2>1, <2>2, <2>3, Settled, SettledRep DEF IInv, SamplesInv, SamplesOf
<1>. QED BY <1>4, <1>5, <1>6, <1>7, <1>8 DEF IInv

\* A step that only moves the program counter away from a repetition's end.
LEMMA MoveKeeps ==
  ASSUME IInv, pc = "rep", pc' \in {"throw", "done"}, pc' = "done" => rep >= combo.numReps,
         UNCHANGED <<samplingVars, combo, rep, accessVars, statVars>>
  PROVE  IInv'
<1>1. /\ UNCHANGED <<samplingVars, combo, accessIndexes>>
      /\ rep' = rep /\ pos' = pos /\ stats' = stats /\ med' = med /\ prev' = prev
      /\ codecs' = codecs /\ meanCompRatio' = meanCompRatio
  BY DEF accessVars, statVars
<1>2. Sampled'
  BY <1>1, StutterKeepsSampled DEF IInv
<1>3. ControlInv'
  BY <1>1, Settled DEF IInv, ControlInv
<1>4. GridForm' /\ RatioInv'
  BY <1>1, Settled DEF IInv, GridForm, RatioInv
<1>5. Timed' = Timed /\ \A kind : Pushed(kind)' = Pushed(kind)
  BY <1>1 DEF Timed, Pushed
<1>6. SamplesInv'
  BY <1>1, <1>5, Settled, SettledRep DEF IInv, SamplesInv, SamplesOf
<1>. QED BY <1>2, <1>3, <1>4, <1>6 DEF IInv

LEMMA AccessBlockKeeps ==
  ASSUME IInv, AccessBlock PROVE IInv'
<1>1. /\ pc = "access" /\ pc' = "access" /\ pos < Len(codecs) /\ pos' = pos + 1
      /\ UNCHANGED <<samplingVars, combo, accessIndexes>>
      /\ rep' = rep /\ med' = med /\ prev' = prev /\ meanCompRatio' = meanCompRatio
      /\ stats' = Measured(accessIndexes[pos + 1])
  BY DEF AccessBlock
<1>2. /\ Len(offsets) \in Nat \ {0} /\ InGrid = 1 .. Len(offsets)
  BY <1>1, GridSize DEF IInv, ControlInv
<1>3. Len(codecs) = Len(offsets)
  BY <1>1, <1>2, FunctionIsSeq DEF IInv, GridForm
<1>4. rep \in Nat /\ pos \in Nat /\ pos < Len(offsets)
  BY <1>1, <1>3 DEF IInv, ControlInv
<1>5. Sampled'
  BY <1>1, StutterKeepsSampled DEF IInv
<1>6. ControlInv'
  BY <1>1, <1>2, <1>4, Settled DEF IInv, ControlInv
<1>7. GridForm'
  <2>1. codecs' = [b \in InGrid |-> codecs'[b]]
    <3>1. codecs = [b \in InGrid |-> codecs[b]]
      BY <1>1 DEF IInv, GridForm
    <3>2. \/ codecs' = codecs
          \/ \E e : codecs' = [codecs EXCEPT ![accessIndexes[pos + 1]] = e]
      BY Zenon DEF AccessBlock
    <3>. QED BY <3>1, <3>2
  <2>2. staticGrid => codecs' = codecs
    BY Zenon DEF AccessBlock, staticGrid
  <2>3. staticGrid => codecs = SplitIntoFullBlocks
    BY <1>1 DEF IInv, GridForm
  <2>. QED BY <1>1, <2>1, <2>2, <2>3, Settled DEF GridForm
<1>8. RatioInv'
  BY <1>1, Settled DEF IInv, RatioInv
<1>9. SamplesInv'
  <2>1. Timed' = Timed /\ \A kind : Pushed(kind)' = Pushed(kind)
    BY <1>1 DEF Timed, Pushed
  <2>2. ASSUME NEW kind
        PROVE  OfRep(kind, rep, pos + 1) = OfRep(kind, rep, pos) \cup
                 (IF kind = "enc" /\ ~dataChange THEN {} ELSE {<<rep, pos, accessIndexes[pos + 1]>>})
    <3>1. 0 .. (pos + 1) - 1 = (0 .. pos - 1) \cup {pos}
      BY <1>4
    <3>. QED BY <3>1 DEF OfRep
  <2>3. ASSUME NEW kind \in Kinds
        PROVE  stats'[kind] = Pushed(kind) \cup
                               (IF rep < combo.numSkip THEN {} ELSE OfRep(kind, rep, pos + 1))
    <3>1. stats[kind] = Pushed(kind) \cup
                         (IF rep < combo.numSkip THEN {} ELSE OfRep(kind, rep, pos))
      BY <1>1 DEF IInv, SamplesInv, SamplesOf
    <3>2. stats'[kind] =
            IF rep < combo.numSkip \/ (kind = "enc" /\ ~dataChange) THEN stats[kind]
            ELSE stats[kind] \cup {<<rep, pos, accessIndexes[pos + 1]>>}
      BY <1>1 DEF Measured
    <3>3. CASE rep < combo.numSkip
      BY <3>1, <3>2, <3>3
    <3>4. CASE ~(rep < combo.numSkip)
      BY <2>2, <3>1, <3>2, <3>4
    <3>. QED BY <3>3, <3>4
  <2>4. stats' = [kind \in Kinds |-> stats'[kind]]
    BY <1>1 DEF Measured
  <2>. QED BY <1>1, <2>1, <2>3, <2>4, Settled, SettledRep DEF IInv, SamplesInv, SamplesOf
<1>. QED BY <1>5, <1>6, <1>7, <1>8, <1>9 DEF IInv

\* What is pushed has been measured in an earlier repetition.
LEMMA PushedIsEarlier ==
  ASSUME IInv, pc # "sample", NEW kind \in Kinds, NEW m \in Pushed(kind)
  PROVE  m[1] < rep
<1>1. combo.numSkip \in Nat /\ rep \in Nat
  BY ComboFacts DEF IInv, ControlInv
<1>2. PICK k \in 1 .. Timed : m \in med[kind][k]
  BY DEF Pushed
<1>3. m \in OfRep(kind, combo.numSkip + k - 1, Len(offsets))
  BY <1>2 DEF IInv, SamplesInv, SamplesOf
<1>4. m[1] = combo.numSkip + k - 1
  BY <1>3 DEF OfRep
<1>. QED BY <1>1, <1>4 DEF Timed

LEMMA EndRepKeeps ==
  ASSUME IInv, EndRep PROVE IInv'
<1>1. /\ pc = "access" /\ pc' = "rep" /\ pos = Len(codecs) /\ rep' = rep + 1
      /\ UNCHANGED <<samplingVars, combo, accessIndexes>>
      /\ pos' = pos /\ codecs' = codecs /\ stats' = stats /\ meanCompRatio' = meanCompRatio
      /\ med' = (IF rep < combo.numSkip THEN med
                  ELSE [k \in Kinds |-> Append(med[k], stats[k] \ prev[k])])
  BY DEF EndRep, accessVars
<1>2. /\ Len(offsets) \in Nat \ {0} /\ InGrid = 1 .. Len(offsets)
  BY <1>1, GridSize DEF IInv, ControlInv
<1>3. pos = Len(offsets)
  BY <1>1, <1>2, FunctionIsSeq DEF IInv, GridForm
<1>4. rep \in Nat /\ combo.numSkip \in Nat
  BY <1>1, ComboFacts DEF IInv, ControlInv
<1>5. Sampled'
  BY <1>1, StutterKeepsSampled DEF IInv
<1>6. ControlInv'
  BY <1>1, <1>4, Settled DEF IInv, ControlInv
<1>7. GridForm' /\ RatioInv'
  BY <1>1, <1>4, Settled DEF IInv, GridForm, RatioInv
<1>8. SamplesInv'
  <2>1. CASE rep < combo.numSkip
    <3>1. Timed' = 0 /\ Timed = 0
      BY <1>1, <1>4, <2>1 DEF Timed
    <3>2. \A kind : Pushed(kind)' = Pushed(kind)
      BY <1>1, <2>1, <3>1 DEF Pushed
    <3>3. ASSUME NEW kind \in Kinds PROVE SamplesOf(kind)'
      <4>1. Len(med[kind]) = 0 /\ stats[kind] = Pushed(kind)
        BY <1>1, <2>1, <3>1 DEF IInv, SamplesInv, SamplesOf
      <4>. QED BY <1>1, <2>1, <3>1, <3>2, <4>1 DEF SamplesOf
    <3>. QED BY <1>1, <2>1, <3>3 DEF IInv, SamplesInv
  <2>2. CASE ~(rep < combo.numSkip)
    <3> DEFINE Sample0(kind) == OfRep(kind, rep, Len(offsets))
    <3>1. Timed \in Nat /\ Timed' = Timed + 1 /\ rep = combo.numSkip + (Timed + 1) - 1
      BY <1>1, <1>4, <2>2 DEF Timed
    <3>2. ASSUME NEW kind \in Kinds
          PROVE  /\ stats[kind] \ prev[kind] = Sample0(kind)
                 /\ stats[kind] = Pushed(kind) \cup Sample0(kind)
                 /\ Sample0(kind) \in SUBSET (Nat \X Nat \X Nat)
      <4>1. prev[kind] = Pushed(kind) /\ stats[kind] = Pushed(kind) \cup Sample0(kind)
        BY <1>1, <1>3, <2>2 DEF IInv, SamplesInv, SamplesOf
      <4>2. \A m \in Sample0(kind) : m \notin Pushed(kind)
        <5> SUFFICES ASSUME NEW m \in Sample0(kind), m \in Pushed(kind) PROVE FALSE
          OBVIOUS
        <5>1. m[1] = rep
          BY DEF OfRep
        <5>. QED BY <1>1, <1>4, <5>1, PushedIsEarlier
      <4>3. Sample0(kind) \in SUBSET (Nat \X Nat \X Nat)
        <5>1. accessIndexes \in [1 .. Len(offsets) -> 1 .. Len(offsets)]
          BY <1>1, <1>2 DEF IInv, ControlInv, Bijection, Injection
        <5>2. \A p \in 0 .. Len(offsets) - 1 : accessIndexes[p + 1] \in Nat
          BY <1>2, <5>1
        <5>. QED BY <1>4, <5>2 DEF OfRep
      <4>. QED BY <4>1, <4>2, <4>3
    <3>3. ASSUME NEW kind \in Kinds
          PROVE  /\ med'[kind] = Append(med[kind], Sample0(kind))
                 /\ med'[kind] \in Seq(SUBSET (Nat \X Nat \X Nat))
                 /\ Len(med'[kind]) = Timed + 1
                 /\ \A k \in 1 .. Timed : med'[kind][k] = med[kind][k]
                 /\ med'[kind][Timed + 1] = Sample0(kind)
      <4>1. med'[kind] = Append(med[kind], Sample0(kind))
        BY <1>1, <2>2, <3>2
      <4>2. med[kind] \in Seq(SUBSET (Nat \X Nat \X Nat)) /\ Len(med[kind]) = Timed
        BY <1>1 DEF IInv, SamplesInv, SamplesOf
      <4>. QED BY <3>1, <3>2, <4>1, <4>2, AppendProperties
    <3>4. ASSUME NEW kind \in Kinds PROVE Pushed(kind)' = stats[kind]
      <4>2. Pushed(kind)' = UNION {med'[kind][k] : k \in 1 .. Timed + 1}
        BY <3>1 DEF Pushed
      <4>3. Pushed(kind)' = Pushed(kind) \cup Sample0(kind)
        <5>1. 1 .. Timed + 1 = (1 .. Timed) \cup {Timed + 1}
          BY <3>1
        <5>2. \A k \in 1 .. Timed : med'[kind][k] = med[kind][k]
          BY <3>3
        <5>3. {med'[kind][k] : k \in 1 .. Timed + 1}
                = {med[kind][k] : k \in 1 .. Timed} \cup {med'[kind][Timed + 1]}
          BY <5>1, <5>2
        <5>4. UNION ({med[kind][k] : k \in 1 .. Timed} \cup {med'[kind][Timed + 1]})
                = (UNION {med[kind][k] : k \in 1 .. Timed}) \cup med'[kind][Timed + 1]
          OBVIOUS
        <5>5. Pushed(kind) = UNION {med[kind][k] : k \in 1 .. Timed}
          BY DEF Pushed
        <5>6. med'[kind][Timed + 1] = Sample0(kind)
          BY <3>3
        <5> HIDE DEF Sample0
        <5>. QED BY <4>2, <5>3, <5>4, <5>5, <5>6, Zenon
      <4>. QED BY <3>2, <4>3
    <3>5. ASSUME NEW kind \in Kinds, NEW k \in 1 .. Timed + 1
          PROVE  med'[kind][k] = OfRep(kind, combo.numSkip + k - 1, Len(offsets))
      <4>1. CASE k = Timed + 1
        BY <3>1, <3>3, <4>1
      <4>2. CASE k \in 1 .. Timed
        BY <1>1, <3>3, <4>2 DEF IInv, SamplesInv, SamplesOf
      <4>. QED BY <3>1, <4>1, <4>2
    <3>6. med' \in [Kinds -> Seq(SUBSET (Nat \X Nat \X Nat))]
      BY <1>1, <2>2, <3>3
    <3> HIDE DEF Sample0
    <3>7. ASSUME NEW kind \in Kinds PROVE SamplesOf(kind)'
      <4>1. ASSUME NEW k \in 1 .. Timed + 1
            PROVE  med'[kind][k] = OfRep(kind, combo.numSkip + k - 1, Len(offsets))'
        BY <1>1, <3>5, Settled, SettledRep
      <4>2. combo' = combo /\ Timed' = Timed + 1 /\ Len(med'[kind]) = Timed + 1
        BY <1>1, <3>1, <3>3
      <4>3. stats'[kind] = Pushed(kind)'
        BY <1>1, <3>4
      <4>. QED BY <1>1, <4>1, <4>2, <4>3 DEF SamplesOf
    <3>. QED BY <1>1, <3>6, <3>7 DEF IInv, SamplesInv
  <2>. QED BY <2>1, <2>2
<1>. QED BY <1>5, <1>6, <1>7, <1>8 DEF IInv

LEMMA StutterKeeps ==
  ASSUME IInv, UNCHANGED vars PROVE IInv'
<1>1. /\ UNCHANGED <<samplingVars, combo, accessIndexes>>
      /\ rep' = rep /\ pos' = pos /\ stats' = stats /\ med' = med /\ prev' = prev
      /\ codecs' = codecs /\ meanCompRatio' = meanCompRatio /\ pc' = pc
  BY DEF vars, accessVars, statVars
<1>2. Sampled'
  BY <1>1, StutterKeepsSampled DEF IInv
<1>3. ControlInv'
  BY <1>1, Settled DEF IInv, ControlInv
<1>4. GridForm' /\ RatioInv'
  BY <1>1, Settled DEF IInv, GridForm, RatioInv
<1>5. Timed' = Timed /\ \A kind : Pushed(kind)' = Pushed(kind)
  BY <1>1 DEF Timed, Pushed
<1>6. SamplesInv'
  BY <1>1, <1>5, Settled, SettledRep DEF IInv, SamplesInv, SamplesOf
<1>. QED BY <1>2, <1>3, <1>4, <1>6 DEF IInv

\* The pipeline's control, its grid, its ratio and its samples are what the
\* parts of the invariant say, in every reachable state.
THEOREM Invariant == Spec => []IInv
<1>1. Init => IInv
  BY InitInv
<1>2. IInv /\ [Next]_vars => IInv'
  <2> SUFFICES ASSUME IInv, [Next]_vars PROVE IInv'
    OBVIOUS
  <2>1. CASE Throw
    BY <2>1, MoveKeeps DEF Throw
  <2>2. CASE Report
    BY <2>2, MoveKeeps DEF Report
  <2>3. CASE Finished
    BY <2>3, StutterKeeps DEF Finished
  <2>. QED BY <2>1, <2>2, <2>3, SampleKeeps, BeginKeeps, StartRepKeeps, AccessBlockKeeps,
              EndRepKeeps, StutterKeeps DEF Next
<1>. QED BY <1>1, <1>2, PTL DEF Spec

----------------------------------------------------------------------------
(* The properties *)

\* The program samples no block twice unless it asks for more than there are.
THEOREM NoneIsRepeated == Spec => []NoRepetition
<1>1. IInv => NoRepetition
  BY SamplesDiffer DEF IInv, NoRepetition
<1>. QED BY <1>1, Invariant, PTL

\* The program gets as many blocks as it asks for and visits none of them twice
\* more than another.
THEOREM WrapsAreBalanced == Spec => []Balanced
<1>1. IInv => Balanced
  BY VisitsAreBalanced DEF IInv, Balanced
<1>. QED BY <1>1, Invariant, PTL

\* A repetition's measurements are as many as there are blocks, and of each.
LEMMA WholeRepetition ==
  ASSUME NEW m \in Nat, accessIndexes \in Bijection(1 .. m, 1 .. m), NEW r, NEW kind,
         kind = "enc" => dataChange
  PROVE  /\ Visited(OfRep(kind, r, m)) = 1 .. m
         /\ Cardinality(OfRep(kind, r, m)) = m
         /\ \A s \in OfRep(kind, r, m) : s[1] = r
<1> DEFINE S == {<<r, p, accessIndexes[p + 1]>> : p \in 0 .. m - 1}
<1>1. OfRep(kind, r, m) = S
  BY DEF OfRep
<1>2. Visited(S) = {accessIndexes[p + 1] : p \in 0 .. m - 1}
  <2>1. ASSUME NEW b \in Visited(S) PROVE \E p \in 0 .. m - 1 : b = accessIndexes[p + 1]
    BY DEF Visited
  <2>2. ASSUME NEW p \in 0 .. m - 1 PROVE accessIndexes[p + 1] \in Visited(S)
    <3>1. <<r, p, accessIndexes[p + 1]>> \in S
      OBVIOUS
    <3>2. <<r, p, accessIndexes[p + 1]>>[3] = accessIndexes[p + 1]
      OBVIOUS
    <3> HIDE DEF S
    <3>. QED BY <3>1, <3>2 DEF Visited
  <2> HIDE DEF S
  <2>. QED BY <2>1, <2>2
<1>3. /\ \A k \in 1 .. m : accessIndexes[k] \in 1 .. m
      /\ \A b \in 1 .. m : \E k \in 1 .. m : accessIndexes[k] = b
  BY DEF Bijection, Surjection
<1>4. \A k \in 1 .. m : k - 1 \in 0 .. m - 1 /\ (k - 1) + 1 = k
  OBVIOUS
<1>5. Visited(S) = 1 .. m
  <2>1. ASSUME NEW b \in 1 .. m PROVE b \in Visited(S)
    <3>1. PICK k \in 1 .. m : accessIndexes[k] = b
      BY <1>3
    <3>. QED BY <1>2, <1>4, <3>1
  <2>2. ASSUME NEW p \in 0 .. m - 1 PROVE accessIndexes[p + 1] \in 1 .. m
    BY <1>3
  <2>. QED BY <1>2, <2>1, <2>2
<1>6. Cardinality(S) = m
  <2> DEFINE f == [k \in 1 .. m |-> <<r, k - 1, accessIndexes[k]>>]
  <2>1. f \in Bijection(1 .. m, S)
    <3>1. \A k \in 1 .. m : f[k] \in S
      BY <1>4
    <3>2. \A j, k \in 1 .. m : f[j] = f[k] => j = k
      BY <1>4
    <3>3. \A s \in S : \E k \in 1 .. m : f[k] = s
      <4> SUFFICES ASSUME NEW p \in 0 .. m - 1
                   PROVE  \E k \in 1 .. m : f[k] = <<r, p, accessIndexes[p + 1]>>
        OBVIOUS
      <4>1. p + 1 \in 1 .. m /\ (p + 1) - 1 = p
        OBVIOUS
      <4>. QED BY <4>1
    <3>. QED BY <3>1, <3>2, <3>3 DEF Bijection, Injection, Surjection, IsInjective
  <2>2. ExistsBijection(1 .. m, S)
    BY <2>1 DEF ExistsBijection
  <2>. QED BY <2>2, FS_CountingElements
<1>7. \A s \in S : s[1] = r
  OBVIOUS
<1>. QED BY <1>1, <1>5, <1>6, <1>7

\* Each sample is one timed repetition, whole and unmixed, and the totals are
\* those of the samples.
THEOREM SamplesAreWhole == Spec => []SamplesAreRepetitions
<1>1. IInv => SamplesAreRepetitions
  <2> SUFFICES ASSUME IInv, NEW kind \in Kinds, pc \in {"rep", "done"}
               PROVE  /\ Len(med[kind]) = Timed
                      /\ stats[kind] = UNION {med[kind][k] : k \in 1 .. Timed}
                      /\ (kind = "enc" => dataChange) =>
                           \A k \in 1 .. Timed :
                             /\ Visited(med[kind][k]) = InGrid
                             /\ Cardinality(med[kind][k]) = Len(offsets)
                             /\ \A m \in med[kind][k] : m[1] = combo.numSkip + k - 1
    BY DEF SamplesAreRepetitions, Timed
  <2>1. SamplesOf(kind)
    BY DEF IInv, SamplesInv
  <2>2. InGrid = 1 .. Len(offsets) /\ Len(offsets) \in Nat
    BY GridSize DEF IInv, ControlInv
  <2>3. accessIndexes \in Bijection(1 .. Len(offsets), 1 .. Len(offsets))
    BY <2>2 DEF IInv, ControlInv
  <2>4. ASSUME kind = "enc" => dataChange, NEW k \in 1 .. Timed
        PROVE  /\ Visited(med[kind][k]) = InGrid
               /\ Cardinality(med[kind][k]) = Len(offsets)
               /\ \A m \in med[kind][k] : m[1] = combo.numSkip + k - 1
    <3>1. med[kind][k] = OfRep(kind, combo.numSkip + k - 1, Len(offsets))
      BY <2>1 DEF SamplesOf
    <3>. QED BY <2>2, <2>3, <2>4, <3>1, WholeRepetition
  <2>. QED BY <2>1, <2>4 DEF SamplesOf, Pushed
<1>. QED BY <1>1, Invariant, PTL

\* The reported ratio is that of the blocks as the base codec encoded them.
THEOREM RatioOfBase == Spec => []RatioIsOfBase
<1>1. IInv => RatioIsOfBase
  <2> SUFFICES ASSUME IInv PROVE RatioIsOfBase
    OBVIOUS
  <2>1. SplitIntoFullBlocks = [b \in InGrid |-> [codec |-> combo.base, words |-> Block(b)]]
    BY DEF SplitIntoFullBlocks, InGrid, Block
  <2>2. ASSUME pc = "done", combo.path = "uint16", staticGrid \/ combo.numReps > 0
        PROVE  meanCompRatio # None
    <3>1. meanCompRatio = SplitIntoFullBlocks
      <4>1. rep \in Nat /\ combo.numReps \in Nat /\ rep >= combo.numReps
        BY <2>2, ComboFacts DEF IInv, ControlInv
      <4>2. staticGrid \/ rep > 0
        BY <2>2, <4>1
      <4>. QED BY <2>2, <4>2 DEF IInv, RatioInv
    <3>2. 1 \in DOMAIN SplitIntoFullBlocks
      <4>1. InGrid = 1 .. Len(offsets) /\ Len(offsets) \in Nat \ {0}
        BY <2>2, GridSize DEF IInv, ControlInv
      <4>. QED BY <2>1, <4>1
    <3>3. DOMAIN None = {}
      BY DEF None
    <3>. QED BY <3>1, <3>2, <3>3
  <2>. QED BY <2>1, <2>2 DEF IInv, RatioInv, RatioIsOfBase
<1>. QED BY <1>1, Invariant, PTL

----------------------------------------------------------------------------
(* The grid *)

\* f is an array of m words, or of whatever else.
Array(f, m) == f = [k \in 1 .. m |-> f[k]]

LEMMA ArrayLength ==
  ASSUME NEW m \in Nat, NEW f, Array(f, m)
  PROVE  Len(f) = m /\ DOMAIN f = 1 .. m
BY FunctionIsSeq DEF Array

LEMMA FrontOfArray ==
  ASSUME NEW l \in Nat, NEW m \in Nat, NEW f, Array(f, l + m)
  PROVE  SubSeq(f, 1, l) = [k \in 1 .. l |-> f[k]]
<1> DEFINE S == {f[k] : k \in 1 .. l + m}
           front == SubSeq(f, 1, l)
<1>1. f \in Seq(S) /\ Len(f) = l + m
  BY FunctionIsSeq DEF Array
<1> HIDE DEF S
<1>2. /\ front \in Seq(S) /\ Len(front) = l
      /\ \A k \in 1 .. l : front[k] = f[1 + k - 1]
  <2>1. 1 \in 1 .. Len(f) + 1 /\ l \in 1 - 1 .. Len(f)
    BY <1>1
  <2>. QED BY <1>1, <2>1, SubSeqProperties
<1> HIDE DEF front
<1>3. DOMAIN front = 1 .. l /\ front = [k \in DOMAIN front |-> front[k]]
  BY <1>2, LenProperties
<1>4. \A k \in 1 .. l : front[k] = f[k]
  BY <1>2
<1>5. front = [k \in 1 .. l |-> f[k]]
  BY <1>3, <1>4
<1>. QED BY <1>5 DEF front

\* Every transformation gives an array as long as its argument.
LEMMA TransformationKeepsLength ==
  ASSUME NEW m \in Nat, NEW f, Array(f, m), NEW t,
         t = "none" \/ AccessTransformationMutatesData(t)
  PROVE  Array(ApplyTransformation(f, t), m)
<1>1. Len(f) = m /\ DOMAIN f = 1 .. m
  BY ArrayLength
<1>2. CASE t = "none"
  BY <1>2 DEF ApplyTransformation
<1>3. CASE t = "Threshold"
  BY <1>1, <1>3 DEF ApplyTransformation, Threshold, Array
<1>4. CASE t = "SmoothAndShift"
  <2>1. ApplyTransformation(f, t) = SmoothAndShift(f)
    BY <1>4 DEF ApplyTransformation
  <2>. QED BY <1>1, <2>1 DEF SmoothAndShift, Array
<1>5. CASE t = "IndexBasedClassification"
  BY <1>1, <1>5 DEF ApplyTransformation, IndexBasedClassification, Array
<1>6. CASE t = "ValueBasedClassification"
  BY <1>1, <1>6 DEF ApplyTransformation, ValueBasedClassification, Array
<1>7. CASE t = "ValueShift"
  BY <1>1, <1>7 DEF ApplyTransformation, ValueShift, Array
<1>. QED BY <1>2, <1>3, <1>4, <1>5, <1>6, <1>7 DEF AccessTransformationMutatesData

----------------------------------------------------------------------------
(* Orderings and transformations *)

LEMMA WordFacts ==
  /\ Half \in Nat \ {0} /\ WordSize \in Nat \ {0} /\ WordSize = 2 * Half /\ WordSize >= 2
  /\ \A a \in Int : a % WordSize \in Word
  /\ \A w \in Word : Signed(w) \in Int /\ w \in Nat
  /\ \A a \in Int : Wrapped(a) \in Int
<1>1. Half \in Nat \ {0} /\ WordSize = 2 * Half
  BY HalfAssumption DEF WordSize
<1>2. \A a \in Int : a % WordSize \in Word
  BY <1>1, QuotientRemainder DEF Word
<1>3. \A w \in Word : Signed(w) \in Int /\ w \in Nat
  BY <1>1 DEF Word, Signed
<1>4. ASSUME NEW a \in Int PROVE Wrapped(a) \in Int
  BY <1>2, <1>3 DEF Wrapped
<1>. QED BY <1>1, <1>2, <1>3, <1>4

LEMMA ModuloIsWord == ASSUME NEW a \in Int PROVE a % WordSize \in Word
BY WordFacts

LEMMA QuotientIsInt ==
  ASSUME NEW a \in Int, NEW b \in Int \ {0} PROVE Quotient(a, b) \in Int
<1> DEFINE mag(x) == IF x < 0 THEN -x ELSE x
<1>1. mag(a) \in Nat /\ mag(b) \in Nat \ {0}
  OBVIOUS
<1>2. mag(a) \div mag(b) \in Int
  BY <1>1, QuotientRemainder
<1> HIDE DEF mag
<1>3. -(mag(a) \div mag(b)) \in Int
  BY <1>2
<1>. QED BY <1>2, <1>3 DEF Quotient, mag

\* The words of a block are finitely many integers.
LEMMA WordsAreFinite ==
  ASSUME NEW m \in Nat, NEW f \in [1 .. m -> Int]
  PROVE  AllOf(f) \in SUBSET Int /\ IsFiniteSet(AllOf(f)) /\ (m > 0 => AllOf(f) # {})
<1>1. DOMAIN f = 1 .. m /\ IsFiniteSet(1 .. m)
  BY FS_Interval
<1>2. IsFiniteSet(AllOf(f))
  BY <1>1, FiniteImage DEF AllOf
<1>. QED BY <1>1, <1>2 DEF AllOf

LEMMA LeastOfTwo ==
  ASSUME NEW a \in Int, NEW b \in Int PROVE Min({a, b}) \in {a, b} /\ Min({a, b}) <= a /\ Min({a, b}) <= b
<1>1. {a, b} \in SUBSET Int /\ {a, b} # {} /\ IsFiniteSet({a, b})
  <2>1. {a, b} = {a} \cup {b}
    OBVIOUS
  <2>2. IsFiniteSet({a} \cup {b})
    BY FS_Singleton, FS_Union
  <2>. QED BY <2>1, <2>2
<1>2. Min({a, b}) \in {a, b} /\ \A y \in {a, b} : Min({a, b}) <= y
  BY ONLY <1>1, MinIsLeast
<1>. QED BY <1>2

\* A transformation makes words of words.
LEMMA TransformationType ==
  ASSUME NEW m \in Nat, MaxClasses <= m, MaxClasses <= WordSize,
         NEW f \in [1 .. m -> Word], NEW t,
         t = "none" \/ AccessTransformationMutatesData(t)
  PROVE  ApplyTransformation(f, t) \in [1 .. m -> Word]
<1>1. Len(f) = m /\ DOMAIN f = 1 .. m /\ m > 1 /\ MaxClasses - 1 \in Nat \ {0} /\ MaxClasses \in Nat
  <2>1. f \in Seq(Word) /\ DOMAIN f = 1 .. m
    BY SeqDef
  <2>. QED BY <2>1, LenProperties, ClassesAssumption
<1>2. \A k \in 1 .. m : Signed(f[k]) \in Int
  BY WordFacts
<1>3. Ints(f) \in [1 .. m -> Int] /\ Ints(f) = [k \in 1 .. m |-> Signed(f[k])]
  BY <1>1, <1>2 DEF Ints
<1>4. CASE t = "none"
  BY <1>4 DEF ApplyTransformation
<1>5. CASE t = "Threshold"
  <2>1. 0 \in Word /\ 1 \in Word
    BY WordFacts DEF Word
  <2>2. ApplyTransformation(f, t)
          = [k \in 1 .. m |-> IF Signed(f[k]) >= Avg(f) THEN 1 ELSE 0]
    BY <1>1, <1>5 DEF ApplyTransformation, Threshold
  <2>. QED BY <2>1, <2>2
<1>6. CASE t = "SmoothAndShift"
  <2> DEFINE s == Smoothed(f)
             d == Ints(f)
             low == Min({0} \cup AllOf(s))
  <2>1. s \in [1 .. m -> Int]
    <3> HIDE DEF d
    <3>0. d \in [1 .. m -> Int]
      BY <1>3 DEF d
    <3>1. s = [k \in 1 .. m |->
                CASE k = 1 -> Quotient(Wrapped(d[1] + d[2]), 2)
                  [] k = m -> Quotient(Wrapped(d[m - 1] + d[m]), 2)
                  [] OTHER -> Quotient(Wrapped(d[k - 1] + d[k] + d[k + 1]), 3)]
      BY <1>1 DEF Smoothed, d
    <3>2. ASSUME NEW k \in 1 .. m PROVE s[k] \in Int
      <4>1. CASE k = 1
        <5>1. s[k] = Quotient(Wrapped(d[1] + d[2]), 2) /\ d[1] + d[2] \in Int
          BY <1>1, <3>0, <3>1, <4>1
        <5>2. Wrapped(d[1] + d[2]) \in Int
          BY <5>1, WordFacts
        <5>. QED BY <5>1, <5>2, QuotientIsInt
      <4>2. CASE k # 1 /\ k = m
        <5>1. s[k] = Quotient(Wrapped(d[m - 1] + d[m]), 2) /\ d[m - 1] + d[m] \in Int
          BY <1>1, <3>0, <3>1, <4>2
        <5>2. Wrapped(d[m - 1] + d[m]) \in Int
          BY <5>1, WordFacts
        <5>. QED BY <5>1, <5>2, QuotientIsInt
      <4>3. CASE k # 1 /\ k # m
        <5>1. /\ s[k] = Quotient(Wrapped(d[k - 1] + d[k] + d[k + 1]), 3)
              /\ d[k - 1] + d[k] + d[k + 1] \in Int
          <6>1. k - 1 \in 1 .. m /\ k + 1 \in 1 .. m
            BY <4>3
          <6>. QED BY <3>0, <3>1, <4>3, <6>1
        <5>2. Wrapped(d[k - 1] + d[k] + d[k + 1]) \in Int
          BY <5>1, WordFacts
        <5>. QED BY <5>1, <5>2, QuotientIsInt
      <4>. QED BY <4>1, <4>2, <4>3
    <3> HIDE DEF s
    <3>3. s = [k \in 1 .. m |-> s[k]]
      BY <3>1
    <3>. QED BY <3>2, <3>3
  <2>2. low \in Int
    <3> HIDE DEF s
    <3>1. AllOf(s) \in SUBSET Int /\ IsFiniteSet(AllOf(s))
      BY <2>1, WordsAreFinite
    <3>2. {0} \cup AllOf(s) \in SUBSET Int /\ {0} \cup AllOf(s) # {}
      BY <3>1
    <3>3. IsFiniteSet({0} \cup AllOf(s))
      BY <3>1, FS_Singleton, FS_Union
    <3>. QED BY <3>2, <3>3, MinIsLeast
  <2>3. ApplyTransformation(f, t) = [k \in 1 .. m |-> (s[k] - low) % WordSize]
    <3>1. ApplyTransformation(f, t) = SmoothAndShift(f)
      BY <1>6 DEF ApplyTransformation
    <3>. QED BY <1>1, <3>1 DEF SmoothAndShift
  <2> HIDE DEF s, low
  <2>4. ASSUME NEW k \in 1 .. m PROVE (s[k] - low) % WordSize \in Word
    <3>1. s[k] - low \in Int
      BY <2>1, <2>2
    <3>. QED BY <3>1, ModuloIsWord
  <2>. QED BY <2>3, <2>4
<1>7. CASE t = "IndexBasedClassification"
  <2> DEFINE items == m \div MaxClasses
  <2>1. items \in Nat \ {0}
    <3>1. items \in Int /\ m % MaxClasses < MaxClasses /\ m = MaxClasses * items + (m % MaxClasses)
      BY <1>1, QuotientRemainder
    <3>. QED BY <1>1, <3>1
  <2>2. ApplyTransformation(f, t) = [k \in 1 .. m |-> Min({(k - 1) \div items, MaxClasses - 1})]
    <3>1. ApplyTransformation(f, t) = IndexBasedClassification(f)
      BY <1>7 DEF ApplyTransformation
    <3>. QED BY <1>1, <3>1 DEF IndexBasedClassification
  <2> HIDE DEF items
  <2>3. ASSUME NEW k \in 1 .. m PROVE Min({(k - 1) \div items, MaxClasses - 1}) \in Word
    <3>1. (k - 1) \div items \in Nat
      BY <2>1
    <3>2. Min({(k - 1) \div items, MaxClasses - 1}) \in 0 .. MaxClasses - 1
      <4>1. \A a \in Nat, b \in Nat : Min({a, b}) \in 0 .. b
        BY LeastOfTwo
      <4>. QED BY <1>1, <3>1, <4>1
    <3>. QED BY <1>1, <3>2, WordFacts DEF Word
  <2>. QED BY <2>2, <2>3
<1>8. CASE t = "ValueBasedClassification"
  <2> DEFINE d       == Ints(f)
             minVal  == Min(AllOf(d))
             maxVal  == Max(AllOf(d))
             binSize == Quotient(Wrapped(maxVal - minVal), MaxClasses - 1)
  <2>1. minVal \in Int /\ maxVal \in Int
    <3> HIDE DEF d
    <3>1. AllOf(d) \in SUBSET Int /\ IsFiniteSet(AllOf(d)) /\ AllOf(d) # {}
      <4>1. d \in [1 .. m -> Int] /\ m > 0
        BY <1>1, <1>3 DEF d
      <4>. QED BY <4>1, WordsAreFinite
    <3>. QED BY <3>1, MinIsLeast, MaxIsGreatest
  <2>2. ApplyTransformation(f, t)
          = [k \in 1 .. m |-> IF binSize = 0 THEN 0
                              ELSE Min({Quotient(Wrapped(d[k] - minVal), binSize), MaxClasses - 1})
                                     % WordSize]
    <3>1. ApplyTransformation(f, t) = ValueBasedClassification(f)
      BY <1>8 DEF ApplyTransformation
    <3>. QED BY <1>1, <3>1 DEF ValueBasedClassification
  <2>3. binSize \in Int
    <3> HIDE DEF minVal, maxVal
    <3>1. Wrapped(maxVal - minVal) \in Int
      BY <2>1, WordFacts
    <3>. QED BY <1>1, <3>1, QuotientIsInt
  <2> HIDE DEF d, minVal, maxVal, binSize
  <2>4. ASSUME NEW k \in 1 .. m, binSize # 0
        PROVE  Min({Quotient(Wrapped(d[k] - minVal), binSize), MaxClasses - 1}) % WordSize \in Word
    <3>1. d[k] - minVal \in Int
      BY <1>3, <2>1 DEF d
    <3>2. Quotient(Wrapped(d[k] - minVal), binSize) \in Int
      BY <2>3, <2>4, <3>1, WordFacts, QuotientIsInt
    <3>3. \A a \in Int, b \in Int : Min({a, b}) \in Int
      BY LeastOfTwo
    <3>4. Min({Quotient(Wrapped(d[k] - minVal), binSize), MaxClasses - 1}) \in Int
      BY <1>1, <3>2, <3>3
    <3>. QED BY <3>4, ModuloIsWord
  <2>5. 0 \in Word
    BY WordFacts DEF Word
  <2>. QED BY <2>2, <2>4, <2>5
<1>9. CASE t = "ValueShift"
  <2>1. ApplyTransformation(f, t) = [k \in 1 .. m |-> Plus(f[k], Delta)]
    BY <1>1, <1>9 DEF ApplyTransformation, ValueShift
  <2>2. ASSUME NEW k \in 1 .. m PROVE Plus(f[k], Delta) \in Word
    <3>1. f[k] + Delta \in Int
      <4>1. f[k] \in Word /\ Delta \in Word
        BY ShiftAssumption
      <4>2. \A w \in Word : w \in Int
        BY WordFacts
      <4>. QED BY <4>1, <4>2
    <3>. QED BY <3>1, ModuloIsWord DEF Plus
  <2>. QED BY <2>1, <2>2
<1>. QED BY <1>4, <1>5, <1>6, <1>7, <1>8, <1>9 DEF AccessTransformationMutatesData

----------------------------------------------------------------------------
(* Orderings *)

\* An ordering is a permutation of the places of a block.
LEMMA PlacesSplit ==
  ASSUME NEW N \in Nat \ {0}, NEW s \in Places(N)
  PROVE  /\ s \div N \in 0 .. N - 1 /\ s % N \in 0 .. N - 1
         /\ s = N * (s \div N) + (s % N)
<1>1. s \in Nat /\ s < N * N
  BY DEF Places
<1>2. /\ s \div N \in Int /\ s % N \in 0 .. N - 1 /\ s = N * (s \div N) + (s % N)
  <2>1. s \in Int /\ N \in Nat \ {0}
    BY <1>1
  <2>. QED BY ONLY <2>1, QuotientRemainder
<1> DEFINE q == s \div N
<1>3. q >= 0
  BY <1>1
<1>4. q < N
  <2>1. ASSUME q >= N PROVE FALSE
    <3>1. N * N <= q * N
      BY <1>2, <2>1, MulMono
    <3>2. q * N = N * q
      BY <1>2
    <3>. QED BY <1>1, <1>2, <3>1, <3>2
  <2>. QED BY <1>2, <2>1
<1>. QED BY <1>2, <1>3, <1>4

LEMMA PlaceOf ==
  ASSUME NEW N \in Nat \ {0}, NEW q \in 0 .. N - 1, NEW r \in 0 .. N - 1
  PROVE  /\ N * q + r \in Places(N)
         /\ (N * q + r) \div N = q /\ (N * q + r) % N = r
<1>1. q * N <= (N - 1) * N
  BY MulMono
<1>2. q * N = N * q /\ (N - 1) * N = N * N - N /\ N * q \in Nat
  OBVIOUS
<1>3. N * q + r \in Places(N)
  BY <1>1, <1>2 DEF Places
<1>4. (N * q + r) \div N = q /\ (N * q + r) % N = r
  <2>1. q \in Int /\ N \in Nat \ {0} /\ r \in 0 .. N - 1
    OBVIOUS
  <2>. QED BY ONLY <2>1, QuotientUnique
<1>. QED BY <1>3, <1>4

LEMMA ZigzagIsPermutation ==
  ASSUME NEW N \in Nat \ {0}
  PROVE  ZigzagOrder(N) \in Bijection(Places(N), Places(N))
<1> DEFINE z == ZigzagOrder(N)
<1>1. ASSUME NEW s \in Places(N)
      PROVE  z[s] \in Places(N) /\ z[z[s]] = s
  <2> DEFINE q == s \div N
             r == s % N
  <2>1. q \in 0 .. N - 1 /\ r \in 0 .. N - 1 /\ s = N * q + r
    BY PlacesSplit
  <2>2. z[s] = IF q % 2 = 0 THEN s ELSE q * N + (N - 1 - r)
    BY DEF ZigzagOrder
  <2>3. CASE q % 2 = 0
    BY <2>2, <2>3
  <2>4. CASE q % 2 # 0
    <3> HIDE DEF q, r
    <3> DEFINE t == N * q + (N - 1 - r)
    <3>1. z[s] = t
      <4>1. q * N = N * q
        BY <2>1
      <4>. QED BY <2>2, <2>4, <4>1
    <3>2. N - 1 - r \in 0 .. N - 1
      BY <2>1
    <3>3. t \in Places(N) /\ t \div N = q /\ t % N = N - 1 - r
      BY <2>1, <3>2, PlaceOf
    <3> HIDE DEF t
    <3>4. z[t] = q * N + (N - 1 - (N - 1 - r))
      BY <2>4, <3>3 DEF ZigzagOrder
    <3>5. N - 1 - (N - 1 - r) = r /\ q * N = N * q
      BY <2>1
    <3>. QED BY <2>1, <3>1, <3>3, <3>4, <3>5
  <2>. QED BY <2>3, <2>4
<1>2. z = [s \in Places(N) |-> z[s]]
  BY DEF ZigzagOrder
<1> HIDE DEF z
<1>3. z \in [Places(N) -> Places(N)]
  BY <1>1, <1>2
<1>4. \A s, t \in Places(N) : z[s] = z[t] => s = t
  BY <1>1, Zenon
<1>5. \A t \in Places(N) : \E s \in Places(N) : z[s] = t
  BY <1>1
<1>. QED BY <1>3, <1>4, <1>5 DEF z, Bijection, Injection, Surjection, IsInjective

\* The bits of a number, spread: the definition is one.
SpreadStep(f, x) == IF x = 0 THEN 0 ELSE (x % 2) + 4 * f[x \div 2]
SpreadUpTo(k)    == CHOOSE f : f = [x \in 0 .. k |-> SpreadStep(f, x)]

LEMMA HalfIsLess ==
  ASSUME NEW x \in Nat \ {0}
  PROVE  x \div 2 \in 0 .. x - 1 /\ x % 2 \in {0, 1} /\ x = 2 * (x \div 2) + (x % 2)
OBVIOUS

LEMMA SpreadUpToUnfolds ==
  ASSUME NEW k \in Nat
  PROVE  \A x \in 0 .. k : SpreadUpTo(k)[x] = SpreadStep(SpreadUpTo(k), x)
<1> DEFINE Good(j) == \E f : f = [x \in 0 .. j |-> SpreadStep(f, x)]
           Bad     == {j \in Nat : ~Good(j)}
<1>1. Good(0)
  <2> DEFINE f == [x \in 0 .. 0 |-> 0]
  <2>1. f = [x \in 0 .. 0 |-> SpreadStep(f, x)]
    BY DEF SpreadStep
  <2>. QED BY <2>1
<1>2. ASSUME NEW j \in Nat, Good(j) PROVE Good(j + 1)
  <2>1. PICK f : f = [x \in 0 .. j |-> SpreadStep(f, x)]
    BY <1>2
  <2> DEFINE g == [x \in 0 .. j + 1 |-> SpreadStep(f, x)]
  <2>2. \A x \in 0 .. j : g[x] = f[x]
    <3>1. \A x \in 0 .. j : x \in 0 .. j + 1 /\ f[x] = SpreadStep(f, x)
      BY <2>1
    <3>. QED BY <3>1
  <2>3. ASSUME NEW x \in 0 .. j + 1 PROVE SpreadStep(f, x) = SpreadStep(g, x)
    <3> HIDE DEF g
    <3>1. x # 0 => x \div 2 \in 0 .. j
      BY HalfIsLess
    <3>. QED BY <2>2, <3>1 DEF SpreadStep
  <2>4. g = [x \in 0 .. j + 1 |-> SpreadStep(g, x)]
    <3>1. [x \in 0 .. j + 1 |-> SpreadStep(f, x)] = [x \in 0 .. j + 1 |-> SpreadStep(g, x)]
      <4> HIDE DEF g
      <4>. QED BY <2>3
    <3>. QED BY <3>1, Zenon
  <2>. QED BY <2>4
<1> HIDE DEF Good
<1>3. ASSUME Bad # {} PROVE FALSE
  <2>1. PICK j \in Bad : \A i \in Bad : j <= i
    <3>1. Bad \in SUBSET Nat /\ Bad # {}
      BY <1>3
    <3> HIDE DEF Bad
    <3>. QED BY <3>1, LeastNatural
  <2>2. j \in Nat /\ j # 0
    BY <1>1
  <2>3. j - 1 \in Nat /\ (j - 1) + 1 = j /\ ~(j <= j - 1)
    BY <2>2
  <2>4. Good(j - 1)
    BY <2>1, <2>3
  <2>. QED BY <1>2, <2>3, <2>4
<1>4. Good(k)
  BY <1>3
<1>5. SpreadUpTo(k) = [x \in 0 .. k |-> SpreadStep(SpreadUpTo(k), x)]
  BY <1>4 DEF Good, SpreadUpTo
<1>. QED BY <1>5

LEMMA SpreadUpToAgree ==
  ASSUME NEW j \in Nat, NEW k \in Nat, NEW x \in Nat, x <= j, x <= k
  PROVE  SpreadUpTo(j)[x] = SpreadUpTo(k)[x]
<1> DEFINE a == SpreadUpTo(j)
           b == SpreadUpTo(k)
           Bad == {y \in Nat : y <= j /\ y <= k /\ a[y] # b[y]}
<1>1. /\ \A y \in Nat : y <= j => a[y] = SpreadStep(a, y)
      /\ \A y \in Nat : y <= k => b[y] = SpreadStep(b, y)
  BY SpreadUpToUnfolds
<1> HIDE DEF a, b
<1>2. ASSUME Bad # {} PROVE FALSE
  <2>1. PICK y \in Bad : \A z \in Bad : y <= z
    <3>1. Bad \in SUBSET Nat /\ Bad # {}
      BY <1>2
    <3> HIDE DEF Bad
    <3>. QED BY <3>1, LeastNatural
  <2>2. y \in Nat /\ y <= j /\ y <= k /\ a[y] # b[y]
    OBVIOUS
  <2>3. a[y] = SpreadStep(a, y) /\ b[y] = SpreadStep(b, y)
    BY <1>1, <2>2
  <2>4. y # 0
    BY <2>2, <2>3 DEF SpreadStep
  <2>5. a[y \div 2] = b[y \div 2]
    <3>1. y \div 2 \in Nat /\ y \div 2 <= j /\ y \div 2 <= k /\ ~(y <= y \div 2)
      BY <2>2, <2>4, HalfIsLess
    <3>. QED BY <2>1, <3>1
  <2>. QED BY <2>2, <2>3, <2>4, <2>5 DEF SpreadStep
<1>3. a[x] = b[x]
  BY <1>2
<1>. QED BY <1>3 DEF a, b

LEMMA SpreadUnfolds ==
  /\ Spread[0] = 0
  /\ \A x \in Nat \ {0} : Spread[x] = (x % 2) + 4 * Spread[x \div 2]
<1> DEFINE g == [x \in Nat |-> SpreadUpTo(x)[x]]
<1>1. ASSUME NEW x \in Nat PROVE g[x] = SpreadStep(g, x)
  <2>1. g[x] = SpreadStep(SpreadUpTo(x), x)
    BY SpreadUpToUnfolds
  <2>2. CASE x = 0
    BY <2>1, <2>2 DEF SpreadStep
  <2>3. CASE x # 0
    <3>1. x \div 2 \in Nat /\ x \div 2 <= x
      BY <2>3, HalfIsLess
    <3>2. SpreadUpTo(x)[x \div 2] = SpreadUpTo(x \div 2)[x \div 2]
      BY <3>1, SpreadUpToAgree
    <3>3. g[x \div 2] = SpreadUpTo(x \div 2)[x \div 2]
      BY <3>1
    <3> HIDE DEF g
    <3>. QED BY <2>1, <2>3, <3>2, <3>3 DEF SpreadStep
  <2>. QED BY <2>2, <2>3
<1>2. g = [x \in Nat |-> SpreadStep(g, x)]
  BY <1>1
<1> HIDE DEF g
<1>3. Spread = [x \in Nat |-> SpreadStep(Spread, x)]
  <2>1. \E f : f = [x \in Nat |-> SpreadStep(f, x)]
    BY <1>2
  <2>2. Spread = CHOOSE f : f = [x \in Nat |-> SpreadStep(f, x)]
    BY DEF Spread, SpreadStep
  <2>. QED BY <2>1, <2>2
<1>4. ASSUME NEW x \in Nat PROVE Spread[x] = SpreadStep(Spread, x)
  BY <1>3
<1>. QED BY <1>4 DEF SpreadStep

LEMMA SpreadType == ASSUME NEW x \in Nat PROVE Spread[x] \in Nat
<1> DEFINE Bad == {y \in Nat : Spread[y] \notin Nat}
<1>1. ASSUME Bad # {} PROVE FALSE
  <2>1. PICK y \in Bad : \A z \in Bad : y <= z
    <3>1. Bad \in SUBSET Nat /\ Bad # {}
      BY <1>1
    <3> HIDE DEF Bad
    <3>. QED BY <3>1, LeastNatural
  <2>2. y \in Nat \ {0}
    BY SpreadUnfolds
  <2>3. y \div 2 \in Nat /\ ~(y <= y \div 2) /\ y % 2 \in Nat
    BY <2>2, HalfIsLess
  <2>4. Spread[y \div 2] \in Nat
    BY <2>1, <2>3
  <2>5. Spread[y] = (y % 2) + 4 * Spread[y \div 2]
    BY <2>2, SpreadUnfolds
  <2>. QED BY <2>3, <2>4, <2>5
<1>. QED BY <1>1

\* No two pairs of coordinates have the same code.
LEMMA MortonInjective ==
  ASSUME NEW x \in Nat, NEW y \in Nat, NEW v \in Nat, NEW w \in Nat,
         MortonCode(x, y) = MortonCode(v, w)
  PROVE  x = v /\ y = w
<1> DEFINE Same(a, b, c, d) == MortonCode(a, b) = MortonCode(c, d) /\ ~(a = c /\ b = d)
           Bad == {k \in Nat : \E a, b, c, d \in Nat : k = a + b + c + d /\ Same(a, b, c, d)}
<1>1. \A a \in Nat : \E p \in {0, 1}, h \in Nat :
        /\ a = 2 * h + p
        /\ Spread[a] = p + 4 * Spread[h] /\ Spread[h] \in Nat
        /\ h <= a /\ (a # 0 => h < a)
  <2> SUFFICES ASSUME NEW a \in Nat
               PROVE  \E p \in {0, 1}, h \in Nat :
                        /\ a = 2 * h + p
                        /\ Spread[a] = p + 4 * Spread[h] /\ Spread[h] \in Nat
                        /\ h <= a /\ (a # 0 => h < a)
    OBVIOUS
  <2>1. CASE a = 0
    <3>1. a = 2 * 0 + 0 /\ Spread[a] = 0 + 4 * Spread[0] /\ Spread[0] \in Nat
      BY <2>1, SpreadUnfolds
    <3>. QED BY <2>1, <3>1
  <2>2. CASE a # 0
    <3>1. /\ a \div 2 \in Nat /\ a \div 2 < a /\ a % 2 \in {0, 1}
          /\ a = 2 * (a \div 2) + (a % 2)
      BY <2>2, HalfIsLess
    <3>2. Spread[a] = (a % 2) + 4 * Spread[a \div 2] /\ Spread[a \div 2] \in Nat
      BY <2>2, <3>1, SpreadUnfolds, SpreadType
    <3>. QED BY <3>1, <3>2
  <2>. QED BY <2>1, <2>2
<1>2. ASSUME Bad # {} PROVE FALSE
  <2>1. PICK k \in Bad : \A z \in Bad : k <= z
    <3>1. Bad \in SUBSET Nat /\ Bad # {}
      BY <1>2
    <3> HIDE DEF Bad
    <3>. QED BY <3>1, LeastNatural
  <2>2. PICK a \in Nat, b \in Nat, c \in Nat, d \in Nat : k = a + b + c + d /\ Same(a, b, c, d)
    OBVIOUS
  <2>3. PICK bita \in {0, 1}, ha \in Nat :
          /\ a = 2 * ha + bita
          /\ Spread[a] = bita + 4 * Spread[ha] /\ Spread[ha] \in Nat
          /\ ha <= a /\ (a # 0 => ha < a)
    BY <1>1
  <2>4. PICK bitb \in {0, 1}, hb \in Nat :
          /\ b = 2 * hb + bitb
          /\ Spread[b] = bitb + 4 * Spread[hb] /\ Spread[hb] \in Nat
          /\ hb <= b /\ (b # 0 => hb < b)
    BY <1>1
  <2>5. PICK bitc \in {0, 1}, hc \in Nat :
          /\ c = 2 * hc + bitc
          /\ Spread[c] = bitc + 4 * Spread[hc] /\ Spread[hc] \in Nat
          /\ hc <= c /\ (c # 0 => hc < c)
    BY <1>1
  <2>6. PICK bitd \in {0, 1}, hd \in Nat :
          /\ d = 2 * hd + bitd
          /\ Spread[d] = bitd + 4 * Spread[hd] /\ Spread[hd] \in Nat
          /\ hd <= d /\ (d # 0 => hd < d)
    BY <1>1
  <2>7. Spread[a] + 2 * Spread[b] = Spread[c] + 2 * Spread[d]
    BY <2>2 DEF MortonCode
  <2>8. /\ bita = bitc /\ bitb = bitd
        /\ Spread[ha] + 2 * Spread[hb] = Spread[hc] + 2 * Spread[hd]
    <3> DEFINE sa == Spread[ha]
               sb == Spread[hb]
               sc == Spread[hc]
               sd == Spread[hd]
    <3>1. sa \in Nat /\ sb \in Nat /\ sc \in Nat /\ sd \in Nat
      BY <2>3, <2>4, <2>5, <2>6
    <3>2. bita + 4 * sa + 2 * (bitb + 4 * sb) = bitc + 4 * sc + 2 * (bitd + 4 * sd)
      BY <2>3, <2>4, <2>5, <2>6, <2>7
    <3> HIDE DEF sa, sb, sc, sd
    <3>3. bita = bitc /\ bitb = bitd /\ sa + 2 * sb = sc + 2 * sd
      BY <3>1, <3>2
    <3>. QED BY <3>3 DEF sa, sb, sc, sd
  <2>9. Same(ha, hb, hc, hd)
    BY <2>2, <2>3, <2>4, <2>5, <2>6, <2>8 DEF MortonCode
  <2>10. ha + hb + hc + hd < k
    <3>1. a # 0 \/ b # 0 \/ c # 0 \/ d # 0
      BY <2>2
    <3>. QED BY <2>2, <2>3, <2>4, <2>5, <2>6, <3>1
  <2>11. ha + hb + hc + hd \in Bad
    <3>1. ha + hb + hc + hd \in Nat
      OBVIOUS
    <3> HIDE DEF Same
    <3>. QED BY <2>9, <3>1
  <2> HIDE DEF Bad
  <2>12. k <= ha + hb + hc + hd /\ k \in Int
    BY <2>1, <2>2, <2>11
  <2>. QED BY <2>10, <2>12
<1>3. ~Same(x, y, v, w)
  <2> HIDE DEF Same
  <2>1. x + y + v + w \in Nat
    OBVIOUS
  <2>. QED BY <1>2, <2>1
<1>. QED BY <1>3

LEMMA MortonIsPermutation ==
  ASSUME NEW N \in Nat \ {0}, MortonFits(N)
  PROVE  MortonOrder(N) \in Bijection(Places(N), Places(N))
<1> DEFINE z == MortonOrder(N)
<1>1. z \in [Places(N) -> Places(N)]
  <2>1. z = [s \in Places(N) |-> z[s]]
    BY DEF MortonOrder
  <2>. QED BY <2>1 DEF MortonFits
<1>2. ASSUME NEW s \in Places(N), NEW t \in Places(N), z[s] = z[t] PROVE s = t
  <2>1. /\ s \div N \in Nat /\ s % N \in Nat /\ s = N * (s \div N) + (s % N)
        /\ t \div N \in Nat /\ t % N \in Nat /\ t = N * (t \div N) + (t % N)
    BY PlacesSplit
  <2>2. MortonCode(s % N, s \div N) = MortonCode(t % N, t \div N)
    BY <1>2 DEF MortonOrder
  <2>3. s % N = t % N /\ s \div N = t \div N
    BY <2>1, <2>2, MortonInjective
  <2>. QED BY <2>1, <2>3
<1> HIDE DEF z
<1>3. z \in Injection(Places(N), Places(N))
  BY <1>1, <1>2 DEF Injection, IsInjective
<1>4. IsFiniteSet(Places(N))
  <2>1. N * N - 1 \in Int
    OBVIOUS
  <2>. QED BY <2>1, FS_Interval DEF Places
<1>5. z \in Surjection(Places(N), Places(N))
  BY <1>3, <1>4, FS_Injection
<1>. QED BY <1>3, <1>5 DEF z, Bijection

LEMMA SumOfWordsIsSum ==
  ASSUME NEW data, NEW I PROVE SumOfWords(data, I) = SumFunctionOnSet(data, I)
BY DEF SumOfWords, MapThenSumSet, SumFunctionOnSet, FoldFunctionOnSet, MapThenFoldSet

\* The sum of a block does not depend on its ordering.
LEMMA RemappedSum ==
  ASSUME NEW N \in Nat \ {0}, NEW dst \in Bijection(Places(N), Places(N)),
         NEW m \in Nat, m = N * N, NEW b \in [1 .. m -> Int]
  PROVE  SumOfWords(Remapped(b, dst), 1 .. m) = SumOfWords(b, 1 .. m)
<1> DEFINE source(k) == CHOOSE s \in DOMAIN dst : dst[s] = k - 1
           h == [k \in 1 .. m |-> 1 + source(k)]
           g == Remapped(b, dst)
<1>1. /\ \A s \in Places(N) : dst[s] \in Places(N)
      /\ \A s, t \in Places(N) : dst[s] = dst[t] => s = t
      /\ \A t \in Places(N) : \E s \in Places(N) : dst[s] = t
      /\ DOMAIN dst = Places(N)
  BY DEF Bijection, Injection, Surjection, IsInjective
<1>2. \A k \in 1 .. m : k - 1 \in Places(N)
  BY DEF Places
<1>3. \A s \in Places(N) : 1 + s \in 1 .. m /\ (1 + s) - 1 = s /\ s \in Int
  BY DEF Places
<1>4. ASSUME NEW k \in 1 .. m
      PROVE  /\ source(k) \in Places(N) /\ dst[source(k)] = k - 1
             /\ \E s \in DOMAIN dst : dst[s] = k - 1
  <2>1. \E s \in Places(N) : dst[s] = k - 1
    BY <1>1, <1>2
  <2>. QED BY <1>1, <2>1
<1>5. ASSUME NEW k \in 1 .. m PROVE g[k] = b[h[k]]
  <2>1. g[k] = b[1 + source(k)]
    BY <1>4 DEF Remapped
  <2>. QED BY <2>1
<1> HIDE DEF source, g
<1>6. h \in Bijection(1 .. m, 1 .. m)
  <2>1. \A k \in 1 .. m : h[k] \in 1 .. m
    BY <1>3, <1>4
  <2>2. ASSUME NEW j \in 1 .. m, NEW k \in 1 .. m, h[j] = h[k] PROVE j = k
    <3>1. 1 + source(j) = 1 + source(k)
      BY <2>2
    <3>2. source(j) = source(k)
      BY <1>3, <1>4, <3>1
    <3>3. j - 1 = k - 1
      BY <1>4, <3>2
    <3>. QED BY <3>3
  <2>3. ASSUME NEW i \in 1 .. m PROVE \E k \in 1 .. m : h[k] = i
    <3> DEFINE s == i - 1
               k == 1 + dst[s]
    <3>1. s \in Places(N) /\ dst[s] \in Places(N) /\ 1 + s = i
      BY <1>1, <1>2
    <3>2. k \in 1 .. m /\ k - 1 = dst[s]
      BY <1>3, <3>1
    <3>3. source(k) \in Places(N) /\ dst[source(k)] = dst[s]
      BY <1>4, <3>2
    <3>4. source(k) = s
      BY <1>1, <3>1, <3>3
    <3> HIDE DEF k
    <3>5. h[k] = i
      BY <3>1, <3>2, <3>4
    <3>. QED BY <3>2, <3>5
  <2> HIDE DEF h
  <2>4. h = [k \in 1 .. m |-> h[k]]
    BY DEF h
  <2>. QED BY <2>1, <2>2, <2>3, <2>4 DEF Bijection, Injection, Surjection, IsInjective
<1> HIDE DEF h
<1>7. SumFunctionOnSet(g, 1 .. m) = SumFunctionOnSet(b, 1 .. m)
  <2> DEFINE S == 1 .. m
  <2>1. IsFiniteSet(S) /\ \A k \in S : b[k] \in Int
    BY FS_Interval
  <2>2. h \in Bijection(S, S)
    BY <1>6
  <2>3. \A k \in S : g[k] = b[h[k]]
    BY <1>5
  <2> HIDE DEF S
  <2>4. SumFunctionOnSet(g, S) = SumFunctionOnSet(b, S)
    BY ONLY <2>1, <2>2, <2>3, SumPermuted
  <2>. QED BY <2>4 DEF S
<1>. QED BY <1>7, SumOfWordsIsSum DEF g

----------------------------------------------------------------------------
(* The numbers *)

LEMMA VectorsAndRest ==
  ASSUME NEW len \in Nat
  PROVE  /\ VectorEnd(len) \in 0 .. len
         /\ InVectors(len) \cup Behind(len) = 1 .. len /\ InVectors(len) \cap Behind(len) = {}
         /\ IsFiniteSet(InVectors(len)) /\ IsFiniteSet(Behind(len)) /\ IsFiniteSet(1 .. len)
<1>1. VectorEnd(len) \in 0 .. len
  <2>1. VectorLanes \in Nat \ {0}
    BY LanesAssumption
  <2>2. /\ len \div VectorLanes \in Nat /\ len % VectorLanes \in Nat
        /\ len = VectorLanes * (len \div VectorLanes) + (len % VectorLanes)
    BY <2>1, QuotientRemainder
  <2>. QED BY <2>1, <2>2 DEF VectorEnd
<1>2. IsFiniteSet(InVectors(len)) /\ IsFiniteSet(Behind(len)) /\ IsFiniteSet(1 .. len)
  BY <1>1, FS_Interval DEF InVectors, Behind
<1>. QED BY <1>1, <1>2 DEF InVectors, Behind

LEMMA SumOfParts ==
  ASSUME NEW len \in Nat, NEW data, \A k \in 1 .. len : data[k] \in Int
  PROVE  SumOfWords(data, InVectors(len)) + SumOfWords(data, Behind(len)) = SumOfWords(data, 1 .. len)
<1>1. SumFunctionOnSet(data, InVectors(len) \cup Behind(len))
        = SumFunctionOnSet(data, InVectors(len)) + SumFunctionOnSet(data, Behind(len))
  BY VectorsAndRest, SumUnion
<1>. QED BY <1>1, VectorsAndRest, SumOfWordsIsSum

\* A block has few enough words for an int32_t.
LEMMA TotalFits ==
  ASSUME NEW len \in Nat, len <= WordSize, NEW data, \A k \in 1 .. len : data[k] \in Word
  PROVE  /\ SumOfWords(data, 1 .. len) \in 0 .. WordSize * WordSize - 1
         /\ AsInt32(SumOfWords(data, 1 .. len)) = SumOfWords(data, 1 .. len)
<1> DEFINE total == SumOfWords(data, 1 .. len)
<1>1. WordSize \in Nat \ {0} /\ Word = 0 .. WordSize - 1
  BY WordFacts DEF Word
<1>2. IsFiniteSet(1 .. len) /\ Cardinality(1 .. len) = len
  BY FS_Interval
<1>3. total \in 0 .. len * (WordSize - 1)
  <2>1. WordSize - 1 \in Nat /\ \A k \in 1 .. len : data[k] \in 0 .. WordSize - 1
    BY <1>1
  <2>2. SumFunctionOnSet(data, 1 .. len) \in 0 .. Cardinality(1 .. len) * (WordSize - 1)
    BY ONLY <1>2, <2>1, SumBounds
  <2>. QED BY <1>2, <2>2, SumOfWordsIsSum
<1> HIDE DEF total
<1>4. len * (WordSize - 1) <= WordSize * (WordSize - 1)
  BY <1>1, MulMono
<1>5. WordSize * (WordSize - 1) = WordSize * WordSize - WordSize
  BY <1>1
<1>6. total \in 0 .. WordSize * WordSize - 1
  BY <1>1, <1>3, <1>4, <1>5
<1>7. total % (WordSize * WordSize) = total
  <2> DEFINE W == WordSize * WordSize
  <2>1. W \in Nat \ {0}
    BY <1>1
  <2> HIDE DEF W
  <2>2. total \in 0 .. W - 1
    BY <1>6 DEF W
  <2>3. total % W = total
    BY <2>1, <2>2
  <2>. QED BY <2>3 DEF W
<1>. QED BY <1>6, <1>7 DEF AsInt32, total

LEMMA AsInt32Type ==
  ASSUME NEW a \in Int PROVE AsInt32(a) \in 0 .. WordSize * WordSize - 1
<1>1. WordSize * WordSize \in Nat \ {0}
  BY WordFacts
<1>. QED BY <1>1, QuotientRemainder DEF AsInt32

LEMMA SumOfWordsType ==
  ASSUME NEW I, IsFiniteSet(I), NEW data, \A k \in I : data[k] \in Int
  PROVE  SumOfWords(data, I) \in Int
BY SumType, SumOfWordsIsSum

\* The vectorised sums: their types, and what they are the sums of.
LEMMA SimdSums ==
  ASSUME NEW len \in Nat, len <= WordSize, NEW data, 1 .. len \subseteq DOMAIN data,
         \A k \in 1 .. len : data[k] \in Word
  PROVE  /\ LinearSumSimdUnpack(data, len) = SumOfWords(data, 1 .. len)
         /\ LinearSumSimd(data, len) \in 0 .. WordSize * WordSize - 1
         /\ (\A k \in 1 .. len : data[k] < Half) => LinearSumSimd(data, len) = SumOfWords(data, 1 .. len)
<1>1. \A k \in 1 .. len : data[k] \in Int
  BY WordFacts
<1>2. LinearSumSimdUnpack(data, len) = SumOfWords(data, 1 .. len)
  BY <1>1, SumOfParts, TotalFits DEF LinearSumSimdUnpack
<1>3. /\ \A k \in InVectors(len) : k \in 1 .. len /\ Ints(data)[k] = Signed(data[k])
      /\ \A k \in Behind(len) : k \in 1 .. len
  BY VectorsAndRest DEF Ints
<1>4. LinearSumSimd(data, len) \in 0 .. WordSize * WordSize - 1
  <2>1. SumOfWords(Ints(data), InVectors(len)) \in Int
    <3>1. \A k \in InVectors(len) : Ints(data)[k] \in Int
      BY <1>3, WordFacts
    <3>. QED BY <3>1, VectorsAndRest, SumOfWordsType
  <2>2. SumOfWords(data, Behind(len)) \in Int
    <3>1. \A k \in Behind(len) : data[k] \in Int
      BY <1>1, <1>3
    <3>. QED BY <3>1, VectorsAndRest, SumOfWordsType
  <2>3. SumOfWords(Ints(data), InVectors(len)) + SumOfWords(data, Behind(len)) \in Int
    BY <2>1, <2>2
  <2>. QED BY <2>3, AsInt32Type DEF LinearSumSimd
<1>5. ASSUME \A k \in 1 .. len : data[k] < Half
      PROVE  LinearSumSimd(data, len) = SumOfWords(data, 1 .. len)
  <2>1. \A k \in InVectors(len) : Ints(data)[k] = data[k]
    BY <1>3, <1>5 DEF Signed
  <2>2. SumOfWords(Ints(data), InVectors(len)) = SumOfWords(data, InVectors(len))
    <3> DEFINE f == Ints(data)
               I == InVectors(len)
    <3>1. IsFiniteSet(I) /\ \A k \in I : f[k] \in Int /\ f[k] = data[k]
      BY <1>1, <1>3, <2>1, VectorsAndRest
    <3> HIDE DEF f, I
    <3>2. SumFunctionOnSet(f, I) = SumFunctionOnSet(data, I)
      BY <3>1, SumEqual
    <3>. QED BY <3>2, SumOfWordsIsSum DEF f, I
  <2>. QED BY <1>1, <2>2, SumOfParts, TotalFits DEF LinearSumSimd
<1>. QED BY <1>2, <1>4, <1>5

\* The vectorised minimum and maximum, of a block of words.
LEMMA SimdExtremes ==
  ASSUME NEW len \in Nat \ {0}, NEW data, \A k \in 1 .. len : data[k] \in Word
  PROVE  /\ LinearMin(data, len) = Min({data[k] : k \in 1 .. len})
         /\ LinearMax(data, len) = Max({data[k] : k \in 1 .. len})
         /\ LinearMin(data, len) \in Word /\ LinearMax(data, len) \in Word
<1> DEFINE Words(I) == {data[k] : k \in I}
           all   == Words(1 .. len)
           front == Words(InVectors(len))
           rest  == Words(Behind(len))
<1>1. /\ all = front \cup rest /\ all # {} /\ all \subseteq Word
      /\ IsFiniteSet(front) /\ IsFiniteSet(rest) /\ IsFiniteSet(all)
  <2>1. all = front \cup rest
    BY VectorsAndRest
  <2>2. all # {} /\ all \subseteq Word
    OBVIOUS
  <2>3. IsFiniteSet(front) /\ IsFiniteSet(rest) /\ IsFiniteSet(all)
    <3>1. IsFiniteSet(InVectors(len)) /\ IsFiniteSet(Behind(len)) /\ IsFiniteSet(1 .. len)
      BY VectorsAndRest
    <3>. QED BY ONLY <3>1, FiniteImage
  <2>. QED BY <2>1, <2>2, <2>3
<1>2. \A w \in Word : w \in Int /\ w >= 0 /\ w <= WordSize - 1
  BY WordFacts DEF Word
<1>3. /\ LinearMin(data, len) = Min({Min({WordSize - 1} \cup front)} \cup rest)
      /\ LinearMax(data, len) = Max({Max({0} \cup front)} \cup rest)
  BY DEF LinearMin, LinearMax
<1> HIDE DEF all, front, rest
<1>4. WordSize - 1 \in Word /\ 0 \in Word
  BY WordFacts DEF Word
<1>5. ASSUME NEW S \in SUBSET Word, IsFiniteSet(S), S # {}
      PROVE  /\ Min(S) \in S /\ \A y \in S : Min(S) <= y
             /\ Max(S) \in S /\ \A y \in S : Max(S) >= y
  <2>1. S \in SUBSET Int
    BY <1>2
  <2>. QED BY <1>5, <2>1, MinIsLeast, MaxIsGreatest
<1>6. \A w : IsFiniteSet({w} \cup front) /\ IsFiniteSet({w} \cup rest)
  BY <1>1, FS_Singleton, FS_Union
<1>7. Min({Min({WordSize - 1} \cup front)} \cup rest) = Min(all)
  <2> DEFINE a == Min({WordSize - 1} \cup front)
             b == Min({a} \cup rest)
  <2>1. {WordSize - 1} \cup front \in SUBSET Word
    BY <1>1, <1>4
  <2>2. a \in {WordSize - 1} \cup front /\ \A y \in {WordSize - 1} \cup front : a <= y
    BY <1>5, <1>6, <2>1
  <2> HIDE DEF a
  <2>3. {a} \cup rest \in SUBSET Word /\ {a} \cup rest # {} /\ IsFiniteSet({a} \cup rest)
    BY <1>1, <1>6, <2>1, <2>2
  <2>4. b \in {a} \cup rest /\ \A y \in {a} \cup rest : b <= y
    BY <1>5, <2>3
  <2>5. Min(all) \in all /\ \A y \in all : Min(all) <= y
    BY <1>1, <1>5
  <2> HIDE DEF b
  <2>6. a \in Word /\ b \in Word /\ Min(all) \in Word
    BY <1>1, <2>3, <2>4, <2>5
  <2>7. \A y \in all : b <= y
    <3> TAKE y \in all
    <3>1. CASE y \in front
      <4>1. b <= a /\ a <= y /\ y \in Word
        BY <1>1, <2>2, <2>4, <3>1
      <4>. QED BY <1>2, <2>6, <4>1
    <3>2. CASE y \in rest
      BY <2>4, <3>2
    <3>. QED BY <1>1, <3>1, <3>2
  <2>8. Min(all) <= b
    <3>1. CASE b \in all
      BY <2>5, <3>1
    <3>2. CASE b \notin all
      <4>1. b = WordSize - 1
        BY <1>1, <2>2, <2>4, <3>2
      <4>. QED BY <1>2, <2>6, <4>1
    <3>. QED BY <3>1, <3>2
  <2>9. b <= Min(all)
    BY <2>5, <2>7
  <2>10. b \in Int /\ Min(all) \in Int
    BY <1>2, <2>6
  <2>11. b = Min(all)
    BY <2>8, <2>9, <2>10
  <2>. QED BY <2>11 DEF a, b
<1>8. Max({Max({0} \cup front)} \cup rest) = Max(all)
  <2> DEFINE a == Max({0} \cup front)
             b == Max({a} \cup rest)
  <2>1. {0} \cup front \in SUBSET Word
    BY <1>1, <1>4
  <2>2. a \in {0} \cup front /\ \A y \in {0} \cup front : a >= y
    BY <1>5, <1>6, <2>1
  <2> HIDE DEF a
  <2>3. {a} \cup rest \in SUBSET Word /\ {a} \cup rest # {} /\ IsFiniteSet({a} \cup rest)
    BY <1>1, <1>6, <2>1, <2>2
  <2>4. b \in {a} \cup rest /\ \A y \in {a} \cup rest : b >= y
    BY <1>5, <2>3
  <2>5. Max(all) \in all /\ \A y \in all : Max(all) >= y
    BY <1>1, <1>5
  <2> HIDE DEF b
  <2>6. a \in Word /\ b \in Word /\ Max(all) \in Word
    BY <1>1, <2>3, <2>4, <2>5
  <2>7. \A y \in all : b >= y
    <3> TAKE y \in all
    <3>1. CASE y \in front
      <4>1. b >= a /\ a >= y /\ y \in Word
        BY <1>1, <2>2, <2>4, <3>1
      <4>. QED BY <1>2, <2>6, <4>1
    <3>2. CASE y \in rest
      BY <2>4, <3>2
    <3>. QED BY <1>1, <3>1, <3>2
  <2>8. Max(all) >= b
    <3>1. CASE b \in all
      BY <2>5, <3>1
    <3>2. CASE b \notin all
      <4>1. b = 0
        BY <1>1, <2>2, <2>4, <3>2
      <4>. QED BY <1>2, <2>6, <4>1
    <3>. QED BY <3>1, <3>2
  <2>9. b >= Max(all)
    BY <2>5, <2>7
  <2>10. b \in Int /\ Max(all) \in Int
    BY <1>2, <2>6
  <2>11. b = Max(all)
    BY <2>8, <2>9, <2>10
  <2>. QED BY <2>11 DEF a, b
<1>9. Min(all) \in Word /\ Max(all) \in Word
  BY <1>1, <1>5
<1>. QED BY <1>3, <1>7, <1>8, <1>9 DEF all

\* The vectorised counts are those of the block; the one in words has as many
\* values as it can count.
LEMMA SimdCounts ==
  ASSUME NEW len \in Nat, 2 <= len, len <= WordSize, NEW data
  PROVE  /\ LinearCountGtFP(data, len) = Cardinality({k \in 1 .. len : data[k] > CountThreshold})
         /\ LinearCountGtFxP(data, len) = Cardinality({k \in 1 .. len : data[k] > CountThreshold})
         /\ Cardinality({k \in 1 .. len : data[k] > CountThreshold}) \in 0 .. len
<1> DEFINE High(I)  == {k \in I : data[k] > CountThreshold}
           lanes(p) == {k \in InVectors(len) : k % 2 = p}
<1>1. Cardinality(1 .. len) = len /\ IsFiniteSet(1 .. len)
  BY FS_Interval
<1>2. \A I : Above(data, I) = Cardinality(High(I))
  BY DEF Above
<1>3. /\ High(InVectors(len)) \cup High(Behind(len)) = High(1 .. len)
      /\ High(InVectors(len)) \cap High(Behind(len)) = {}
  BY VectorsAndRest
<1>4. /\ High(lanes(0)) \cup High(lanes(1)) = High(InVectors(len))
      /\ High(lanes(0)) \cap High(lanes(1)) = {}
  <2>1. \A k \in InVectors(len) : k \in Nat /\ (k % 2 = 0 \/ k % 2 = 1)
    BY DEF InVectors
  <2>. QED BY <2>1
<1>5. /\ High(InVectors(len)) \in SUBSET (1 .. len) /\ High(Behind(len)) \in SUBSET (1 .. len)
      /\ High(lanes(0)) \in SUBSET ((1 .. len) \ {1}) /\ High(lanes(1)) \in SUBSET ((1 .. len) \ {2})
      /\ High(1 .. len) \in SUBSET (1 .. len)
  BY VectorsAndRest
<1> HIDE DEF High, lanes
<1>6. \A S \in SUBSET (1 .. len) : IsFiniteSet(S) /\ Cardinality(S) \in Nat /\ Cardinality(S) <= len
  BY <1>1, FS_Subset, FS_CardinalityType
<1>7. ASSUME NEW S, NEW T, S \in SUBSET (1 .. len), T \in SUBSET (1 .. len), S \cap T = {}
      PROVE  Cardinality(S \cup T) = Cardinality(S) + Cardinality(T)
  <2>1. Cardinality(S \cup T) = Cardinality(S) + Cardinality(T) - Cardinality(S \cap T)
    BY <1>6, <1>7, FS_Union
  <2>2. Cardinality(S \cap T) = 0
    BY <1>7, FS_EmptySet
  <2>3. Cardinality(S) \in Nat /\ Cardinality(T) \in Nat
    BY <1>6, <1>7
  <2>. QED BY ONLY <2>1, <2>2, <2>3
<1>8. ASSUME NEW S, NEW x \in 1 .. len, S \in SUBSET ((1 .. len) \ {x})
      PROVE  Cardinality(S) % WordSize = Cardinality(S)
  <2>1. IsFiniteSet((1 .. len) \ {x}) /\ Cardinality((1 .. len) \ {x}) = len - 1
    BY <1>1, FS_RemoveElement
  <2>2. Cardinality(S) <= len - 1
    <3> DEFINE R == (1 .. len) \ {x}
    <3>1. IsFiniteSet(R) /\ Cardinality(R) = len - 1 /\ S \in SUBSET R
      BY <1>8, <2>1
    <3> HIDE DEF R
    <3>2. Cardinality(S) <= Cardinality(R)
      BY ONLY <3>1, FS_Subset
    <3>. QED BY <3>1, <3>2
  <2>3. S \in SUBSET (1 .. len)
    BY <1>8
  <2>4. Cardinality(S) \in Nat
    BY <1>6, <2>3
  <2> DEFINE c == Cardinality(S)
  <2>5. c \in Nat /\ c <= len - 1 /\ len \in Nat /\ len <= WordSize /\ WordSize \in Nat \ {0}
    BY <2>2, <2>4, WordFacts
  <2> HIDE DEF c
  <2>6. c % WordSize = c
    BY ONLY <2>5
  <2>. QED BY <2>6 DEF c
<1>9. LinearCountGtFP(data, len) = Cardinality(High(1 .. len))
  BY <1>2, <1>3, <1>5, <1>7 DEF LinearCountGtFP
<1>10. LinearCountGtFxP(data, len) = Cardinality(High(1 .. len))
  <2>1. LinearCountGtFxP(data, len)
          = (Cardinality(High(lanes(1))) % WordSize) + (Cardinality(High(lanes(0))) % WordSize)
              + Cardinality(High(Behind(len)))
    BY <1>2 DEF LinearCountGtFxP, lanes
  <2>2. 1 \in 1 .. len /\ 2 \in 1 .. len
    OBVIOUS
  <2>3. /\ Cardinality(High(lanes(1))) % WordSize = Cardinality(High(lanes(1)))
        /\ Cardinality(High(lanes(0))) % WordSize = Cardinality(High(lanes(0)))
    BY <1>5, <1>8, <2>2
  <2>4. Cardinality(High(InVectors(len))) = Cardinality(High(lanes(0))) + Cardinality(High(lanes(1)))
    <3>1. High(lanes(0)) \in SUBSET (1 .. len) /\ High(lanes(1)) \in SUBSET (1 .. len)
      BY <1>5
    <3>. QED BY <1>4, <1>7, <3>1
  <2>5. Cardinality(High(1 .. len)) = Cardinality(High(InVectors(len))) + Cardinality(High(Behind(len)))
    BY <1>3, <1>5, <1>7
  <2>6. Cardinality(High(lanes(0))) \in Nat /\ Cardinality(High(lanes(1))) \in Nat
    BY <1>5, <1>6
  <2>. QED BY <2>1, <2>3, <2>4, <2>5, <2>6
<1>11. Cardinality(High(1 .. len)) \in 0 .. len
  BY <1>5, <1>6
<1>. QED BY <1>9, <1>10, <1>11 DEF High

\* The sum that a codec leaves behind a block, word by word.
LEMMA FusedSum ==
  ASSUME NEW len \in Nat, NEW data, NEW total \in 0 .. WordSize * WordSize - 1,
         data[len + 1] = total % WordSize, data[len + 2] = (total \div WordSize) % WordSize
  PROVE  LinearSumFused(data, len) = total
<1>1. WordSize \in Nat \ {0}
  BY WordFacts
<1> DEFINE q == total \div WordSize
           r == total % WordSize
<1>2. q \in Int /\ r \in 0 .. WordSize - 1 /\ total = WordSize * q + r
  <2>1. total \in Int
    OBVIOUS
  <2>. QED BY ONLY <1>1, <2>1, QuotientRemainder
<1>3. q \in 0 .. WordSize - 1
  <2> HIDE DEF q, r
  <2>1. q >= 0
    BY <1>1, <1>2
  <2>2. ASSUME q >= WordSize PROVE FALSE
    <3>1. WordSize * WordSize <= q * WordSize /\ q * WordSize = WordSize * q
      BY <1>1, <1>2, <2>2, MulMono
    <3>. QED BY <1>1, <1>2, <3>1
  <2>. QED BY <1>1, <1>2, <2>1, <2>2
<1> HIDE DEF q, r
<1>4. q % WordSize = q
  BY <1>1, <1>3
<1>5. data[len + 1] = r /\ data[len + 2] = q
  BY <1>4 DEF q, r
<1>6. data[len + 1] + WordSize * data[len + 2] = total
  BY <1>1, <1>2, <1>3, <1>5
<1>7. total % (WordSize * WordSize) = total
  <2> DEFINE W == WordSize * WordSize
  <2>1. W \in Nat \ {0}
    BY <1>1
  <2>2. total \in 0 .. W - 1
    OBVIOUS
  <2> HIDE DEF W
  <2>3. total % W = total
    BY <2>1, <2>2
  <2>. QED BY <2>3 DEF W
<1>. QED BY <1>6, <1>7 DEF LinearSumFused, AsInt32

----------------------------------------------------------------------------
(* The words of a block *)


\* The numbers that fit the sink.
Sink == 0 .. WordSize * WordSize - 1

\* What is behind the words of an array does not matter to an ordering.
LEMMA RemappedType ==
  ASSUME NEW N \in Nat \ {0}, NEW m \in Nat, m = N * N, NEW b \in [1 .. m -> Word],
         NEW dst, DOMAIN dst = Places(N)
  PROVE  Remapped(b, dst) \in [1 .. m -> Word]
<1>1. \A s \in Places(N) : 1 + s \in 1 .. m
  BY DEF Places
<1>2. 0 \in Word
  BY WordFacts DEF Word
<1>3. ASSUME NEW k \in 1 .. m
      PROVE  (IF \E s \in DOMAIN dst : dst[s] = k - 1
              THEN b[1 + CHOOSE s \in DOMAIN dst : dst[s] = k - 1] ELSE 0) \in Word
  <2>1. CASE \E s \in DOMAIN dst : dst[s] = k - 1
    <3> DEFINE s == CHOOSE s \in DOMAIN dst : dst[s] = k - 1
    <3>1. s \in Places(N)
      BY <2>1
    <3> HIDE DEF s
    <3>2. b[1 + s] \in Word
      BY <1>1, <3>1
    <3>. QED BY <2>1, <3>2 DEF s
  <2>2. CASE ~\E s \in DOMAIN dst : dst[s] = k - 1
    BY <1>2, <2>2
  <2>. QED BY <2>1, <2>2
<1>. QED BY <1>3 DEF Remapped

\* The raster's words of a block, and those that are encoded.
LEMMA PreparedType ==
  ASSUME IInv, samplingPc = "done", allow_wrap, NEW b \in InGrid
  PROVE  /\ n \in Nat /\ n <= WordSize /\ 2 <= n /\ MaxClasses <= n
         /\ blockSize \in Nat \ {0} /\ n = blockSize * blockSize
         /\ Pixels(combo.raster, offsets[b], n) \in [1 .. n -> Word]
         /\ Block(b) \in [1 .. n -> Word]
<1> DEFINE p == Pixels(combo.raster, offsets[b], n)
<1>1. blockSize \in BlockSizes /\ blockSize \in Nat \ {0} /\ combo \in Runs
  BY GridSize DEF IInv, ControlInv
<1>2. n \in Nat /\ n <= WordSize /\ 2 <= n /\ MaxClasses <= n /\ n = blockSize * blockSize
  <2>1. MaxClasses <= n /\ n <= WordSize /\ n = blockSize * blockSize
    BY <1>1, BlockAssumption DEF n
  <2>2. n \in Nat
    BY <1>1, <2>1
  <2>. QED BY <2>1, <2>2, ClassesAssumption
<1>3. p \in [1 .. n -> Word]
  <2>1. PICK w \in Sides, h \in Sides :
          \E column \in 0 .. w - 1, row \in 0 .. h - 1 :
            offsets[b] = [x |-> column * blockSize, y |-> row * blockSize]
    BY GridSize DEF IInv, ControlInv
  <2>2. PICK column \in 0 .. w - 1, row \in 0 .. h - 1 :
          offsets[b] = [x |-> column * blockSize, y |-> row * blockSize]
    BY <2>1
  <2>3. combo.raster \in {c.raster : c \in Runs}
    BY <1>1
  <2>4. Pixels(combo.raster, [x |-> column * blockSize, y |-> row * blockSize],
               blockSize * blockSize) \in [1 .. blockSize * blockSize -> Word]
    BY <1>1, <2>3, PixelsAssumption, Zenon
  <2>. QED BY <2>2, <2>4, Zenon DEF n
<1>4. ApplyOrdering(p, combo.ordering, blockSize) \in [1 .. n -> Word]
  <2>1. combo.ordering \in {"default", "zigzag", "morton"}
    BY <1>1, CombosAssumption
  <2>2. DOMAIN ZigzagOrder(blockSize) = Places(blockSize) /\ DOMAIN MortonOrder(blockSize) = Places(blockSize)
    BY DEF ZigzagOrder, MortonOrder
  <2> HIDE DEF p
  <2>3. Remapped(p, ZigzagOrder(blockSize)) \in [1 .. n -> Word]
    BY ONLY <1>1, <1>2, <1>3, <2>2, RemappedType
  <2>4. Remapped(p, MortonOrder(blockSize)) \in [1 .. n -> Word]
    BY ONLY <1>1, <1>2, <1>3, <2>2, RemappedType
  <2>. QED BY <1>3, <2>1, <2>3, <2>4 DEF ApplyOrdering
<1>5. combo.initTrans = "none" \/ AccessTransformationMutatesData(combo.initTrans)
  BY <1>1, CombosAssumption
<1>6. Block(b) \in [1 .. n -> Word]
  <2>1. CASE combo.path = "uint16"
    BY <1>3, <2>1 DEF Block, Prepared
  <2>2. CASE combo.path # "uint16"
    <3>1. MaxClasses <= WordSize
      BY <1>2, ClassesAssumption, WordFacts
    <3>2. \A f \in [1 .. n -> Word] : ApplyTransformation(f, combo.initTrans) \in [1 .. n -> Word]
      BY <1>2, <1>5, <3>1, TransformationType
    <3>. QED BY <1>4, <2>2, <3>2 DEF Block, Prepared
  <2>. QED BY <2>1, <2>2
<1>. QED BY <1>1, <1>2, <1>3, <1>6

LEMMA BlockType ==
  ASSUME IInv, pc # "sample", NEW b \in InGrid
  PROVE  /\ n \in Nat /\ n <= WordSize /\ 2 <= n /\ MaxClasses <= n
         /\ blockSize \in Nat \ {0} /\ n = blockSize * blockSize
         /\ Pixels(combo.raster, offsets[b], n) \in [1 .. n -> Word]
         /\ Block(b) \in [1 .. n -> Word]
<1>1. samplingPc = "done" /\ allow_wrap
  BY DEF IInv, ControlInv
<1>. QED BY <1>1, PreparedType

LEMMA BlockLength ==
  ASSUME IInv, pc # "sample", NEW b \in InGrid
  PROVE  n \in Nat /\ Array(Block(b), n)
BY BlockType DEF Array

\* A codec that restores values fills the front of the buffer with them and
\* leaves it as long as it is.
LEMMA DecodedIsBlock ==
  ASSUME n \in Nat, NEW m \in Nat, NEW c, NEW buf, Array(buf, n + m),
         c.codec.kind \in {"values", "both"}, NEW d \in Decoded(c, buf)
  PROVE  Array(d, n + m) /\ \A k \in 1 .. n : d[k] = c.words[k]
<1>1. DOMAIN buf = 1 .. n + m
  BY ArrayLength
<1>2. PICK behind : d = [k \in DOMAIN buf |-> IF k <= n THEN c.words[k] ELSE behind[k]]
  <2>1. CASE c.codec.kind = "values"
    <3>1. PICK w \in Scratch : d = [k \in DOMAIN buf |-> IF k <= n THEN c.words[k] ELSE w]
      BY <2>1 DEF Decoded
    <3> DEFINE f == [k \in DOMAIN buf |-> w]
    <3>2. d = [k \in DOMAIN buf |-> IF k <= n THEN c.words[k] ELSE f[k]]
      BY <3>1
    <3>. QED BY <3>2
  <2>2. CASE c.codec.kind = "both"
    <3> DEFINE sum  == SumOfWords(c.words, 1 .. n)
               half == <<sum % WordSize, (sum \div WordSize) % WordSize>>
               f    == [k \in DOMAIN buf |-> IF k <= n + 2 THEN half[k - n] ELSE buf[k]]
    <3>1. d = [k \in DOMAIN buf |-> IF k <= n THEN c.words[k]
                                    ELSE IF k <= n + 2 THEN half[k - n] ELSE buf[k]]
      BY <2>2 DEF Decoded
    <3> HIDE DEF half
    <3>2. d = [k \in DOMAIN buf |-> IF k <= n THEN c.words[k] ELSE f[k]]
      BY <3>1
    <3>. QED BY <3>2
  <2>. QED BY <2>1, <2>2
<1>3. \A k \in 1 .. n : k \in DOMAIN buf /\ k <= n
  BY <1>1
<1>. QED BY <1>1, <1>2, <1>3 DEF Array

\* An access makes of the block's words, which are at the front of the buffer,
\* what the transformation makes of the block; the buffer stays as long as it is.
LEMMA AccessedIsChanged ==
  ASSUME n \in Nat, NEW m \in Nat, NEW words, Array(words, n), NEW buf, Array(buf, n + m),
         \A k \in 1 .. n : buf[k] = words[k], NEW r \in Accessed(buf)
  PROVE  /\ Array(r.data, n + m)
         /\ (dataChange /\ (combo.path = "uint16" \/ m = 0 \/ combo.accessTrans = "ValueShift")) =>
              SubSeq(r.data, 1, n) = (IF combo.path = "uint16" THEN words
                                      ELSE ApplyTransformation(words, combo.accessTrans))
<1> DEFINE T(f) == ApplyTransformation(f, combo.accessTrans)
<1>1. Len(buf) = n + m
  BY ArrayLength
<1>2. \/ r.data = buf
      \/ dataChange /\ combo.path # "uint16" /\ r.data = T(buf)
  <2>1. \A s : ApplyAccessTransformation(combo.path, combo.accessTrans, buf, n, s).data
                 = IF combo.path # "uint16" /\ dataChange THEN T(buf) ELSE buf
    BY DEF ApplyAccessTransformation, dataChange
  <2>2. \/ r = ApplyAccessTransformation(combo.path, combo.accessTrans, buf, n, kLinearSumSink)
        \/ \E w \in Scratch : r = [data |-> buf, sink |-> w]
    BY DEF Accessed
  <2>. QED BY <2>1, <2>2
<1>3. dataChange => r.data = IF combo.path = "uint16" THEN buf ELSE T(buf)
  <2>1. dataChange => ReadsBehind(combo.path, combo.accessTrans) = 0
    BY DEF dataChange, AccessTransformationMutatesData, ReadsBehind
  <2>2. dataChange =>
          r = ApplyAccessTransformation(combo.path, combo.accessTrans, buf, n, kLinearSumSink)
    BY <1>1, <2>1 DEF Accessed
  <2>. QED BY <2>2 DEF ApplyAccessTransformation, dataChange
<1>4. dataChange => Array(T(buf), n + m) /\ Array(T(words), n)
  BY TransformationKeepsLength DEF dataChange
<1>5. Array(r.data, n + m)
  BY <1>2, <1>4
<1>6. SubSeq(r.data, 1, n) = [k \in 1 .. n |-> r.data[k]]
  BY <1>5, FrontOfArray
<1>7. ASSUME dataChange, combo.path # "uint16", combo.accessTrans = "ValueShift"
      PROVE  SubSeq(r.data, 1, n) = T(words)
  <2>1. DOMAIN buf = 1 .. n + m /\ DOMAIN words = 1 .. n
    BY ArrayLength
  <2>2. /\ T(buf) = [k \in 1 .. n + m |-> Plus(buf[k], Delta)]
        /\ T(words) = [k \in 1 .. n |-> Plus(words[k], Delta)]
    BY <1>7, <2>1 DEF ApplyTransformation, ValueShift
  <2>3. \A k \in 1 .. n : k \in 1 .. n + m /\ r.data[k] = Plus(words[k], Delta)
    BY <1>3, <1>7, <2>2
  <2> HIDE DEF T
  <2>. QED BY <1>6, <2>2, <2>3
<1>8. ASSUME m = 0 PROVE buf = words
  <2>1. Array(buf, n)
    BY <1>8
  <2>. QED BY <2>1 DEF Array
<1>9. ASSUME dataChange, combo.path # "uint16", m = 0
      PROVE  SubSeq(r.data, 1, n) = T(words)
  <2>1. r.data = T(words)
    BY <1>3, <1>8, <1>9
  <2> HIDE DEF T
  <2>. QED BY <1>4, <1>6, <1>9, <2>1 DEF Array
<1>10. ASSUME dataChange, combo.path = "uint16"
       PROVE  SubSeq(r.data, 1, n) = words
  <2>1. \A k \in 1 .. n : r.data[k] = words[k]
    BY <1>3, <1>10
  <2>. QED BY <1>6, <2>1 DEF Array
<1>. QED BY <1>5, <1>7, <1>9, <1>10

Restores == BaseGives({"direct", "values", "both"})

\* While a repetition runs: where blocks are taken from, the buffer, and what is
\* at each place of the grid.
GridInv ==
  /\ pc = "access" => (isDirectAccess <=> combo.base.kind = "direct")
  /\ pc = "access" /\ Restores => Array(decbuf, n + combo.base.overflow)
  /\ GridIsTrue

LEMMA StartRepBuildsGrid ==
  ASSUME IInv, StartRep PROVE GridInv'
<1>1. /\ pc = "rep" /\ pc' = "access" /\ pos' = 0
      /\ UNCHANGED <<samplingVars, combo, accessIndexes>>
      /\ codecs' = (IF staticGrid THEN codecs ELSE SplitIntoFullBlocks)
      /\ (isDirectAccess' <=> codecs'[1].codec.kind = "direct")
      /\ decbuf' = [k \in 1 .. n + codecs'[1].codec.overflow |-> 0]
  BY DEF StartRep
<1>2. InGrid = 1 .. Len(offsets) /\ Len(offsets) \in Nat \ {0}
  BY <1>1, GridSize DEF IInv, ControlInv
<1>3. codecs' = [b \in InGrid |-> [codec |-> combo.base, words |-> Block(b)]]
  <2>1. codecs' = SplitIntoFullBlocks
    BY <1>1 DEF IInv, GridForm
  <2>. QED BY <2>1 DEF SplitIntoFullBlocks, InGrid, Block
<1>4. codecs'[1].codec = combo.base
  BY <1>2, <1>3
<1>5. n' = n /\ \A b : Block(b)' = Block(b)
  BY <1>1 DEF samplingVars, n, Block, Prepared
<1>6. Array(decbuf, n + combo.base.overflow)'
  BY <1>1, <1>4, <1>5 DEF Array
<1>7. \A k \in InGrid : accessIndexes[k] \in InGrid
  BY <1>1 DEF IInv, ControlInv, Bijection, Injection
<1>8. GridIsTrue'
  <2>1. ASSUME NEW k \in InGrid
        PROVE  ~(k <= 0) /\ codecs'[accessIndexes[k]]
                              = [codec |-> combo.base, words |-> Block(accessIndexes[k])]
    BY <1>2, <1>3, <1>7
  <2>. QED BY <1>1, <1>5, <2>1, Settled DEF GridIsTrue, BaseGives
<1>. QED BY <1>1, <1>4, <1>6, <1>8 DEF GridInv

LEMMA AccessBlockKeepsGrid ==
  ASSUME IInv, GridInv, AccessBlock PROVE GridInv'
<1> DEFINE b == accessIndexes[pos + 1]
           m == combo.base.overflow
<1>1. /\ pc = "access" /\ pc' = "access" /\ pos < Len(codecs) /\ pos' = pos + 1
      /\ UNCHANGED <<samplingVars, combo, accessIndexes>>
      /\ isDirectAccess' = isDirectAccess
  BY DEF AccessBlock
<1>2. /\ InGrid = 1 .. Len(offsets) /\ Len(offsets) \in Nat \ {0}
      /\ Len(codecs) = Len(offsets) /\ codecs = [k \in InGrid |-> codecs[k]]
  <2>1. InGrid = 1 .. Len(offsets) /\ Len(offsets) \in Nat \ {0}
    BY <1>1, GridSize DEF IInv, ControlInv
  <2>2. codecs = [k \in InGrid |-> codecs[k]]
    BY <1>1 DEF IInv, GridForm
  <2>. QED BY <2>1, <2>2, FunctionIsSeq
<1>3. /\ pos \in Nat /\ pos + 1 \in InGrid
      /\ \A k \in InGrid : accessIndexes[k] \in InGrid
      /\ \A j, k \in InGrid : accessIndexes[j] = accessIndexes[k] => j = k
      /\ m \in Nat
  BY <1>1, <1>2, ComboFacts DEF IInv, ControlInv, Bijection, Injection, IsInjective
<1>4. n \in Nat /\ Array(Block(b), n)
  BY <1>1, <1>3, BlockLength
<1> DEFINE Stored(r) ==
             /\ decbuf' = IF isDirectAccess THEN decbuf ELSE r.data
             /\ codecs' = IF dataChange
                          THEN [codecs EXCEPT ![b] = [codec |-> combo.access,
                                                      words |-> SubSeq(r.data, 1, n)]]
                          ELSE codecs
<1>0. PICK buf \in IF isDirectAccess THEN {codecs[b].words} ELSE Decoded(codecs[b], decbuf) :
        \E r \in Accessed(buf) : Stored(r)
  BY Zenon DEF AccessBlock
<1>5. PICK r \in Accessed(buf) : Stored(r)
  BY <1>0
<1>6. (isDirectAccess <=> combo.base.kind = "direct")'
  BY <1>1 DEF GridInv
<1>7. ASSUME Restores
      PROVE  /\ Array(decbuf, n + m)'
             /\ (dataChange /\ (combo.path = "uint16" \/ m = 0 \/ combo.accessTrans = "ValueShift"))
                  => SubSeq(r.data, 1, n) = Changed(b)
  <2>1. codecs[b] = [codec |-> combo.base, words |-> Block(b)] /\ Array(decbuf, n + m)
    <3>1. /\ pc = "access" /\ BaseGives({"direct", "values", "both"})
          /\ pos + 1 \in InGrid /\ ~(pos + 1 <= pos)
      BY <1>1, <1>3, <1>7 DEF Restores
    <3>2. codecs[b] = [codec |-> combo.base, words |-> Block(b)]
      BY <3>1 DEF GridInv, GridIsTrue
    <3>. QED BY <1>7, <3>1, <3>2 DEF GridInv
  <2>2. CASE isDirectAccess
    <3>1. buf = Block(b) /\ decbuf' = decbuf
      BY <1>0, <1>5, <2>1, <2>2
    <3>2. Array(Block(b), n + 0)
      BY <1>4
    <3>3. dataChange => SubSeq(r.data, 1, n) = Changed(b)
      BY <1>4, <3>1, <3>2, AccessedIsChanged, Zenon DEF Changed
    <3>. QED BY <1>1, <2>1, <3>1, <3>3 DEF samplingVars, n
  <2>3. CASE ~isDirectAccess
    <3>1. codecs[b].codec.kind \in {"values", "both"}
      BY <1>1, <1>7, <2>1, <2>3 DEF GridInv, Restores, BaseGives
    <3>2. Array(buf, n + m) /\ \A k \in 1 .. n : buf[k] = Block(b)[k]
      <4>1. buf \in Decoded(codecs[b], decbuf) /\ codecs[b].words = Block(b)
        BY <1>0, <2>1, <2>3
      <4>2. Array(buf, n + m) /\ \A k \in 1 .. n : buf[k] = codecs[b].words[k]
        <5>1. n \in Nat /\ m \in Nat /\ Array(decbuf, n + m)
          BY <1>3, <1>4, <2>1
        <5>2. codecs[b].codec.kind \in {"values", "both"} /\ buf \in Decoded(codecs[b], decbuf)
          BY <3>1, <4>1
        <5> HIDE DEF b, m
        <5>3. ASSUME NEW c, NEW f, Array(f, n + m), c.codec.kind \in {"values", "both"},
                     NEW d \in Decoded(c, f)
              PROVE  Array(d, n + m) /\ \A k \in 1 .. n : d[k] = c.words[k]
          BY ONLY <5>1, <5>3, DecodedIsBlock
        <5> DEFINE c == codecs[b]
        <5>4. c.codec.kind \in {"values", "both"} /\ buf \in Decoded(c, decbuf)
          BY <5>2
        <5> HIDE DEF c
        <5>5. Array(buf, n + m) /\ \A k \in 1 .. n : buf[k] = c.words[k]
          BY ONLY <5>1, <5>3, <5>4
        <5>. QED BY <5>5 DEF c
      <4>. QED BY <4>1, <4>2
    <3>3. /\ Array(r.data, n + m)
          /\ (dataChange /\ (combo.path = "uint16" \/ m = 0 \/ combo.accessTrans = "ValueShift"))
               => SubSeq(r.data, 1, n) = Changed(b)
      <4> DEFINE words == Block(b)
      <4>1. /\ n \in Nat /\ m \in Nat /\ Array(words, n) /\ Array(buf, n + m)
            /\ \A k \in 1 .. n : buf[k] = words[k]
            /\ r \in Accessed(buf)
        BY <1>3, <1>4, <3>2
      <4>2. Changed(b) = (IF combo.path = "uint16" THEN words
                          ELSE ApplyTransformation(words, combo.accessTrans))
        BY DEF Changed
      <4> HIDE DEF words, b, m
      <4>. QED BY ONLY <4>1, <4>2, AccessedIsChanged
    <3>. QED BY <1>1, <1>5, <2>3, <3>3 DEF samplingVars, n
  <2>. QED BY <2>2, <2>3
<1>8. n' = n /\ (\A c : Block(c)' = Block(c)) /\ (\A c : Changed(c)' = Changed(c))
  BY <1>1 DEF samplingVars, n, Block, Prepared, Changed
<1>9. ASSUME Restores, NEW k \in InGrid
      PROVE  IF dataChange /\ k <= pos + 1
             THEN (combo.path = "uint16" \/ m = 0 \/ combo.accessTrans = "ValueShift") =>
                    codecs'[accessIndexes[k]]
                      = [codec |-> combo.access, words |-> Changed(accessIndexes[k])]
             ELSE codecs'[accessIndexes[k]]
                    = [codec |-> combo.base, words |-> Block(accessIndexes[k])]
  <2>1. IF dataChange /\ k <= pos
        THEN (combo.path = "uint16" \/ m = 0 \/ combo.accessTrans = "ValueShift") =>
               codecs[accessIndexes[k]]
                 = [codec |-> combo.access, words |-> Changed(accessIndexes[k])]
        ELSE codecs[accessIndexes[k]]
               = [codec |-> combo.base, words |-> Block(accessIndexes[k])]
    BY <1>1, <1>9 DEF GridInv, GridIsTrue, Restores
  <2>2. CASE ~dataChange
    BY <1>5, <2>1, <2>2
  <2>3. CASE dataChange /\ k # pos + 1
    <3>1. accessIndexes[k] # b /\ accessIndexes[k] \in InGrid
      BY <1>3, <2>3
    <3>2. codecs'[accessIndexes[k]] = codecs[accessIndexes[k]]
      BY <1>2, <1>5, <2>3, <3>1
    <3>3. k <= pos + 1 <=> k <= pos
      BY <1>2, <1>3, <2>3
    <3>. QED BY <2>1, <3>2, <3>3
  <2>4. CASE dataChange /\ k = pos + 1
    <3>1. codecs'[b] = [codec |-> combo.access, words |-> SubSeq(r.data, 1, n)]
      BY <1>2, <1>3, <1>5, <2>4
    <3>2. k <= pos + 1 /\ accessIndexes[k] = b
      BY <1>3, <2>4
    <3>3. (combo.path = "uint16" \/ m = 0 \/ combo.accessTrans = "ValueShift") =>
             SubSeq(r.data, 1, n) = Changed(b)
      BY <1>7, <1>9, <2>4
    <3>. QED BY <2>4, <3>1, <3>2, <3>3
  <2>. QED BY <2>2, <2>3, <2>4
<1>10. GridIsTrue'
  BY <1>1, <1>8, <1>9, Settled DEF GridIsTrue, Restores, BaseGives
<1>. QED BY <1>1, <1>6, <1>7, <1>10 DEF GridInv, Restores, BaseGives

\* In every repetition, each block is decoded from its base codec and changed
\* once.
THEOREM GridIsAsChanged == Spec => []GridIsTrue
<1>1. Init => GridInv
  BY DEF Init, GridInv, GridIsTrue
<1>2. IInv /\ GridInv /\ [Next]_vars => GridInv'
  <2> SUFFICES ASSUME IInv, GridInv, [Next]_vars PROVE GridInv'
    OBVIOUS
  <2>1. pc' # "access" => GridInv'
    BY DEF GridInv, GridIsTrue
  <2>2. CASE UNCHANGED vars
    <3>1. UNCHANGED <<samplingVars, combo, accessIndexes, codecs, pos, isDirectAccess, decbuf, pc>>
      BY <2>2 DEF vars, accessVars
    <3>2. n' = n /\ (\A c : Block(c)' = Block(c)) /\ (\A c : Changed(c)' = Changed(c))
      BY <3>1 DEF samplingVars, n, Block, Prepared, Changed
    <3>3. GridIsTrue'
      BY <3>1, <3>2, Settled DEF GridInv, GridIsTrue, BaseGives
    <3>. QED BY <3>1, <3>2, <3>3 DEF GridInv, Restores, BaseGives
  <2>3. CASE Sample \/ Begin \/ Throw \/ EndRep \/ Report
    BY <2>1, <2>3 DEF Sample, Begin, Throw, EndRep, Report
  <2>4. CASE Finished
    BY <2>2, <2>4 DEF Finished
  <2>. QED BY <2>2, <2>3, <2>4, StartRepBuildsGrid, AccessBlockKeepsGrid DEF Next
<1>3. GridInv => GridIsTrue
  BY DEF GridInv
<1>. QED BY <1>1, <1>2, <1>3, Invariant, PTL DEF Spec

----------------------------------------------------------------------------
(* What an access leaves *)

LEMMA WordsAreInts == \A w \in Word : w \in Int
<1>1. \A w \in Word : w \in Nat
  BY WordFacts
<1>. QED BY <1>1

LEMMA SinkFacts ==
  /\ Word \subseteq Sink /\ 0 \in Sink /\ Scratch \subseteq Sink
  /\ \A a \in Int : a % WordSize \in Sink
<1>1. WordSize \in Nat \ {0}
  BY WordFacts
<1>2. WordSize <= WordSize * WordSize
  <2>1. 1 * WordSize <= WordSize * WordSize
    BY <1>1, MulMono
  <2>. QED BY <1>1, <2>1
<1>3. Word \subseteq Sink
  BY <1>1, <1>2 DEF Word, Sink
<1>4. 0 \in Word
  BY <1>1 DEF Word
<1>. QED BY <1>3, <1>4, WordFacts, ScratchAssumption

\* What a codec may make of the buffer are words, and a fused one leaves the
\* halves of the sum behind the block.
LEMMA DecodedType ==
  ASSUME n \in Nat, NEW m \in Nat, NEW c, c.words \in [1 .. n -> Word],
         c.codec.kind \in {"direct", "values", "both", "sum", "garbled"},
         NEW buf \in [1 .. n + m -> Word], NEW d \in Decoded(c, buf)
  PROVE  /\ d \in [1 .. n + m -> Word]
         /\ (c.codec.kind \in {"both", "sum"} /\ m >= 2) =>
              /\ d[n + 1] = SumOfWords(c.words, 1 .. n) % WordSize
              /\ d[n + 2] = (SumOfWords(c.words, 1 .. n) \div WordSize) % WordSize
<1> DEFINE words == c.words
           sum   == SumOfWords(words, 1 .. n)
           half  == <<sum % WordSize, (sum \div WordSize) % WordSize>>
<1>1. DOMAIN buf = 1 .. n + m /\ \A k \in 1 .. n : k \in 1 .. n + m
  OBVIOUS
<1>2. half[1] \in Word /\ half[2] \in Word
  <2>1. sum \in Int
    <3>1. IsFiniteSet(1 .. n)
      BY FS_Interval
    <3>2. \A k \in 1 .. n : words[k] \in Int
      BY WordsAreInts
    <3> HIDE DEF words
    <3>. QED BY <3>1, <3>2, SumOfWordsType
  <2> HIDE DEF sum
  <2>2. sum \div WordSize \in Int
    BY <2>1, WordFacts
  <2>. QED BY <2>1, <2>2, WordFacts
<1>3. \A k \in Int : k - n \in {1, 2} => half[k - n] \in Word
  BY <1>2
<1>4. CASE c.codec.kind = "values"
  <2>1. PICK w \in Scratch : d = [k \in DOMAIN buf |-> IF k <= n THEN words[k] ELSE w]
    BY <1>4 DEF Decoded
  <2>2. w \in Word
    BY ScratchAssumption
  <2>3. \A k \in 1 .. n + m : (IF k <= n THEN words[k] ELSE w) \in Word
    BY <2>2
  <2> HIDE DEF words
  <2>. QED BY <1>1, <1>4, <2>1, <2>3
<1>5. CASE c.codec.kind = "garbled"
  <2>1. PICK w \in Scratch : d = [k \in DOMAIN buf |-> IF k <= n THEN w ELSE buf[k]]
    BY <1>5 DEF Decoded
  <2>2. w \in Word
    BY ScratchAssumption
  <2>3. \A k \in 1 .. n + m : (IF k <= n THEN w ELSE buf[k]) \in Word
    BY <2>2
  <2>. QED BY <1>1, <1>5, <2>1, <2>3
<1>6. CASE c.codec.kind = "direct"
  BY <1>6 DEF Decoded
<1>7. CASE c.codec.kind = "both"
  <2>1. d = [k \in DOMAIN buf |-> IF k <= n THEN words[k]
                                  ELSE IF k <= n + 2 THEN half[k - n] ELSE buf[k]]
    BY <1>7 DEF Decoded
  <2> HIDE DEF half
  <2>2. ASSUME NEW k \in 1 .. n + m
        PROVE  (IF k <= n THEN words[k] ELSE IF k <= n + 2 THEN half[k - n] ELSE buf[k]) \in Word
    <3>1. ~(k <= n) /\ k <= n + 2 => k - n \in {1, 2}
      OBVIOUS
    <3>2. ~(k <= n) /\ k <= n + 2 => half[k - n] \in Word
      BY <1>3, <3>1
    <3>3. k <= n => words[k] \in Word
      OBVIOUS
    <3> HIDE DEF words
    <3>. QED BY <3>2, <3>3
  <2>3. d \in [1 .. n + m -> Word]
    <3> HIDE DEF words
    <3>. QED BY <1>1, <2>1, <2>2
  <2>4. ASSUME m >= 2, NEW j \in {1, 2} PROVE d[n + j] = half[j]
    <3>1. /\ n + j \in 1 .. n + m /\ ~(n + j <= n) /\ n + j <= n + 2
          /\ (n + j) - n = j
      BY <2>4
    <3> HIDE DEF words
    <3>2. d[n + j] = half[(n + j) - n]
      BY <1>1, <2>1, <3>1
    <3>. QED BY <3>1, <3>2
  <2>. QED BY <2>3, <2>4 DEF half
<1>8. CASE c.codec.kind = "sum"
  <2>1. d = [k \in DOMAIN buf |-> IF k \in n + 1 .. n + 2 THEN half[k - n] ELSE buf[k]]
    BY <1>8 DEF Decoded
  <2> HIDE DEF half
  <2>2. ASSUME NEW k \in 1 .. n + m
        PROVE  (IF k \in n + 1 .. n + 2 THEN half[k - n] ELSE buf[k]) \in Word
    <3>1. k \in n + 1 .. n + 2 => k - n \in {1, 2}
      OBVIOUS
    <3>. QED BY <1>3, <3>1
  <2>3. d \in [1 .. n + m -> Word]
    BY <1>1, <2>1, <2>2
  <2>4. ASSUME m >= 2, NEW j \in {1, 2} PROVE d[n + j] = half[j]
    <3>1. n + j \in 1 .. n + m /\ n + j \in n + 1 .. n + 2 /\ (n + j) - n = j
      BY <2>4
    <3>2. d[n + j] = half[(n + j) - n]
      BY <1>1, <2>1, <3>1
    <3>. QED BY <3>1, <3>2
  <2>. QED BY <2>3, <2>4 DEF half
<1>. QED BY <1>4, <1>5, <1>6, <1>7, <1>8

\* The number that is left in the sink fits it.
LEMMA SinkType ==
  ASSUME n \in Nat, 2 <= n, n <= WordSize, NEW m \in Nat, NEW buf \in [1 .. n + m -> Word],
         NEW t, NEW path, ReadsBehind(path, t) <= m, NEW s \in Sink
  PROVE  IF path = "uint16" THEN SinkU16(t, buf, n, s) \in Sink ELSE SinkI32(t, buf, n, s) \in Sink
<1>1. 1 .. n \subseteq DOMAIN buf /\ \A k \in 1 .. n : buf[k] \in Word /\ buf[k] \in Int
  <2>1. \A k \in 1 .. n : k \in 1 .. n + m
    OBVIOUS
  <2>2. \A k \in 1 .. n : buf[k] \in Word
    BY <2>1
  <2>. QED BY <2>1, <2>2, WordsAreInts
<1>2. SumOfWords(buf, 1 .. n) \in Sink /\ SumOfWords(buf, 1 .. n) \in Int
      /\ LinearSum(buf, n) \in Sink
  <2>1. /\ SumOfWords(buf, 1 .. n) \in 0 .. WordSize * WordSize - 1
        /\ AsInt32(SumOfWords(buf, 1 .. n)) = SumOfWords(buf, 1 .. n)
    BY <1>1, TotalFits
  <2>2. SumOfWords(buf, 1 .. n) \in Int
    <3>1. IsFiniteSet(1 .. n)
      BY FS_Interval
    <3>. QED BY <1>1, <3>1, SumOfWordsType
  <2>. QED BY <2>1, <2>2 DEF LinearSum, Sink
<1>3. LinearSumSimdUnpack(buf, n) \in Sink /\ LinearSumSimd(buf, n) \in Sink
  BY <1>1, <1>2, SimdSums DEF Sink
<1>4. LinearMin(buf, n) \in Sink /\ LinearMax(buf, n) \in Sink
  <2>1. n \in Nat \ {0} /\ \A k \in 1 .. n : buf[k] \in Word
    BY <1>1
  <2>2. LinearMin(buf, n) \in Word /\ LinearMax(buf, n) \in Word
    BY ONLY <2>1, SimdExtremes
  <2>. QED BY <2>2, SinkFacts
<1>5. LinearCountGtFxP(buf, n) \in Sink /\ LinearCountGtFP(buf, n) \in Sink
  <2>1. WordSize \in Nat \ {0} /\ WordSize < WordSize * WordSize
    <3>1. 2 * WordSize <= WordSize * WordSize
      BY WordFacts, MulMono
    <3>. QED BY <3>1, WordFacts
  <2>2. 0 .. n \subseteq Sink
    <3>1. WordSize * WordSize \in Int
      BY <2>1
    <3>. QED BY <2>1, <3>1 DEF Sink
  <2>. QED BY <2>2, SimdCounts
<1>6. CASE path = "uint16"
  <2>1. CASE t = "linearSumFused"
    <3>1. n + 1 \in 1 .. n + m /\ n + 2 \in 1 .. n + m
      BY <1>6, <2>1 DEF ReadsBehind
    <3>2. buf[n + 1] + WordSize * buf[n + 2] \in Int
      <4>1. buf[n + 1] \in Int /\ buf[n + 2] \in Int /\ WordSize \in Int
        <5>1. buf[n + 1] \in Word /\ buf[n + 2] \in Word
          BY <3>1
        <5>2. buf[n + 1] \in Int /\ buf[n + 2] \in Int
          BY ONLY <5>1, WordsAreInts
        <5>. QED BY <5>2, WordFacts
      <4>. QED BY <4>1
    <3>3. LinearSumFused(buf, n) \in Sink
      BY <3>2, AsInt32Type DEF LinearSumFused, Sink
    <3>. QED BY <1>6, <2>1, <3>3 DEF SinkU16
  <2>2. CASE t # "linearSumFused"
    BY <1>2, <1>3, <1>4, <1>5, <1>6, <2>2, Zenon DEF SinkU16
  <2>. QED BY <2>1, <2>2
<1>7. CASE path # "uint16"
  <2>1. CASE t = "linearSumFused"
    <3>1. n + 1 \in 1 .. n + m
      BY <1>7, <2>1 DEF ReadsBehind
    <3>. QED BY <1>7, <2>1, <3>1, SinkFacts DEF SinkI32
  <2>2. CASE t # "linearSumFused"
    <3>1. SumOfWords(buf, 1 .. n) % WordSize \in Sink
      BY <1>2, SinkFacts
    <3>. QED BY <1>7, <2>2, <3>1, Zenon DEF SinkI32
  <2>. QED BY <2>1, <2>2
<1>. QED BY <1>6, <1>7

\* An access leaves words in the buffer and a number that fits in the sink.
LEMMA AccessedType ==
  ASSUME n \in Nat, 2 <= n, n <= WordSize, MaxClasses <= n, NEW m \in Nat,
         NEW buf \in [1 .. n + m -> Word], kLinearSumSink \in Sink, NEW r \in Accessed(buf)
  PROVE  r.data \in [1 .. n + m -> Word] /\ r.sink \in Sink
<1>1. Len(buf) = n + m /\ ReadsBehind(combo.path, combo.accessTrans) \in {0, 1, 2}
  <2>1. Len(buf) = n + m
    BY ArrayLength DEF Array
  <2>. QED BY <2>1 DEF ReadsBehind
<1>2. CASE n + ReadsBehind(combo.path, combo.accessTrans) <= Len(buf)
  <2>1. r = ApplyAccessTransformation(combo.path, combo.accessTrans, buf, n, kLinearSumSink)
    BY <1>2 DEF Accessed
  <2>2. ReadsBehind(combo.path, combo.accessTrans) <= m
    BY <1>1, <1>2
  <2>3. r.sink \in Sink
    <3>1. IF combo.path = "uint16" THEN SinkU16(combo.accessTrans, buf, n, kLinearSumSink) \in Sink
          ELSE SinkI32(combo.accessTrans, buf, n, kLinearSumSink) \in Sink
      BY <2>2, SinkType
    <3>. QED BY <2>1, <3>1 DEF ApplyAccessTransformation
  <2>4. r.data \in [1 .. n + m -> Word]
    <3>1. \/ r.data = buf
          \/ /\ AccessTransformationMutatesData(combo.accessTrans)
             /\ r.data = ApplyTransformation(buf, combo.accessTrans)
      BY <2>1 DEF ApplyAccessTransformation
    <3>4. MaxClasses \in Nat /\ WordSize \in Nat
      BY ClassesAssumption, WordFacts
    <3>2. n + m \in Nat /\ MaxClasses <= n + m /\ MaxClasses <= WordSize
      BY <3>4
    <3>3. \A t : AccessTransformationMutatesData(t) => ApplyTransformation(buf, t) \in [1 .. n + m -> Word]
      BY <3>2, TransformationType
    <3>. QED BY <3>1, <3>3
  <2>. QED BY <2>3, <2>4
<1>3. CASE ~(n + ReadsBehind(combo.path, combo.accessTrans) <= Len(buf))
  <2>1. PICK w \in Scratch : r = [data |-> buf, sink |-> w]
    BY <1>3 DEF Accessed
  <2>. QED BY <2>1, SinkFacts
<1>. QED BY <1>2, <1>3

\* What is encoded has the sum of the raster's words, whichever the ordering.
LEMMA SourceSum ==
  ASSUME IInv, pc # "sample", ~RemapThrows, NEW b \in InGrid
  PROVE  /\ Source(b) \in [1 .. n -> Word]
         /\ SumOfWords(Source(b), 1 .. n) = SumOfWords(Block(b), 1 .. n)
         /\ combo.path = "uint16" => Source(b) = Block(b)
<1> DEFINE p == Pixels(combo.raster, offsets[b], n)
<1>1. /\ n \in Nat /\ blockSize \in Nat \ {0} /\ n = blockSize * blockSize
      /\ p \in [1 .. n -> Word] /\ Block(b) \in [1 .. n -> Word]
  BY BlockType
<1>2. combo \in Runs /\ combo.path \in {"int32", "uint16"}
      /\ combo.ordering \in {"default", "zigzag", "morton"}
  BY ComboFacts, CombosAssumption DEF IInv
<1>3. CASE combo.initTrans # "none"
  BY <1>1, <1>3 DEF Source
<1>4. CASE combo.path = "uint16"
  <2>1. Block(b) = p
    BY <1>4 DEF Block, Prepared
  <2>. QED BY <1>1, <2>1 DEF Source
<1>5. CASE combo.initTrans = "none" /\ combo.path = "int32"
  <2>1. Source(b) = p /\ Block(b) = ApplyOrdering(p, combo.ordering, blockSize)
    BY <1>5 DEF Source, Block, Prepared, ApplyTransformation
  <2>2. p \in [1 .. n -> Int]
    <3>1. \A k \in 1 .. n : p[k] \in Int
      BY <1>1, WordsAreInts
    <3> HIDE DEF p
    <3>. QED BY <1>1, <3>1
  <2> HIDE DEF p
  <2>3. \A dst \in Bijection(Places(blockSize), Places(blockSize)) :
          SumOfWords(Remapped(p, dst), 1 .. n) = SumOfWords(p, 1 .. n)
    BY ONLY <1>1, <2>2, RemappedSum
  <2>4. CASE combo.ordering = "default"
    BY <1>1, <2>1, <2>4, <1>5 DEF ApplyOrdering
  <2>5. CASE combo.ordering = "zigzag"
    <3>1. Block(b) = Remapped(p, ZigzagOrder(blockSize))
      BY <2>1, <2>5 DEF ApplyOrdering
    <3>. QED BY <1>1, <1>5, <2>1, <2>3, <3>1, ZigzagIsPermutation
  <2>6. CASE combo.ordering = "morton"
    <3>1. Block(b) = Remapped(p, MortonOrder(blockSize))
      BY <2>1, <2>6 DEF ApplyOrdering
    <3>2. MortonFits(blockSize)
      BY <1>5, <2>6 DEF RemapThrows
    <3>. QED BY <1>1, <1>5, <2>1, <2>3, <3>1, <3>2, MortonIsPermutation
  <2>. QED BY <1>2, <2>4, <2>5, <2>6
<1>. QED BY <1>2, <1>3, <1>4, <1>5

\* What a block's codec has decoded gives the number, if the combination has one.
LEMMA NumberIsTrue ==
  ASSUME IInv, pc # "sample", ~RemapThrows, Paired, NEW b \in InGrid,
         NEW m, m = combo.base.overflow,
         NEW len \in Nat, n <= len, NEW buf \in [1 .. len -> Word],
         combo.base.kind \in {"direct", "values", "both"} => \A k \in 1 .. n : buf[k] = Block(b)[k],
         combo.base.kind \in {"both", "sum"} =>
           /\ len >= n + 2
           /\ buf[n + 1] = SumOfWords(Block(b), 1 .. n) % WordSize
           /\ buf[n + 2] = (SumOfWords(Block(b), 1 .. n) \div WordSize) % WordSize,
         NEW r \in Accessed(buf)
  PROVE  r.sink = TrueNumber(b)
<1> DEFINE words == Block(b)
           src   == Source(b)
           total == SumOfWords(words, 1 .. n)
           t     == combo.accessTrans
<1>1. /\ n \in Nat /\ 2 <= n /\ n <= WordSize /\ words \in [1 .. n -> Word]
      /\ src \in [1 .. n -> Word] /\ SumOfWords(src, 1 .. n) = total
      /\ combo.path = "uint16" => src = words
  BY BlockType, SourceSum
<1>2. \A k \in 1 .. n : words[k] \in Word /\ words[k] \in Int
  BY <1>1, WordsAreInts
<1>3. total \in 0 .. WordSize * WordSize - 1
  <2> HIDE DEF words
  <2>. QED BY <1>1, <1>2, TotalFits
<1>4. Len(buf) = len
  BY ArrayLength DEF Array
<1>5. t \in {"linearSum", "linearSumSimd", "linearSumFused"} =>
        TrueNumber(b) = IF combo.path = "uint16" THEN total ELSE total % WordSize
  BY <1>1 DEF TrueNumber
<1> HIDE DEF words, src, total
<1>6. CASE t = "linearSumFused"
  <2>1. combo.base.kind \in {"sum", "both"}
    BY <1>6 DEF Paired, BaseGives
  <2>2. len >= n + 2 /\ buf[n + 1] = total % WordSize /\ buf[n + 2] = (total \div WordSize) % WordSize
    BY <2>1 DEF total, words
  <2>3. n + ReadsBehind(combo.path, combo.accessTrans) <= Len(buf)
    BY <1>1, <1>4, <2>2 DEF ReadsBehind
  <2>4. r = ApplyAccessTransformation(combo.path, combo.accessTrans, buf, n, kLinearSumSink)
    BY <2>3 DEF Accessed
  <2>5. LinearSumFused(buf, n) = total
    BY <1>1, <1>3, <2>2, FusedSum
  <2>6. r.sink = IF combo.path = "uint16" THEN LinearSumFused(buf, n) ELSE buf[n + 1]
    BY <1>6, <2>4 DEF ApplyAccessTransformation, SinkU16, SinkI32
  <2>. QED BY <1>5, <1>6, <2>2, <2>5, <2>6
<1>7. CASE t # "linearSumFused"
  <2>1. combo.base.kind \in {"direct", "values", "both"}
    BY <1>7 DEF Paired, BaseGives
  <2>2. \A k \in 1 .. n : buf[k] = words[k]
    BY <2>1 DEF words
  <2>3. r = ApplyAccessTransformation(combo.path, combo.accessTrans, buf, n, kLinearSumSink)
    <3>1. n + ReadsBehind(combo.path, combo.accessTrans) <= Len(buf)
      BY <1>1, <1>4, <1>7 DEF ReadsBehind
    <3>. QED BY <3>1 DEF Accessed
  <2>4. /\ r.sink = IF combo.path = "uint16" THEN SinkU16(t, buf, n, kLinearSumSink)
                    ELSE SinkI32(t, buf, n, kLinearSumSink)
    BY <2>3 DEF ApplyAccessTransformation
  <2>5. SumOfWords(buf, 1 .. n) = total
    <3>1. IsFiniteSet(1 .. n)
      BY <1>1, FS_Interval
    <3>2. SumFunctionOnSet(buf, 1 .. n) = SumFunctionOnSet(words, 1 .. n)
      <4> DEFINE S == 1 .. n
      <4>1. \A k \in S : words[k] \in Int /\ words[k] = buf[k]
        BY <1>1, <1>2, <2>2, WordsAreInts
      <4>2. IsFiniteSet(S)
        BY <3>1
      <4> HIDE DEF S, words
      <4>3. SumFunctionOnSet(words, S) = SumFunctionOnSet(buf, S)
        BY ONLY <4>1, <4>2, SumEqual
      <4>. QED BY <4>3 DEF S
    <3>. QED BY <3>2, SumOfWordsIsSum DEF total
  <2>6. CASE combo.path # "uint16"
    <3>1. t \in {"linearSum", "linearSumSimd"}
      BY <1>7, <2>6 DEF Paired
    <3>2. SinkI32(t, buf, n, kLinearSumSink) = SumOfWords(buf, 1 .. n) % WordSize
      BY <3>1 DEF SinkI32
    <3>. QED BY <1>5, <2>4, <2>5, <2>6, <3>1, <3>2
  <2>7. CASE combo.path = "uint16"
    <3>1. /\ \A k \in 1 .. n : buf[k] \in Word /\ k \in 1 .. len
          /\ 1 .. n \subseteq DOMAIN buf
          /\ n \in Nat \ {0}
      BY <1>1, <1>2, <2>2
    <3>2. /\ DOMAIN src = 1 .. n /\ \A k \in 1 .. n : src[k] = buf[k]
      BY <1>1, <2>2, <2>7
    <3>3. CASE t = "linearSum"
      <4>1. AsInt32(SumOfWords(buf, 1 .. n)) = SumOfWords(buf, 1 .. n)
        BY <1>1, <3>1, TotalFits
      <4>2. r.sink = AsInt32(SumOfWords(buf, 1 .. n))
        BY <2>4, <2>7, <3>3 DEF SinkU16, LinearSum
      <4>. QED BY <1>5, <2>5, <2>7, <3>3, <4>1, <4>2
    <3>4. CASE t = "linearSumSimd"
      <4>1. \A k \in 1 .. n : buf[k] < Half
        <5>1. AllOf(src) \subseteq 0 .. Half - 1
          BY <2>7, <3>4 DEF Paired, src
        <5>2. \A k \in 1 .. n : src[k] \in 0 .. Half - 1
          BY <3>2, <5>1 DEF AllOf
        <5>3. Half \in Int
          BY WordFacts
        <5>. QED BY <3>2, <5>2, <5>3
      <4>2. LinearSumSimd(buf, n) = SumOfWords(buf, 1 .. n)
        BY <1>1, <3>1, <4>1, SimdSums
      <4>3. r.sink = LinearSumSimd(buf, n)
        BY <2>4, <2>7, <3>4 DEF SinkU16
      <4>. QED BY <1>5, <2>5, <2>7, <3>4, <4>2, <4>3
    <3>5. CASE t = "linearSumSimdUnpack"
      <4>1. LinearSumSimdUnpack(buf, n) = SumOfWords(buf, 1 .. n)
        BY <1>1, <3>1, SimdSums
      <4>2. r.sink = LinearSumSimdUnpack(buf, n)
        BY <2>4, <2>7, <3>5 DEF SinkU16
      <4>3. TrueNumber(b) = SumOfWords(src, 1 .. n)
        BY <2>7, <3>5 DEF TrueNumber, src
      <4>. QED BY <1>1, <2>5, <4>1, <4>2, <4>3
    <3>6. AllOf(src) = {buf[k] : k \in 1 .. n}
      BY <3>2 DEF AllOf
    <3>7. CASE t = "linearMin"
      <4>1. LinearMin(buf, n) = Min({buf[k] : k \in 1 .. n})
        BY <3>1, SimdExtremes
      <4>2. r.sink = LinearMin(buf, n) /\ TrueNumber(b) = Min(AllOf(src))
        BY <2>4, <2>7, <3>7 DEF SinkU16, TrueNumber, src
      <4>. QED BY <3>6, <4>1, <4>2
    <3>8. CASE t = "linearMax"
      <4>1. LinearMax(buf, n) = Max({buf[k] : k \in 1 .. n})
        BY <3>1, SimdExtremes
      <4>2. r.sink = LinearMax(buf, n) /\ TrueNumber(b) = Max(AllOf(src))
        BY <2>4, <2>7, <3>8 DEF SinkU16, TrueNumber, src
      <4>. QED BY <3>6, <4>1, <4>2
    <3>9. CASE t \in {"linearCountGtFxP", "linearCountGtFP"}
      <4>1. /\ LinearCountGtFxP(buf, n) = Cardinality({k \in 1 .. n : buf[k] > CountThreshold})
            /\ LinearCountGtFP(buf, n) = Cardinality({k \in 1 .. n : buf[k] > CountThreshold})
        BY <1>1, SimdCounts
      <4>2. r.sink \in {LinearCountGtFxP(buf, n), LinearCountGtFP(buf, n)}
        BY <2>4, <2>7, <3>9 DEF SinkU16
      <4>3. TrueNumber(b) = Cardinality({k \in 1 .. n : src[k] > CountThreshold})
        BY <3>9 DEF TrueNumber, src
      <4>4. {k \in 1 .. n : src[k] > CountThreshold} = {k \in 1 .. n : buf[k] > CountThreshold}
        BY <3>2
      <4>. QED BY <4>1, <4>2, <4>3, <4>4
    <3>. QED BY <1>7, <2>7, <3>3, <3>4, <3>5, <3>7, <3>8, <3>9 DEF Paired
  <2>. QED BY <2>6, <2>7
<1>. QED BY <1>6, <1>7

----------------------------------------------------------------------------
(* Types and numbers *)

GridTyped ==
  DOMAIN codecs = InGrid /\ \A b \in InGrid : codecs[b].words \in [1 .. n -> Word]

BufferTyped == decbuf \in [1 .. n + combo.base.overflow -> Word]

\* What has not been accessed is as the base codec has encoded it.
Fresh ==
  \A k \in InGrid : (k > pos \/ ~dataChange) =>
    codecs[accessIndexes[k]] = [codec |-> combo.base, words |-> Block(accessIndexes[k])]

TypeInv ==
  /\ kLinearSumSink \in Sink
  /\ traced # None => traced.block \in InGrid /\ traced.sum \in Sink
  /\ pc = "sample" => traced = None /\ codecs = None /\ decbuf = None /\ pos = 0
  /\ pos <= Len(offsets)
  /\ pc # "sample" => (codecs = None \/ GridTyped) /\ (decbuf = None \/ BufferTyped)
  /\ pc = "access" =>
       /\ GridTyped /\ BufferTyped /\ Fresh
       /\ ~RemapThrows /\ (isDirectAccess <=> combo.base.kind = "direct")

LEMMA SplitType ==
  ASSUME IInv, samplingPc = "done", allow_wrap
  PROVE  /\ DOMAIN SplitIntoFullBlocks = InGrid
         /\ \A b \in InGrid : /\ SplitIntoFullBlocks[b] = [codec |-> combo.base, words |-> Block(b)]
                              /\ SplitIntoFullBlocks[b].words \in [1 .. n -> Word]
<1>1. \A b \in InGrid : Block(b) \in [1 .. n -> Word]
  BY PreparedType
<1>. QED BY <1>1 DEF SplitIntoFullBlocks, InGrid, Block

LEMMA SettledTypes ==
  ASSUME UNCHANGED <<samplingVars, combo>>
  PROVE  /\ n' = n /\ (\A b : Block(b)' = Block(b)) /\ (\A b : Source(b)' = Source(b))
         /\ (RemapThrows' <=> RemapThrows) /\ Len(offsets)' = Len(offsets)
         /\ (Paired' <=> Paired) /\ \A b : TrueNumber(b)' = TrueNumber(b)
<1>1. n' = n /\ InGrid' = InGrid /\ combo' = combo /\ offsets' = offsets /\ blockSize' = blockSize
  BY DEF samplingVars, n, InGrid
<1>2. \A b : Block(b)' = Block(b)
  BY <1>1 DEF Block, Prepared
<1>3. \A b : Source(b)' = Source(b)
  BY <1>1, <1>2 DEF Source
<1>4. RemapThrows' <=> RemapThrows
  BY <1>1 DEF RemapThrows
<1>5. Paired' <=> Paired
  BY <1>1, <1>3 DEF Paired, BaseGives
<1>6. ASSUME NEW b PROVE TrueNumber(b)' = TrueNumber(b)
  BY <1>1, <1>3 DEF TrueNumber
<1>. QED BY <1>1, <1>2, <1>3, <1>4, <1>5, <1>6

LEMMA InitTypes == Init => TypeInv
BY SinkFacts, EmptySeq DEF Init, TypeInv, None, Sampling!Init

LEMMA SampleKeepsTypes ==
  ASSUME IInv, TypeInv, Sample PROVE TypeInv'
<1>1. /\ pc = "sample" /\ pc' = "sample"
      /\ UNCHANGED <<kLinearSumSink, traced, codecs, decbuf, pos>>
  BY DEF Sample, accessVars
<1>2. Len(offsets)' \in Nat
  <2>1. Sampled'
    BY SampleKeepsSampled DEF IInv
  <2>2. (offsets \in Seq(Points))'
    BY <2>1 DEF Sampled
  <2>. QED BY <2>2, LenProperties
<1>. QED BY <1>1, <1>2 DEF TypeInv

LEMMA BeginKeepsTypes ==
  ASSUME IInv, TypeInv, Begin PROVE TypeInv'
<1>1. /\ pc = "sample" /\ pc' = "rep" /\ samplingPc = "done" /\ allow_wrap
      /\ UNCHANGED <<samplingVars, combo>>
      /\ UNCHANGED <<kLinearSumSink, traced, decbuf, pos>>
      /\ codecs' = (IF staticGrid THEN SplitIntoFullBlocks ELSE None)
  BY DEF Begin
<1>2. codecs' = None \/ GridTyped'
  <2>1. CASE ~staticGrid
    BY <1>1, <2>1 DEF None
  <2>2. CASE staticGrid
    BY <1>1, <2>2, SplitType, Settled, SettledTypes DEF GridTyped
  <2>. QED BY <2>1, <2>2
<1>. QED BY <1>1, <1>2, Settled, SettledTypes DEF TypeInv, None

LEMMA StartRepKeepsTypes ==
  ASSUME IInv, TypeInv, StartRep PROVE TypeInv'
<1>1. /\ pc = "rep" /\ pc' = "access" /\ pos' = 0
      /\ UNCHANGED <<samplingVars, combo>> /\ UNCHANGED <<accessIndexes, kLinearSumSink, traced>>
      /\ staticGrid \/ ~RemapThrows
      /\ codecs' = (IF staticGrid THEN codecs ELSE SplitIntoFullBlocks)
      /\ (isDirectAccess' <=> codecs'[1].codec.kind = "direct")
      /\ decbuf' = [k \in 1 .. n + codecs'[1].codec.overflow |-> 0]
  BY DEF StartRep
<1>2. samplingPc = "done" /\ allow_wrap
  BY <1>1 DEF IInv, ControlInv
<1>3. InGrid = 1 .. Len(offsets) /\ Len(offsets) \in Nat \ {0}
  BY <1>2, GridSize DEF IInv
<1>4. codecs' = SplitIntoFullBlocks
  BY <1>1 DEF IInv, GridForm
<1>5. codecs'[1].codec = combo.base
  BY <1>2, <1>3, <1>4, SplitType
<1>6. GridTyped'
  BY <1>1, <1>2, <1>4, SplitType, Settled, SettledTypes DEF GridTyped
<1>7. BufferTyped'
  <2>1. 0 \in Word
    BY WordFacts DEF Word
  <2>. QED BY <1>1, <1>5, <2>1, SettledTypes DEF BufferTyped
<1>8. Fresh'
  <2>1. \A k \in InGrid : accessIndexes[k] \in InGrid
    BY <1>1 DEF IInv, ControlInv, Bijection, Injection
  <2>2. \A k \in InGrid : codecs'[accessIndexes[k]] = [codec |-> combo.base, words |-> Block(accessIndexes[k])]
    BY <1>2, <1>4, <2>1, SplitType
  <2>. QED BY <1>1, <2>2, Settled, SettledTypes DEF Fresh
<1>9. ~RemapThrows'
  BY <1>1, SettledTypes DEF RemapThrows, staticGrid
<1>10. pos' <= Len(offsets)'
  BY <1>1, <1>3, SettledTypes
<1>. QED BY <1>1, <1>5, <1>6, <1>7, <1>8, <1>9, <1>10, Settled DEF TypeInv

\* An access takes a block that has not been accessed yet, from whichever codec.
LEMMA AccessTakesFresh ==
  ASSUME IInv, TypeInv, AccessBlock
  PROVE  /\ pos \in Nat /\ pos + 1 \in InGrid /\ pos + 1 <= Len(offsets)
         /\ accessIndexes[pos + 1] \in InGrid
         /\ codecs[accessIndexes[pos + 1]]
              = [codec |-> combo.base, words |-> Block(accessIndexes[pos + 1])]
<1>1. pc = "access" /\ pos < Len(codecs)
  BY DEF AccessBlock
<1>2. InGrid = 1 .. Len(offsets) /\ Len(offsets) \in Nat \ {0}
  BY <1>1, GridSize DEF IInv, ControlInv
<1>3. Len(codecs) = Len(offsets)
  BY <1>1, <1>2, FunctionIsSeq DEF IInv, GridForm
<1>4. pos \in Nat /\ pos + 1 \in InGrid /\ pos + 1 <= Len(offsets) /\ pos + 1 > pos
  BY <1>1, <1>2, <1>3 DEF IInv, ControlInv
<1>5. accessIndexes[pos + 1] \in InGrid
  BY <1>1, <1>4 DEF IInv, ControlInv, Bijection, Injection
<1>. QED BY <1>1, <1>4, <1>5 DEF TypeInv, Fresh

LEMMA AccessBlockKeepsTypes ==
  ASSUME IInv, TypeInv, AccessBlock
  PROVE  /\ TypeInv'
         /\ Paired => traced'.sum = TrueNumber(traced'.block)
<1> DEFINE b == accessIndexes[pos + 1]
           m == combo.base.overflow
<1>1. /\ pc = "access" /\ pc' = "access" /\ pos' = pos + 1
      /\ UNCHANGED <<samplingVars, combo>> /\ UNCHANGED <<accessIndexes, isDirectAccess>>
  BY DEF AccessBlock
<1>2. /\ pos \in Nat /\ pos + 1 \in InGrid /\ pos + 1 <= Len(offsets) /\ b \in InGrid
      /\ codecs[b] = [codec |-> combo.base, words |-> Block(b)]
  BY AccessTakesFresh
<1>3. /\ n \in Nat /\ 2 <= n /\ n <= WordSize /\ MaxClasses <= n /\ Block(b) \in [1 .. n -> Word]
  BY <1>1, <1>2, BlockType
<1>4. /\ m \in Nat /\ combo.base.kind \in {"direct", "values", "both", "sum", "garbled"}
      /\ combo.base.kind \in {"both", "sum"} => m >= 2
  BY <1>1, ComboFacts, CombosAssumption DEF IInv
<1>5. /\ GridTyped /\ Fresh /\ ~RemapThrows /\ decbuf \in [1 .. n + m -> Word]
      /\ isDirectAccess <=> combo.base.kind = "direct"
      /\ kLinearSumSink \in Sink
  BY <1>1 DEF TypeInv, BufferTyped
<1> DEFINE Stored(r) ==
             /\ kLinearSumSink' = r.sink
             /\ traced' = [block |-> b, sum |-> r.sink]
             /\ decbuf' = IF isDirectAccess THEN decbuf ELSE r.data
             /\ codecs' = IF dataChange
                          THEN [codecs EXCEPT ![b] = [codec |-> combo.access,
                                                      words |-> SubSeq(r.data, 1, n)]]
                          ELSE codecs
<1>0. PICK buf \in IF isDirectAccess THEN {codecs[b].words} ELSE Decoded(codecs[b], decbuf) :
        \E r \in Accessed(buf) : Stored(r)
  BY Zenon DEF AccessBlock
<1>6. PICK r \in Accessed(buf) : Stored(r)
  BY <1>0
<1> DEFINE over == IF isDirectAccess THEN 0 ELSE m
<1>7. /\ over \in Nat /\ buf \in [1 .. n + over -> Word]
      /\ (isDirectAccess \/ combo.base.kind \in {"values", "both"}) =>
           \A k \in 1 .. n : buf[k] = Block(b)[k]
      /\ combo.base.kind \in {"both", "sum"} =>
           /\ over >= 2
           /\ buf[n + 1] = SumOfWords(Block(b), 1 .. n) % WordSize
           /\ buf[n + 2] = (SumOfWords(Block(b), 1 .. n) \div WordSize) % WordSize
  <2>1. CASE isDirectAccess
    <3>1. buf = Block(b)
      BY <1>0, <1>2, <2>1
    <3>2. n + 0 = n /\ over = 0
      BY <1>3, <2>1
    <3>. QED BY <1>3, <1>5, <2>1, <3>1, <3>2
  <2>2. CASE ~isDirectAccess
    <3> DEFINE c == codecs[b]
    <3>1. c.codec = combo.base /\ c.words = Block(b) /\ buf \in Decoded(c, decbuf) /\ over = m
      BY <1>0, <1>2, <2>2
    <3> HIDE DEF b, c, m, over
    <3>2. /\ buf \in [1 .. n + m -> Word]
          /\ (c.codec.kind \in {"both", "sum"} /\ m >= 2) =>
               /\ buf[n + 1] = SumOfWords(c.words, 1 .. n) % WordSize
               /\ buf[n + 2] = (SumOfWords(c.words, 1 .. n) \div WordSize) % WordSize
      BY <1>3, <1>4, <1>5, <3>1, DecodedType
    <3>3. Array(decbuf, n + m)
      BY <1>5 DEF Array
    <3>4. ASSUME c.codec.kind \in {"values", "both"} PROVE \A k \in 1 .. n : buf[k] = c.words[k]
      <4>1. n \in Nat /\ m \in Nat /\ buf \in Decoded(c, decbuf)
        BY <1>3, <1>4, <3>1
      <4>2. n \in Nat /\ m \in Nat /\ Array(decbuf, n + m)
        BY <1>3, <1>4, <3>3
      <4>3. ASSUME NEW e, NEW f, Array(f, n + m), e.codec.kind \in {"values", "both"},
                   NEW d \in Decoded(e, f)
            PROVE  Array(d, n + m) /\ \A k \in 1 .. n : d[k] = e.words[k]
        BY ONLY <4>2, <4>3, DecodedIsBlock
      <4>. QED BY ONLY <3>3, <3>4, <4>1, <4>3
    <3>. QED BY <1>4, <2>2, <3>1, <3>2, <3>4
  <2>. QED BY <2>1, <2>2
<1>8. r.data \in [1 .. n + over -> Word] /\ r.sink \in Sink
  <2> HIDE DEF over
  <2>. QED BY <1>3, <1>5, <1>6, <1>7, AccessedType
<1>9. Paired => traced'.sum = TrueNumber(traced'.block)
  <2> SUFFICES ASSUME Paired PROVE r.sink = TrueNumber(b)
    BY <1>6
  <2> DEFINE len == n + over
  <2>1. len \in Nat /\ n <= len /\ buf \in [1 .. len -> Word]
    BY <1>3, <1>7
  <2>2. /\ combo.base.kind \in {"direct", "values", "both"} => \A k \in 1 .. n : buf[k] = Block(b)[k]
        /\ combo.base.kind \in {"both", "sum"} =>
             /\ len >= n + 2
             /\ buf[n + 1] = SumOfWords(Block(b), 1 .. n) % WordSize
             /\ buf[n + 2] = (SumOfWords(Block(b), 1 .. n) \div WordSize) % WordSize
    <3>1. over >= 2 => len >= n + 2
      BY <1>3, <1>7
    <3> HIDE DEF over, len, b
    <3>. QED BY <1>5, <1>7, <3>1
  <2> HIDE DEF over, len, b
  <2>. QED BY <1>1, <1>2, <1>5, <1>6, <2>1, <2>2, NumberIsTrue
<1>10. (traced # None => traced.block \in InGrid /\ traced.sum \in Sink)'
  <2>1. traced'.block = b /\ traced'.sum = r.sink
    BY <1>6
  <2>. QED BY <1>1, <1>2, <1>8, <2>1, Settled DEF Sink
<1>11. GridTyped'
  <2>1. SubSeq(r.data, 1, n) \in [1 .. n -> Word]
    <3>1. Array(r.data, n + over)
      BY <1>8 DEF Array
    <3>2. SubSeq(r.data, 1, n) = [k \in 1 .. n |-> r.data[k]]
      <4> HIDE DEF over
      <4>. QED BY <1>3, <1>7, <3>1, FrontOfArray
    <3>3. \A k \in 1 .. n : k \in 1 .. n + over
      BY <1>3, <1>7
    <3> HIDE DEF over
    <3>. QED BY <1>8, <3>2, <3>3
  <2>2. DOMAIN codecs' = InGrid /\ \A k \in InGrid : codecs'[k].words \in [1 .. n -> Word]
    <3>1. DOMAIN codecs = InGrid /\ \A k \in InGrid : codecs[k].words \in [1 .. n -> Word]
      BY <1>5 DEF GridTyped
    <3>2. CASE ~dataChange
      BY <1>6, <3>1, <3>2
    <3>3. CASE dataChange
      <4> DEFINE e == [codec |-> combo.access, words |-> SubSeq(r.data, 1, n)]
      <4>1. codecs' = [codecs EXCEPT ![b] = e] /\ e.words = SubSeq(r.data, 1, n)
        BY <1>6, <3>3
      <4> HIDE DEF e, b
      <4>2. \A k \in InGrid : codecs'[k] = IF k = b THEN e ELSE codecs[k]
        BY <3>1, <4>1
      <4>. QED BY <2>1, <3>1, <4>1, <4>2
    <3>. QED BY <3>2, <3>3
  <2>. QED BY <1>1, <2>2, Settled, SettledTypes DEF GridTyped
<1>12. BufferTyped'
  <2>1. decbuf' \in [1 .. n + m -> Word]
    BY <1>5, <1>6, <1>8
  <2>. QED BY <1>1, <2>1, SettledTypes DEF BufferTyped
<1>13. Fresh'
  <2> SUFFICES ASSUME NEW k \in InGrid, k > pos + 1 \/ ~dataChange
               PROVE  codecs'[accessIndexes[k]] = [codec |-> combo.base, words |-> Block(accessIndexes[k])]
    BY <1>1, Settled, SettledTypes DEF Fresh
  <2>1. InGrid = 1 .. Len(offsets) /\ Len(offsets) \in Nat \ {0}
    BY <1>1, GridSize DEF IInv, ControlInv
  <2>2. codecs[accessIndexes[k]] = [codec |-> combo.base, words |-> Block(accessIndexes[k])]
    <3>1. k > pos \/ ~dataChange
      BY <1>2, <2>1
    <3>. QED BY <1>5, <3>1 DEF Fresh
  <2>3. CASE ~dataChange
    BY <1>6, <2>2, <2>3
  <2>4. CASE dataChange
    <3>1. k # pos + 1
      BY <1>2, <2>1, <2>4
    <3>2. accessIndexes[k] # b
      BY <1>1, <1>2, <3>1 DEF IInv, ControlInv, Bijection, Injection, IsInjective
    <3>3. accessIndexes[k] \in InGrid
      BY <1>1 DEF IInv, ControlInv, Bijection, Injection
    <3>4. DOMAIN codecs = InGrid
      BY <1>5 DEF GridTyped
    <3> HIDE DEF b
    <3>. QED BY <1>6, <2>2, <2>4, <3>2, <3>3, <3>4
  <2>. QED BY <2>3, <2>4
<1>14. kLinearSumSink' \in Sink' /\ pos' <= Len(offsets)' /\ ~RemapThrows'
       /\ (isDirectAccess' <=> combo'.base.kind = "direct")
  BY <1>1, <1>2, <1>5, <1>6, <1>8, SettledTypes DEF Sink
<1>. QED BY <1>1, <1>9, <1>10, <1>11, <1>12, <1>13, <1>14, Settled DEF TypeInv

\* A step that changes neither the grid nor the buffer nor what is traced.
LEMMA MoveKeepsTypes ==
  ASSUME IInv, TypeInv, UNCHANGED <<samplingVars, combo>>, UNCHANGED accessVars,
         pc' = pc \/ (pc # "sample" /\ pc' \notin {"sample", "access"})
  PROVE  TypeInv'
<1>1. UNCHANGED <<accessIndexes, codecs, pos, isDirectAccess, decbuf, kLinearSumSink, traced>>
  BY DEF accessVars
<1>2. (GridTyped' <=> GridTyped) /\ (BufferTyped' <=> BufferTyped) /\ (Fresh' <=> Fresh)
  BY <1>1, Settled, SettledTypes DEF GridTyped, BufferTyped, Fresh
<1>. QED BY <1>1, <1>2, Settled, SettledTypes DEF TypeInv, None, Sink

LEMMA NextKeepsTypes ==
  ASSUME IInv, TypeInv, [Next]_vars PROVE TypeInv'
<1>1. CASE Throw
  <2>1. UNCHANGED <<samplingVars, combo>> /\ UNCHANGED accessVars /\ pc = "rep" /\ pc' = "throw"
    BY <1>1 DEF Throw
  <2>. QED BY <2>1, MoveKeepsTypes
<1>2. CASE EndRep
  <2>1. UNCHANGED <<samplingVars, combo>> /\ UNCHANGED accessVars /\ pc = "access" /\ pc' = "rep"
    BY <1>2 DEF EndRep
  <2>. QED BY <2>1, MoveKeepsTypes
<1>3. CASE Report
  <2>1. UNCHANGED <<samplingVars, combo>> /\ UNCHANGED accessVars /\ pc = "rep" /\ pc' = "done"
    BY <1>3 DEF Report
  <2>. QED BY <2>1, MoveKeepsTypes
<1>4. CASE Finished \/ UNCHANGED vars
  <2>1. UNCHANGED <<samplingVars, combo>> /\ UNCHANGED accessVars /\ pc' = pc
    BY <1>4 DEF Finished, vars
  <2>. QED BY <2>1, MoveKeepsTypes
<1>. QED BY <1>1, <1>2, <1>3, <1>4, SampleKeepsTypes, BeginKeepsTypes, StartRepKeepsTypes,
            AccessBlockKeepsTypes DEF Next

\* The words and the numbers of the pipeline stay in their types, and what has
\* not been accessed in a repetition is as it was encoded, in every reachable
\* state.
THEOREM TypesKept == Spec => []TypeInv
<1>1. IInv /\ TypeInv /\ [Next]_vars => TypeInv'
  BY NextKeepsTypes
<1>. QED BY <1>1, InitTypes, Invariant, PTL DEF Spec

\* The offsets, the grid, the buffer, the order of the accesses and the sink are
\* what the pipeline takes them for: words of a block for each offset, a buffer
\* that keeps its length, a permutation, a number that fits the sink.
THEOREM TypeCorrect == Spec => []TypeOK
<1>1. IInv /\ TypeInv => TypeOK
  <2> SUFFICES ASSUME IInv, TypeInv PROVE TypeOK
    OBVIOUS
  <2>1. Sampling!TypeOK
    BY DEF IInv, Sampled
  <2>2. /\ pc \in {"sample", "rep", "access", "done", "throw"}
        /\ rep \in Nat /\ pos \in 0 .. Len(offsets)
    <3>1. offsets \in Seq(Points)
      BY DEF IInv, Sampled
    <3>2. Len(offsets) \in Nat
      BY <3>1, LenProperties
    <3>. QED BY <3>2 DEF IInv, ControlInv, TypeInv
  <2>3. ASSUME Running
        PROVE  /\ DOMAIN codecs = InGrid
               /\ \A b \in InGrid : codecs[b].words \in [1 .. n -> Word]
               /\ {accessIndexes[k] : k \in InGrid} = InGrid /\ Len(accessIndexes) = Len(offsets)
               /\ decbuf = None \/ decbuf \in [1 .. n + combo.base.overflow -> Word]
    <3>1. pc # "sample" /\ codecs # None
      BY <2>3 DEF Running
    <3>2. GridTyped /\ (decbuf = None \/ BufferTyped)
      BY <3>1 DEF TypeInv
    <3>3. accessIndexes \in Bijection(InGrid, InGrid) /\ InGrid = 1 .. Len(offsets)
          /\ Len(offsets) \in Nat
      BY <3>1, GridSize DEF IInv, ControlInv
    <3>4. /\ accessIndexes = [k \in 1 .. Len(offsets) |-> accessIndexes[k]]
          /\ {accessIndexes[k] : k \in InGrid} = InGrid
      BY <3>3 DEF Bijection, Injection, Surjection
    <3>5. Len(accessIndexes) = Len(offsets)
      BY <3>3, <3>4, FunctionIsSeq
    <3>. QED BY <3>2, <3>4, <3>5 DEF GridTyped, BufferTyped
  <2>4. traced # None => traced.block \in InGrid /\ traced.sum \in 0 .. WordSize * WordSize - 1
    BY DEF TypeInv, Sink
  <2>. QED BY <2>1, <2>2, <2>3, <2>4 DEF TypeOK
<1>. QED BY <1>1, Invariant, TypesKept, PTL

\* scripts/verify_sums.py "diffs the per-block sums": a TRACE line gives the
\* number of the raster's own words of its block, whatever the ordering, the
\* shuffle, the codec and the repetition, if the transformation has a number on
\* the path and the codec gives it what it reads.
THEOREM TraceTrue == Spec => []TraceIsTrue
<1>1. Init => TraceIsTrue
  BY DEF Init, TraceIsTrue, None
<1>2. ASSUME IInv, TypeInv, TraceIsTrue, [Next]_vars PROVE TraceIsTrue'
  <2>1. CASE AccessBlock
    <3>1. Paired => traced'.sum = TrueNumber(traced'.block)
      BY <1>2, <2>1, AccessBlockKeepsTypes
    <3>2. UNCHANGED <<samplingVars, combo>>
      BY <2>1 DEF AccessBlock
    <3>3. (Paired' <=> Paired) /\ \A b : TrueNumber(b)' = TrueNumber(b)
      BY <3>2, SettledTypes
    <3>. QED BY <3>1, <3>3 DEF TraceIsTrue
  <2>2. CASE Sample
    <3>1. traced' = None
      BY <1>2, <2>2 DEF Sample, accessVars, TypeInv
    <3>. QED BY <3>1 DEF TraceIsTrue, None
  <2>3. ASSUME UNCHANGED <<samplingVars, combo>>, traced' = traced PROVE TraceIsTrue'
    BY <1>2, <2>3, SettledTypes DEF TraceIsTrue, None
  <2>4. CASE Begin \/ StartRep \/ Throw \/ EndRep \/ Report
    <3>1. UNCHANGED <<samplingVars, combo>> /\ traced' = traced
      BY <2>4 DEF Begin, StartRep, Throw, EndRep, Report, accessVars
    <3>. QED BY <2>3, <3>1
  <2>5. CASE Finished \/ UNCHANGED vars
    <3>1. UNCHANGED <<samplingVars, combo>> /\ traced' = traced
      BY <2>5 DEF Finished, vars, accessVars
    <3>. QED BY <2>3, <3>1
  <2>. QED BY <1>2, <2>1, <2>2, <2>4, <2>5 DEF Next
<1>3. IInv /\ TypeInv /\ TraceIsTrue /\ [Next]_vars => TraceIsTrue'
  BY <1>2
<1>. QED BY <1>1, <1>3, Invariant, TypesKept, PTL DEF Spec

============================================================================
