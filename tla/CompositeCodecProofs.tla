------------------------- MODULE CompositeCodecProofs ----------------------
(***************************************************************************)
(* The composite codec for every set of first codecs that overwrite what   *)
(* they find and invert themselves, every set of second codecs, and every  *)
(* set of blocks of every length.                                          *)
(*                                                                         *)
(* Restores is not inductive: DecodeArray finds in the first codec's       *)
(* vector what the calls before it left there.  Kept says what the three   *)
(* places that share an encoding hold between two calls, and Buffer what   *)
(* may be found in the intermediate vector meanwhile.                      *)
(***************************************************************************)
EXTENDS CompositeCodec, SequenceTheorems, TLAPS

Zeros(n) == Resized(<<>>, n)

\* An encoded block is in three places: its words in the second codec, its
\* metadata in the first one, the number of its words in the composite.
Kept ==
  block # None =>
    /\ [data |-> packed, meta |-> first.meta] \in CodesOfFirst(codec.first, block)
    /\ intermediateEncodedSize = Len(packed)

\* The intermediate vector is empty, holds the words of the block that is
\* encoded, or as many zeros.
Buffer == block # None => first.data \in {<<>>, packed, Zeros(Len(packed))}

\* Nothing has been decoded unless a block is encoded.
Reads == out # None => block # None

IInv == TypeOK /\ Kept /\ Buffer /\ Reads /\ Restores

----------------------------------------------------------------------------
\* resize gives a vector the length it is asked for.
LEMMA ResizedLength ==
  ASSUME NEW v \in Seq(Word), NEW n \in Nat
  PROVE  Resized(v, n) \in Seq(Word) /\ Len(Resized(v, n)) = n
<1>1. 0 \in Word
  BY HalfAssumption DEF Word, WordSize
<1>2. Len(v) \in Nat /\ \A k \in 1 .. Len(v) : v[k] \in Word
  OBVIOUS
<1>3. Resized(v, n) \in [1 .. n -> Word]
  BY <1>1, <1>2 DEF Resized
<1>4. QED
  BY <1>3

\* resize to its own length leaves a vector as it is.
LEMMA ResizedSame ==
  ASSUME NEW v \in Seq(Word)
  PROVE  Resized(v, Len(v)) = v
  BY DEF Resized

\* A code of a block are two sequences of words.
LEMMA CodeShape ==
  ASSUME NEW c \in Firsts, NEW b \in Blocks, NEW e \in CodesOfFirst(c, b)
  PROVE  /\ e = [data |-> e.data, meta |-> e.meta]
         /\ e.data \in Seq(Word)
         /\ e.meta \in Seq(Word)
<1>1. e \in [data : Seq(Word), meta : Seq(Word)]
  BY VectorsAssumption
<1>. QED BY <1>1

\* Enlarging and cutting a vector of n words, or of none, gives n words.
LEMMA ThereAndBack ==
  ASSUME NEW v \in Seq(Word), NEW n \in Nat, NEW m \in Nat,
         v = <<>> \/ Len(v) = n
  PROVE  Resized(Resized(v, n + m), n) = Resized(v, n)
<1>1. Len(Resized(v, n + m)) = n + m
  BY ResizedLength
<1>2. \A k \in 1 .. n : k \in 1 .. n + m /\ k <= n + m
  OBVIOUS
<1>3. QED
  BY <1>1, <1>2 DEF Resized

\* The second codec leaves the length of the vector as it is; a fused one its
\* words as well, any other gives back the words that it holds.
LEMMA SecondWrites ==
  ASSUME NEW v \in Seq(Word), packed \in Seq(Word), Len(packed) <= Len(v)
  PROVE  /\ codec.second.fused => FromSecond(v, Len(packed)) = v
         /\ ~codec.second.fused =>
              Resized(FromSecond(v, Len(packed)), Len(packed)) = packed
<1>1. CASE codec.second.fused
  BY <1>1 DEF FromSecond
<1>2. CASE ~codec.second.fused
  <2> DEFINE w == FromSecond(v, Len(packed))
  <2>1. \A k \in 1 .. Len(v) : w[k] = IF k > Len(packed) THEN v[k] ELSE packed[k]
    BY <1>2 DEF FromSecond
  <2>2. w \in [1 .. Len(v) -> Word]
    BY <2>1 DEF FromSecond
  <2>3. Len(w) = Len(v)
    BY <2>2
  <2>4. \A k \in 1 .. Len(packed) : k <= Len(w) /\ w[k] = packed[k]
    BY <2>1, <2>3
  <2>5. Resized(w, Len(packed)) = [k \in 1 .. Len(packed) |-> packed[k]]
    BY <2>4 DEF Resized
  <2>6. QED
    BY <1>2, <2>5
<1>3. QED
  BY <1>1, <1>2

----------------------------------------------------------------------------
\* In a state of the invariant the intermediate vector is a vector of words,
\* empty or exactly as long as the encoded block needs.
LEMMA BufferShape ==
  ASSUME IInv, block # None
  PROVE  /\ packed \in Seq(Word) /\ Len(packed) \in Nat
         /\ intermediateEncodedSize = Len(packed)
         /\ first.data \in Seq(Word)
         /\ first.data = <<>> \/ Len(first.data) = Len(packed)
         /\ Resized(first.data, Len(packed)) \in {packed, Zeros(Len(packed))}
<1>1. packed \in Seq(Word) /\ Len(packed) \in Nat
  <2>1. PICK e \in CodesOfFirst(codec.first, block) : e = [data |-> packed, meta |-> first.meta]
    BY DEF IInv, Kept
  <2>2. codec.first \in Firsts /\ block \in Blocks
    BY DEF IInv, TypeOK
  <2>3. e.data = packed
    BY <2>1
  <2>. QED BY <2>2, <2>3, CodeShape
<1>2. first.data \in {<<>>, packed, Zeros(Len(packed))}
  BY DEF IInv, Buffer
<1>3. CASE first.data = <<>>
  <2>1. Resized(first.data, Len(packed)) = Zeros(Len(packed))
    BY <1>3 DEF Zeros
  <2>. QED BY <1>1, <1>3, <2>1 DEF IInv, Kept
<1>4. CASE first.data = packed
  <2>1. Resized(first.data, Len(packed)) = packed
    BY <1>1, <1>4, ResizedSame
  <2>. QED BY <1>1, <1>4, <2>1 DEF IInv, Kept
<1>5. CASE first.data = Zeros(Len(packed))
  <2>1. Zeros(Len(packed)) \in Seq(Word) /\ Len(Zeros(Len(packed))) = Len(packed)
    BY <1>1, ResizedLength DEF Zeros
  <2>2. Resized(first.data, Len(packed)) = Zeros(Len(packed))
    BY <1>5, <2>1, ResizedSame
  <2>. QED BY <1>1, <1>5, <2>1, <2>2 DEF IInv, Kept
<1>. QED BY <1>2, <1>3, <1>4, <1>5

\* What DecodeArray and BenchDecode hand to the first codec has the length of
\* the encoded words, and DecodeArray's are those words.
LEMMA Intermediate ==
  ASSUME IInv, block # None
  PROVE  LET n == intermediateEncodedSize
         IN  /\ DecodedIntermediate \in {packed, Zeros(Len(packed))}
             /\ ~codec.second.fused => DecodedIntermediate = packed
             /\ Resized(FromSecond(first.data, n), n) \in {packed, Zeros(Len(packed))}
<1> DEFINE n    == intermediateEncodedSize
           o    == codec.second.overflow
           room == Resized(first.data, n + o)
<1>1. n = Len(packed) /\ packed \in Seq(Word) /\ n \in Nat
  BY BufferShape
<1>2. codec.second.fused \in BOOLEAN /\ o \in Nat
  BY SecondsAssumption DEF IInv, TypeOK
<1>3. /\ first.data \in Seq(Word)
      /\ first.data = <<>> \/ Len(first.data) = n
      /\ Resized(first.data, n) \in {packed, Zeros(n)}
  BY <1>1, BufferShape
<1>4. room \in Seq(Word) /\ Len(room) = n + o
  <2>1. n + o \in Nat /\ first.data \in Seq(Word)
    BY <1>1, <1>2, <1>3
  <2> HIDE DEF n, o
  <2>. QED BY <2>1, ResizedLength
<1>5. /\ codec.second.fused => FromSecond(room, n) = room
      /\ ~codec.second.fused => Resized(FromSecond(room, n), n) = packed
  <2>1. Len(packed) <= Len(room)
    BY <1>1, <1>2, <1>4
  <2> HIDE DEF room
  <2>. QED BY <1>1, <1>4, <2>1, SecondWrites
<1>6. Resized(room, n) = Resized(first.data, n)
  BY <1>1, <1>2, <1>3, ThereAndBack
<1>7. DecodedIntermediate = Resized(FromSecond(room, n), n)
  BY DEF DecodedIntermediate
<1>8. DecodedIntermediate \in {packed, Zeros(n)}
      /\ (~codec.second.fused => DecodedIntermediate = packed)
  BY <1>2, <1>3, <1>5, <1>6, <1>7
<1>9. Resized(FromSecond(first.data, n), n) \in {packed, Zeros(n)}
  <2>1. CASE first.data = <<>>
    <3>1. FromSecond(first.data, n) = <<>>
      BY <2>1 DEF FromSecond
    <3>. QED BY <3>1 DEF Zeros
  <2>2. CASE Len(first.data) = n
    <3>1. /\ codec.second.fused => FromSecond(first.data, n) = first.data
          /\ ~codec.second.fused => Resized(FromSecond(first.data, n), n) = packed
      BY <1>1, <1>3, <2>2, SecondWrites
    <3>. QED BY <1>2, <1>3, <3>1
  <2>. QED BY <1>3, <2>1, <2>2
<1>. QED BY <1>1, <1>8, <1>9

\* The first codec's vectors stay among the residues when its data becomes
\* empty, the words of a block or zeros.
LEMMA DataResidue ==
  ASSUME NEW c \in Firsts, NEW s \in Residues(c), NEW b \in Blocks,
         NEW e \in CodesOfFirst(c, b), NEW x, x = e.data \/ x = Zeros(Len(e.data))
  PROVE  /\ [s EXCEPT !.data = x] \in Residues(c)
         /\ [s EXCEPT !.data = x] = [data |-> x, meta |-> s.meta]
  BY DEF Residues, Zeros

\* The same in a state of the invariant, for the block that is encoded.
LEMMA FirstResidue ==
  ASSUME IInv, block # None, NEW x \in {packed, Zeros(Len(packed))}
  PROVE  /\ [first EXCEPT !.data = x] \in Residues(codec.first)
         /\ [first EXCEPT !.data = x] = [data |-> x, meta |-> first.meta]
<1>1. codec.first \in Firsts /\ block \in Blocks /\ first \in Residues(codec.first)
  BY DEF IInv, TypeOK
<1>2. PICK e \in CodesOfFirst(codec.first, block) : e.data = packed
  BY DEF IInv, Kept
<1>3. x = e.data \/ x = Zeros(Len(e.data))
  BY <1>2
<1>. QED BY <1>1, <1>2, <1>3, DataResidue

\* DecodeArray leaves the intermediate array in the first codec, in place of
\* what was there, and reads the block out of it, if the second codec gives
\* its values back.
LEMMA Decoded ==
  ASSUME IInv, DecodeArray
  PROVE  /\ first' \in Residues(codec.first)
         /\ first'.data \in {packed, Zeros(Len(packed))}
         /\ first'.meta = first.meta
         /\ ~codec.second.fused => out' = block
<1>1. codec.first \in Firsts /\ block \in Blocks /\ block # None
  BY DEF DecodeArray, IInv, TypeOK
<1>2. PICK x \in {packed, Zeros(Len(packed))} : /\ first' = [first EXCEPT !.data = x]
                                                /\ ~codec.second.fused => x = packed
  BY <1>1, Intermediate DEF DecodeArray
<1>3. first' \in Residues(codec.first) /\ first' = [data |-> x, meta |-> first.meta]
  BY <1>1, <1>2, FirstResidue
<1>4. ASSUME ~codec.second.fused PROVE out' = block
  <2>1. first' \in CodesOfFirst(codec.first, block)
    BY <1>1, <1>2, <1>3, <1>4 DEF IInv, Kept
  <2>. QED BY <1>1, <2>1, InverseAssumption DEF DecodeArray
<1>. QED BY <1>2, <1>3, <1>4

----------------------------------------------------------------------------
LEMMA Initially == Init => IInv
<1> SUFFICES ASSUME Init PROVE IInv
  OBVIOUS
<1>1. first \in Residues(codec.first)
  BY DEF Init, Residues, Fresh
<1>. QED BY <1>1, BlocksAssumption, CascadesAssumption DEF Init, IInv, TypeOK, Kept, Buffer, Reads, Restores

LEMMA Inductive == IInv /\ [Next]_vars => IInv'
<1> SUFFICES ASSUME IInv, [Next]_vars PROVE IInv'
  OBVIOUS
<1> DEFINE c == codec.first
           n == intermediateEncodedSize
<1>0. /\ c \in Firsts /\ first \in Residues(c)
      /\ codec \in [first : Firsts, second : Seconds]
      /\ codec.second.fused \in BOOLEAN
  BY SecondsAssumption DEF IInv, TypeOK
<1>1. ASSUME NEW b \in Blocks, EncodeArray(b)
      PROVE  IInv'
  <2>1. PICK e \in CodesOfFirst(c, b) : e = PutFirst(c, first, b)
    BY <1>0, OverwriteAssumption
  <2>2. e = [data |-> e.data, meta |-> e.meta]
    BY <1>0, CodeShape
  <2>3. first' = [data |-> <<>>, meta |-> e.meta] /\ first' \in Residues(c)
    BY <1>0, <1>1, <2>1, <2>2 DEF EncodeArray, Residues
  <2>4. /\ packed' = e.data /\ block' = b /\ out' = None /\ codec' = codec
        /\ intermediateEncodedSize' = Len(e.data)
    BY <1>1, <2>1 DEF EncodeArray
  <2>5. TypeOK'
    BY <1>0, <2>3, <2>4 DEF TypeOK
  <2>6. Kept' /\ Buffer' /\ Reads' /\ Restores'
    BY <2>2, <2>3, <2>4 DEF Kept, Buffer, Reads, Restores
  <2>. QED BY <2>5, <2>6 DEF IInv
<1>2. CASE DecodeArray
  <2>1. /\ block \in Blocks /\ block # None
        /\ UNCHANGED <<codec, packed, intermediateEncodedSize, block>>
    BY <1>2 DEF DecodeArray, IInv, TypeOK
  <2>2. /\ first' \in Residues(c)
        /\ first'.data \in {packed, Zeros(Len(packed))}
        /\ first'.meta = first.meta
        /\ ~codec.second.fused => out' = block
    BY <1>2, Decoded
  <2>3. TypeOK'
    BY <1>0, <2>1, <2>2 DEF TypeOK, IInv
  <2>4. Kept' /\ Buffer'
    BY <2>1, <2>2 DEF IInv, Kept, Buffer
  <2>5. Reads' /\ Restores'
    BY <2>1, <2>2 DEF Reads, Restores
  <2>. QED BY <2>3, <2>4, <2>5 DEF IInv
<1>3. CASE BenchDecode
  <2>1. block # None
    BY <1>3 DEF BenchDecode
  <2>2. Resized(FromSecond(first.data, n), n) \in {packed, Zeros(Len(packed))}
    BY <2>1, Intermediate
  <2>3. first' \in Residues(c)
    BY <1>3, <2>1, <2>2, FirstResidue DEF BenchDecode
  <2>. QED BY <1>0, <1>3, <2>3 DEF BenchDecode, IInv, TypeOK, Kept, Buffer, Reads, Restores
<1>4. CASE clear
  <2>1. first' \in Residues(c)
    BY <1>0, <1>4 DEF clear, Residues
  <2>. QED BY <1>0, <1>4, <2>1 DEF clear, IInv, TypeOK, Kept, Buffer, Reads, Restores
<1>5. CASE CloneFresh
  <2>1. first' \in Residues(c)
    BY <1>5 DEF CloneFresh, Residues, Fresh
  <2>. QED BY <1>0, <1>5, <2>1 DEF CloneFresh, IInv, TypeOK, Kept, Buffer, Reads, Restores
<1>6. CASE UNCHANGED vars
  BY <1>6 DEF vars, IInv, TypeOK, Kept, Buffer, Reads, Restores
<1>. QED BY <1>1, <1>2, <1>3, <1>4, <1>5, <1>6 DEF Next

\* The inductive invariant holds in every reachable state.
THEOREM Invariant == Spec => []IInv
  BY Initially, Inductive, PTL DEF Spec

\* Type correctness: what is in the first codec's vectors between two calls is
\* always something an encoder may find there.
THEOREM TypeCorrect == Spec => []TypeOK
<1>1. IInv => TypeOK
  BY DEF IInv
<1>. QED BY Invariant, <1>1, PTL

\* DecodeArray gives the block of the last EncodeArray in every history of an
\* object whose second codec gives its values back.
THEOREM DecodeRestores == Spec => []Restores
<1>1. IInv => Restores
  BY DEF IInv
<1>. QED BY Invariant, <1>1, PTL

----------------------------------------------------------------------------
\* Division rounded up is at least the quotient and less than one above it.
LEMMA RoundedUp ==
  ASSUME NEW a \in Nat, NEW u \in Nat \ {0}, NEW s \in Nat
  PROVE  LET q == s + (a + u - 1) \div u
         IN  q * u >= s * u + a /\ q * u < s * u + a + u
<1> DEFINE x == a + u - 1
           y == x \div u
           r == x % u
<1>1. x \in Nat /\ u \in Nat /\ u > 0
  OBVIOUS
<1>2. y \in Nat /\ r \in Nat /\ r < u /\ x = u * y + r
  <2> HIDE DEF x
  <2>1. QED
    BY <1>1
<1> HIDE DEF y, r
<1>3. (s + y) * u = s * u + u * y
  BY <1>1, <1>2
<1>4. u * y \in Int /\ s * u \in Int
  BY <1>1, <1>2
<1>5. u * y >= a /\ u * y < a + u
  BY <1>1, <1>2, <1>4
<1>6. (s + y) * u >= s * u + a /\ (s + y) * u < s * u + a + u
  BY <1>3, <1>4, <1>5
<1>7. QED
  BY <1>6 DEF y

\* The size reported for a block is that of its physical words and its side
\* metadata, in whole units.
THEOREM SizeCorrect == Spec => []SizeIsHonest
<1>1. IInv => SizeIsHonest
  <2> SUFFICES ASSUME IInv, block # None
               PROVE  \E e \in CodesOfFirst(codec.first, block) :
                        LET unit  == codec.second.unit
                            bytes == StoredUnits(e.data) * unit + 2 * Len(e.meta)
                        IN  /\ e.data = packed
                            /\ EncodedNumValues * unit >= bytes
                            /\ EncodedNumValues * unit < bytes + unit
    BY DEF SizeIsHonest
  <2>0. PICK e \in CodesOfFirst(codec.first, block) : e = [data |-> packed, meta |-> first.meta]
    BY DEF IInv, Kept
  <2> DEFINE s == StoredUnits(e.data)
             a == 2 * Len(e.meta)
             u == codec.second.unit
  <2>1. codec.first \in Firsts /\ block \in Blocks /\ u \in Nat \ {0}
    BY SecondsAssumption DEF IInv, TypeOK
  <2>2. s \in Nat /\ a \in Nat
    BY <2>1, CodeShape, UnitsAssumption
  <2>3. e.data = packed /\ EncodedNumValues = s + (a + u - 1) \div u
    BY <2>0 DEF EncodedNumValues
  <2> HIDE DEF s, a, u
  <2>4. EncodedNumValues * u >= s * u + a /\ EncodedNumValues * u < s * u + a + u
    BY <2>1, <2>2, <2>3, RoundedUp
  <2>. QED BY <2>3, <2>4 DEF s, a, u
<1>. QED BY Invariant, <1>1, PTL

----------------------------------------------------------------------------
\* What the vectors decode to is the encoded block.
LEMMA HeldIsBlock == IInv => Held = block
<1> SUFFICES ASSUME IInv PROVE Held = block
  OBVIOUS
<1>1. CASE block = None
  BY <1>1 DEF Held
<1>2. CASE block # None
  <2>1. codec.first \in Firsts /\ block \in Blocks
    BY <1>2 DEF IInv, TypeOK
  <2>2. [data |-> packed, meta |-> first.meta] \in CodesOfFirst(codec.first, block)
    BY <1>2 DEF IInv, Kept
  <2>3. QED
    BY <1>2, <2>1, <2>2, InverseAssumption DEF Held
<1>3. QED
  BY <1>1, <1>2

\* A composite implements the block store that every codec promises to be, if
\* its second codec is not a fused one.
THEOREM StoreImplemented == Spec => ImplementsStore
<1>1. Init => Store!Init
  BY DEF Init, Store!Init, Held
<1>2. IInv /\ IInv' /\ Held = block /\ (Held = block)' /\ [Next]_vars
        => [~codec.second.fused => Store!Next]_<<Held, out>>
  <2> SUFFICES ASSUME IInv, IInv', Held = block, (Held = block)', [Next]_vars,
                      ~codec.second.fused
               PROVE  [Store!Next]_<<Held, out>>
    OBVIOUS
  <2>1. ASSUME NEW b \in Blocks, EncodeArray(b)
        PROVE  Store!Next
    BY <2>1 DEF EncodeArray, Store!Next, Store!Store
  <2>2. CASE DecodeArray
    <3>1. Held # None /\ Held' = Held
      BY <2>2 DEF DecodeArray
    <3>2. out' = Held
      BY <2>2, Decoded
    <3>3. QED
      BY <3>1, <3>2 DEF Store!Next, Store!Fetch
  <2>3. CASE BenchDecode \/ clear \/ CloneFresh
    BY <2>3 DEF BenchDecode, clear, CloneFresh, Store!Next, Store!Drop
  <2>4. CASE UNCHANGED vars
    BY <2>4 DEF vars
  <2>5. QED
    BY <2>1, <2>2, <2>3, <2>4 DEF Next
<1>3. QED
  BY <1>1, <1>2, Invariant, HeldIsBlock, PTL DEF Spec, ImplementsStore

============================================================================
