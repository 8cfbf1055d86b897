-------------------------- MODULE RasterPreparation ------------------------
(***************************************************************************)
(* What the benchmark programs do to a band before a codec sees it: decide *)
(* whether its nodata value can occur, scan the blocks for their minimum   *)
(* and for the common divisor of the differences from it, then read each   *)
(* sampled block, set nodata to 0, make the words unsigned and normalise.  *)
(* bench_comp scans the whole raster and skips blocks with much nodata;    *)
(* bench_pipeline (and its multithreaded and two-band versions, which have *)
(* the same code) scans the blocks it is going to encode.  One block is    *)
(* one step.                                                               *)
(***************************************************************************)
EXTENDS Integers, FiniteSets, SequencesExt

CONSTANTS ByteSize,       \* 2^8
          HalfWord,       \* 2^15
          HalfLong,       \* 2^31
          DataTypes,      \* data types of the band
          Pixels,         \* the pixels a raster of a data type may have
          RasterBlocks,   \* blocks of a raster
          BlockLength,    \* pixels of a block
          NoDataValues,   \* what the band may declare as its nodata value
          Percentages     \* values of --max-nodata-pct

WordSize == 2 * HalfWord
LongSize == 2 * HalfLong

MaxU8  == ByteSize - 1
MaxU   == WordSize - 1
MaxI16 == HalfWord - 1
MinI16 == -HalfWord
MaxI   == HalfLong - 1
MinI   == -HalfLong

RangeOf(type) ==
  CASE type = "Byte"   -> 0 .. MaxU8
    [] type = "UInt16" -> 0 .. MaxU
    [] type = "Int16"  -> MinI16 .. MaxI16
    [] type = "Int32"  -> MinI .. MaxI

ASSUME SizesAssumption ==
  /\ ByteSize \in Nat \ {0} /\ HalfWord \in Nat \ {0} /\ HalfLong \in Nat \ {0}
  /\ ByteSize <= WordSize /\ WordSize <= HalfLong
ASSUME PixelsAssumption ==
  /\ DataTypes \subseteq {"Byte", "Int16", "UInt16", "Int32"}
  /\ \A type \in DataTypes : Pixels[type] \subseteq RangeOf(type)
ASSUME RasterAssumption == RasterBlocks \in Nat /\ BlockLength \in Nat \ {0}
ASSUME OptionsAssumption == NoDataValues \subseteq Int /\ Percentages \subseteq Nat

\* static_cast to uint16_t and to int32_t; the second one also for a signed
\* addition or negation that overflows, which is what x86 code does.
ToU(n) == n % WordSize
ToI(n) == LET u == n % LongSize IN IF u > MaxI THEN u - LongSize ELSE u

\* static_cast<int32_t>(double): out of range, x86 yields the smallest integer.
FromDouble(raw) == IF raw \in MinI .. MaxI THEN raw ELSE MinI

\* RasterIO converts a pixel to the type that is asked for by clamping it.
ReadAsU16(v) == IF v < 0 THEN 0 ELSE IF v > MaxU THEN MaxU ELSE v

Least(S)      == CHOOSE x \in S : \A y \in S : x <= y
Greatest(S)   == CHOOSE x \in S : \A y \in S : x >= y
Divides(d, n) == n % d = 0
\* std::gcd, which is 0 for two zeros.
Gcd(a, b) ==
  IF a = 0 \/ b = 0 THEN a + b
  ELSE Greatest({d \in 1 .. a : Divides(d, a) /\ Divides(d, b)})

\* g = std::gcd(g, v - m) for one v in S after the other.
GcdOfDifferences(g, m, S) == FoldSet(LAMBDA v, acc : Gcd(acc, v - m), g, S)

VARIABLES program,       \* "bench_comp" or "bench_pipeline"
          dt,            \* the band's data type
          forceInt32, normalize, maxNodataPct,  \* options
          blocks,        \* the raster's pixels, block by block
          sampled,       \* the blocks SampleBlockOffsets selects
          declared,      \* {} or the singleton of the nodata value the band declares
          hasNoData,     \* whether the program goes by it
          smallest,      \* min16, minU16, min or globalMin
          gcdAcc,
          divisor,       \* normGCDU16 or globalGCD
          scanned,       \* blocks done by the current loop
          prepared,      \* the words of each block that was given to the codecs
          skipped,       \* blocks with too much nodata
          pc

input == <<program, dt, forceInt32, normalize, maxNodataPct, blocks, sampled, declared>>
vars  == <<input, hasNoData, smallest, gcdAcc, divisor, scanned, prepared, skipped, pc>>

path == IF program = "bench_comp" /\ dt = "Byte" THEN "uint8"
        ELSE IF dt = "Int32" \/ forceInt32 THEN "int32"
        ELSE "uint16"
signed == path = "uint16" /\ dt = "Int16"

rawNoData == CHOOSE v \in declared : TRUE
nodata16  == IF hasNoData THEN rawNoData ELSE 0
nodataU16 == IF hasNoData THEN ToU(rawNoData) ELSE 0
nodata32  == IF hasNoData THEN FromDouble(rawNoData) ELSE 0
nodata    == IF path = "int32" THEN nodata32 ELSE IF signed THEN nodata16 ELSE nodataU16

typeMax == IF path = "int32" THEN MaxI ELSE IF signed THEN MaxI16 ELSE MaxU

minShift   == IF signed THEN smallest ELSE 0
normMinU16 == IF path = "uint16" /\ ~signed /\ normalize /\ smallest < MaxU THEN smallest ELSE 0

Blocks == 1 .. RasterBlocks
\* What the loops that look for the minimum and the divisor go through.
ToScan == IF program = "bench_comp" THEN Blocks ELSE sampled

\* The loops go through the blocks in order.
NextOf(B) == {b \in B \ scanned : \A c \in B \ scanned : b <= c}

Init ==
  /\ program \in {"bench_comp", "bench_pipeline"}
  /\ dt \in DataTypes
  /\ forceInt32 \in IF program = "bench_pipeline" THEN BOOLEAN ELSE {FALSE}
  /\ normalize \in BOOLEAN
  /\ maxNodataPct \in IF program = "bench_comp" THEN Percentages ELSE {100}
  /\ blocks \in [Blocks -> [1 .. BlockLength -> Pixels[dt]]]
  /\ sampled \in SUBSET Blocks \ {{}}
  /\ declared \in {{}} \cup {{v} : v \in NoDataValues}
  /\ hasNoData = FALSE
  /\ smallest = 0
  /\ gcdAcc = 0
  /\ divisor = 1
  /\ scanned = {}
  /\ prepared = [b \in {} |-> <<>>]
  /\ skipped = {}
  /\ pc = "nodata"

\* "If the nodata value doesn't fit in the raster's data type, it can never
\* occur in the data".  The int32 path takes every value.
CanOccur ==
  /\ declared # {}
  /\ \/ path = "int32"
     \/ path = "uint8" /\ rawNoData \in 0 .. MaxU8
     \/ signed /\ rawNoData \in MinI16 .. MaxI16
     \/ path = "uint16" /\ ~signed /\ rawNoData \in 0 .. MaxU

\* The uint8 path and the unsigned one without normalisation need no minimum.
LooksForMin == path = "int32" \/ signed \/ (path = "uint16" /\ normalize)

ReadNoData ==
  /\ pc = "nodata"
  /\ hasNoData' = CanOccur
  /\ smallest' = typeMax
  /\ pc' = IF LooksForMin THEN "min" ELSE "prepare"
  /\ UNCHANGED <<input, gcdAcc, divisor, scanned, prepared, skipped>>

\* The pixels of a block a scan does not leave out.
Data(b) == {v \in ToSet(blocks[b]) : ~hasNoData \/ v # nodata}

\* (Mutant: the scan does not leave nodata out.)
ScanMinOfAll ==
  /\ pc = "min"
  /\ \E b \in NextOf(ToScan) :
       /\ smallest' = Least({smallest} \cup ToSet(blocks[b]))
       /\ scanned' = scanned \cup {b}
  /\ UNCHANGED <<input, hasNoData, gcdAcc, divisor, prepared, skipped, pc>>

ScanMin ==
  /\ pc = "min"
  /\ \E b \in NextOf(ToScan) :
       /\ smallest' = Least({smallest} \cup Data(b))
       /\ scanned' = scanned \cup {b}
  /\ UNCHANGED <<input, hasNoData, gcdAcc, divisor, prepared, skipped, pc>>

EndMin ==
  /\ pc = "min"
  /\ scanned = ToScan
  /\ pc' = IF normalize /\ smallest < typeMax THEN "gcd" ELSE "prepare"
  /\ scanned' = {}
  /\ UNCHANGED <<input, hasNoData, smallest, gcdAcc, divisor, prepared, skipped>>

ScanGcd ==
  /\ pc = "gcd"
  /\ \E b \in NextOf(ToScan) :
       /\ gcdAcc' = GcdOfDifferences(gcdAcc, smallest, Data(b))
       /\ scanned' = scanned \cup {b}
  /\ UNCHANGED <<input, hasNoData, smallest, divisor, prepared, skipped, pc>>

\* The divisor is narrowed to the type of a word.
Divisor == IF gcdAcc = 0 THEN 1 ELSE IF path = "int32" THEN ToI(gcdAcc) ELSE ToU(gcdAcc)

\* (Mutant: the last block is not scanned.)
EndGcdEarly ==
  /\ pc = "gcd"
  /\ Cardinality(ToScan \ scanned) <= 1
  /\ divisor' = Divisor
  /\ pc' = "prepare"
  /\ scanned' = {}
  /\ UNCHANGED <<input, hasNoData, smallest, gcdAcc, prepared, skipped>>

EndGcd ==
  /\ pc = "gcd"
  /\ scanned = ToScan
  /\ divisor' = Divisor
  /\ pc' = "prepare"
  /\ scanned' = {}
  /\ UNCHANGED <<input, hasNoData, smallest, gcdAcc, prepared, skipped>>

\* Division of integers in C++ rounds towards zero; n is never negative.
Quotient(n, d) == IF d > 0 THEN n \div d ELSE 0 - n \div (0 - d)

IsNodataU16(v) ==
  hasNoData /\ IF minShift < 0 THEN v = nodata16 ELSE ReadAsU16(v) = nodataU16

\* (Mutant: nodata is shifted with the data.)
UnsignedU16WithNodata(v) == IF minShift < 0 THEN ToU(v - minShift) ELSE ReadAsU16(v)

\* A pixel on the uint16 path: read as int16 and shifted if the band has
\* negative data, else read as uint16; 0 is taken for nodata.
UnsignedU16(v) ==
  IF IsNodataU16(v) THEN 0 ELSE IF minShift < 0 THEN ToU(v - minShift) ELSE ReadAsU16(v)

WordU16(v) ==
  LET u == UnsignedU16(v)
  IN  IF normalize /\ u # 0 THEN ToU((u - normMinU16) \div divisor) ELSE u

IsNodata32(v) == hasNoData /\ v = nodata32
\* (Mutant: the shift is computed in wider integers and the sum never wraps.)
Word32Unwrapped(v) ==
  IF IsNodata32(v) THEN 0
  ELSE IF normalize THEN Quotient(v - smallest, divisor)
  ELSE IF smallest < 0 THEN v - smallest
  ELSE v

\* A pixel on the int32 path.
Word32(v) ==
  IF IsNodata32(v) THEN 0
  ELSE IF normalize THEN ToI(Quotient(v - smallest, divisor))
  ELSE IF smallest < 0 THEN ToI(v + ToI(-smallest))
  ELSE v

IsNodata8(v) == hasNoData /\ v = nodataU16
Word8(v)     == IF IsNodata8(v) THEN 0 ELSE v

Word(v)     == IF path = "uint8" THEN Word8(v) ELSE IF path = "uint16" THEN WordU16(v) ELSE Word32(v)
Counted(v)  == IF path = "uint8" THEN IsNodata8(v)
               ELSE IF path = "uint16" THEN IsNodataU16(v) ELSE IsNodata32(v)
nodataCount(b) == Cardinality({i \in 1 .. BlockLength : Counted(blocks[b][i])})

TooMuch(b) == hasNoData /\ nodataCount(b) * 100 > maxNodataPct * BlockLength

\* (Mutant: a block with exactly the tolerated share is skipped, too.)
SkipBlockAtLimit ==
  /\ pc = "prepare"
  /\ \E b \in NextOf(sampled) :
       /\ hasNoData /\ nodataCount(b) * 100 >= maxNodataPct * BlockLength
       /\ skipped' = skipped \cup {b}
       /\ scanned' = scanned \cup {b}
  /\ UNCHANGED <<input, hasNoData, smallest, gcdAcc, divisor, prepared, pc>>

\* The next sampled block is skipped, or its words are given to the codecs.
SkipBlock ==
  /\ pc = "prepare"
  /\ \E b \in NextOf(sampled) :
       /\ TooMuch(b)
       /\ skipped' = skipped \cup {b}
       /\ scanned' = scanned \cup {b}
  /\ UNCHANGED <<input, hasNoData, smallest, gcdAcc, divisor, prepared, pc>>

PrepareBlock ==
  /\ pc = "prepare"
  /\ \E b \in NextOf(sampled) :
       /\ ~TooMuch(b)
       /\ prepared' = [c \in DOMAIN prepared \cup {b} |->
                         IF c = b THEN [i \in 1 .. BlockLength |-> Word(blocks[b][i])]
                         ELSE prepared[c]]
       /\ scanned' = scanned \cup {b}
  /\ UNCHANGED <<input, hasNoData, smallest, gcdAcc, divisor, skipped, pc>>

EndBlocks ==
  /\ pc = "prepare"
  /\ scanned = sampled
  /\ pc' = "done"
  /\ UNCHANGED <<input, hasNoData, smallest, gcdAcc, divisor, scanned, prepared, skipped>>

Finished == pc = "done" /\ UNCHANGED vars

Next ==
  \/ ReadNoData \/ ScanMin \/ EndMin \/ ScanGcd \/ EndGcd
  \/ SkipBlock \/ PrepareBlock \/ EndBlocks \/ Finished

Spec == Init /\ [][Next]_vars

----------------------------------------------------------------------------
\* Words of the codec's type, blocks that are either skipped or prepared.
TypeOK ==
  /\ pc \in {"nodata", "min", "gcd", "prepare", "done"}
  /\ hasNoData \in BOOLEAN /\ gcdAcc \in Nat
  /\ smallest \in MinI .. MaxI \cup 0 .. MaxU
  /\ skipped \cap DOMAIN prepared = {} /\ skipped \cup DOMAIN prepared \subseteq sampled
  /\ \A b \in DOMAIN prepared : \A i \in 1 .. BlockLength :
       prepared[b][i] \in IF path = "int32" THEN MinI .. MaxI ELSE 0 .. MaxU

\* The pixels as the file means them.
Fits      == path # "int32" \/ declared \subseteq MinI .. MaxI
Places(B) == {<<b, i>> : b \in B, i \in 1 .. BlockLength}
Pixel(p)  == blocks[p[1]][p[2]]
IsData(p) == Pixel(p) \notin declared
DataOf(B) == {Pixel(p) : p \in {q \in Places(B) : IsData(q)}}

\* "nodata -> 0 contribution to sum": whichever way a block is read, clamped,
\* shifted and normalised, a nodata pixel reaches the codec as 0.
NodataIsZero ==
  \A p \in Places(DOMAIN prepared) : ~IsData(p) => prepared[p[1]][p[2]] = 0

\* The largest difference of data that the scans saw is one of a signed word.
NoOverflow ==
  path = "int32" /\ DataOf(ToScan) # {} => Greatest(DataOf(ToScan)) - Least(DataOf(ToScan)) <= MaxI

\* Preparation loses nothing: the data of all the blocks together stay in
\* strict order, so no two values are made one by the division by a divisor
\* that was found in other blocks, by the clamping or by the narrowing.
OrderKept ==
  Fits /\ NoOverflow =>
    \A p, q \in {r \in Places(DOMAIN prepared) : IsData(r)} :
       Pixel(p) < Pixel(q) => prepared[p[1]][p[2]] < prepared[q[1]][q[2]]

\* What "subtract global min, divide by global GCD" makes of v.
CommonDivisor(S) ==
  LET m == Least(S)
  IN  IF S = {m} THEN 1
      ELSE Greatest({d \in 1 .. Greatest(S) - m : \A v \in S : Divides(d, v - m)})
IsNormal(p) ==
  LET S == DataOf(ToScan)
  IN  prepared[p[1]][p[2]] = (Pixel(p) - Least(S)) \div CommonDivisor(S)

\* "Normalize blocks: subtract global min, divide by global GCD".
Normalised ==
  normalize /\ path # "uint8" /\ Fits /\ NoOverflow =>
    \A p \in Places(DOMAIN prepared) : IsData(p) => IsNormal(p)

\* It does so for signed bands that have negative data, and for unsigned ones
\* unless all their data are the largest word, which the scan takes for none.
NormalisedOtherwise ==
  /\ normalize /\ path # "uint8" /\ Fits /\ NoOverflow
  /\ ~(signed /\ minShift > 0)
  /\ ~(path = "uint16" /\ ~signed /\ smallest = MaxU)
  => \A p \in Places(DOMAIN prepared) : IsData(p) => IsNormal(p)

TooMuchNodata(b) ==
  Cardinality({i \in 1 .. BlockLength : ~IsData(<<b, i>>)}) * 100 > maxNodataPct * BlockLength

\* "Skip blocks whose nodata pixel % exceeds this": those and no others are left
\* out, unless a signed band without negative data is read as unsigned, so that
\* its negative nodata value is clamped before it is looked for.
SkipsByShareOtherwise ==
  Fits /\ ~(signed /\ minShift >= 0 /\ declared \subseteq MinI16 .. -1) =>
    /\ \A b \in skipped : TooMuchNodata(b)
    /\ \A b \in DOMAIN prepared : ~TooMuchNodata(b)

============================================================================
