----------------------- MODULE RasterPreparationProofs ----------------------
(***************************************************************************)
(* Proofs about RasterPreparation, for every size of word, raster, nodata  *)
(* value and option.  The invariant says what the scans have found: their  *)
(* minimum, and a number whose divisors are the common divisors of the     *)
(* differences from it.  What each property says then follows from what    *)
(* Word makes of a pixel.                                                  *)
(***************************************************************************)
EXTENDS RasterPreparation, Foundations

----------------------------------------------------------------------------
(* Divisors *)

\* d divides its multiples, and nothing else.
LEMMA MultipleOf ==
  ASSUME NEW d \in Nat \ {0}, NEW n \in Int
  PROVE  Divides(d, n) <=> \E k \in Int : n = k * d
<1>1. /\ n \div d \in Int /\ n % d \in 0 .. d - 1
      /\ n = (n \div d) * d + (n % d)
  BY SMT
<1>2. ASSUME NEW k \in Int, n = k * d
      PROVE  n % d = 0
  <2> DEFINE q == n \div d
             r == n % d
  <2>1. q \in Int /\ r \in 0 .. d - 1 /\ k * d = q * d + r
    BY <1>1, <1>2
  <2> HIDE DEF q, r
  <2>2. k * d - q * d = (k - q) * d
    BY <2>1, SMT
  <2>3. CASE k - q >= 1
    <3>1. (k - q) * d >= d
      BY <2>1, <2>3, MulMono, SMT
    <3>. QED BY <2>1, <2>2, <3>1, SMT DEF r
  <2>4. CASE k - q <= -1
    <3>1. (q - k) * d >= d
      BY <2>1, <2>4, MulMono, SMT
    <3>2. (q - k) * d = q * d - k * d
      BY <2>1, SMT
    <3>. QED BY <2>1, <3>1, <3>2, SMT
  <2>5. CASE k = q
    BY <2>1, <2>5, SMT DEF r
  <2>. QED BY <2>1, <2>3, <2>4, <2>5
<1>3. ASSUME n % d = 0
      PROVE  \E k \in Int : n = k * d
  <2>1. n = (n \div d) * d
    BY <1>1, <1>3
  <2>. QED BY <1>1, <2>1
<1>. QED BY <1>2, <1>3 DEF Divides

LEMMA DividesTransitive ==
  ASSUME NEW d \in Nat \ {0}, NEW e \in Nat \ {0}, NEW n \in Int, Divides(d, e), Divides(e, n)
  PROVE  Divides(d, n)
<1>1. PICK k \in Int : e = k * d
  BY MultipleOf
<1>2. PICK l \in Int : n = l * e
  BY MultipleOf
<1>3. n = (l * k) * d /\ l * k \in Int
  BY <1>1, <1>2, SMT
<1>. QED BY <1>3, MultipleOf

LEMMA DividesItself == ASSUME NEW d \in Nat \ {0} PROVE Divides(d, d) /\ Divides(d, 0)
<1>1. d = 1 * d /\ 0 = 0 * d
  BY SMT
<1>. QED BY <1>1, MultipleOf

LEMMA DivisorIsSmaller ==
  ASSUME NEW d \in Nat \ {0}, NEW n \in Nat \ {0}, Divides(d, n)
  PROVE  d <= n
<1>1. PICK k \in Int : n = k * d
  BY MultipleOf
<1>2. k >= 1
  <2> SUFFICES ASSUME k <= 0 PROVE FALSE
    BY <1>1
  <2>1. (0 - k) * d >= 0 /\ (0 - k) * d = 0 - k * d
    BY MulMono, SMT
  <2>. QED BY <1>1, <2>1
<1>3. k * d >= 1 * d /\ 1 * d = d
  BY <1>2, MulMono, SMT
<1>. QED BY <1>1, <1>3

\* The least positive combination of two numbers divides both.
LEMMA Bezout ==
  ASSUME NEW a \in Nat \ {0}, NEW b \in Nat \ {0}
  PROVE  \E m \in Nat \ {0}, x, y \in Int :
           m = a * x + b * y /\ Divides(m, a) /\ Divides(m, b)
<1> DEFINE Combination(n) == \E x, y \in Int : n = a * x + b * y
           L == {n \in Nat \ {0} : Combination(n)}
<1>1. /\ a \in L
      /\ Combination(a) /\ Combination(b)
  <2>1. a = a * 1 + b * 0 /\ b = a * 0 + b * 1
    BY SMT
  <2>. QED BY <2>1
<1>2. PICK m \in L : \A n \in L : m <= n
  <2>1. L \in SUBSET Nat /\ L # {}
    BY <1>1
  <2> HIDE DEF L
  <2>. QED BY <2>1, LeastNatural
<1>3. m \in Nat \ {0} /\ Combination(m)
  OBVIOUS
<1>4. PICK x \in Int, y \in Int : m = a * x + b * y
  BY <1>3
<1>5. ASSUME NEW n \in Nat \ {0}, Combination(n) PROVE Divides(m, n)
  <2> DEFINE q == n \div m
             r == n % m
  <2>1. q \in Int /\ r \in 0 .. m - 1 /\ n = q * m + r
    <3>1. n \in Nat /\ m \in Nat \ {0}
      BY <1>3
    <3>. QED BY ONLY <3>1, Division
  <2>2. PICK v \in Int, w \in Int : n = a * v + b * w
    BY <1>5
  <2> HIDE DEF q, r
  <2>3. r = a * (v - q * x) + b * (w - q * y)
    <3>1. r = (a * v + b * w) - q * (a * x + b * y)
      BY <1>4, <2>1, <2>2
    <3>2. (a * v + b * w) - q * (a * x + b * y) = a * (v - q * x) + b * (w - q * y)
      BY <2>1, SMT
    <3>. QED BY <3>1, <3>2
  <2>4. v - q * x \in Int /\ w - q * y \in Int
    BY <2>1
  <2>5. Combination(r)
    BY <2>3, <2>4
  <2>6. r \notin L
    <3>1. ~(m <= r)
      BY <1>3, <2>1
    <3> HIDE DEF L
    <3>. QED BY <1>2, <3>1
  <2>7. r = 0
    <3>1. r \in Nat
      BY <1>3, <2>1
    <3> HIDE DEF Combination
    <3>. QED BY <2>5, <2>6, <3>1
  <2>. QED BY <2>7 DEF r, Divides
<1>6. Divides(m, a) /\ Divides(m, b)
  BY <1>1, <1>5
<1>. QED BY <1>3, <1>4, <1>6

\* What the greatest of finitely many numbers is.
LEMMA LeastIsLeast ==
  ASSUME NEW S \in SUBSET Int, IsFiniteSet(S), S # {}
  PROVE  Least(S) \in S /\ \A y \in S : Least(S) <= y
BY HasLeast DEF Least

LEMMA GreatestIsGreatest ==
  ASSUME NEW S \in SUBSET Int, IsFiniteSet(S), S # {}
  PROVE  Greatest(S) \in S /\ \A y \in S : Greatest(S) >= y
BY HasLeast DEF Greatest

\* The divisors of the greatest common divisor are the common divisors.
LEMMA GcdDivides ==
  ASSUME NEW a \in Nat, NEW b \in Nat
  PROVE  /\ Gcd(a, b) \in Nat
         /\ \A d \in Nat \ {0} : Divides(d, Gcd(a, b)) <=> Divides(d, a) /\ Divides(d, b)
<1>1. CASE a = 0 \/ b = 0
  <2>1. a = 0 => Gcd(a, b) = b
    BY DEF Gcd
  <2>2. b = 0 => Gcd(a, b) = a
    BY DEF Gcd
  <2>. QED BY <1>1, <2>1, <2>2, DividesItself
<1>2. CASE a # 0 /\ b # 0
  <2> DEFINE C == {d \in 1 .. a : Divides(d, a) /\ Divides(d, b)}
  <2>0. a \in Nat \ {0} /\ b \in Nat \ {0}
    BY <1>2
  <2>1. PICK m \in Nat \ {0}, x \in Int, y \in Int :
          m = a * x + b * y /\ Divides(m, a) /\ Divides(m, b)
    BY <2>0, Bezout
  <2>2. m \in C
    BY <2>0, <2>1, DivisorIsSmaller
  <2>3. ASSUME NEW d \in Nat \ {0}, Divides(d, a), Divides(d, b)
        PROVE  Divides(d, m)
    <3>1. PICK k \in Int : a = k * d
      BY <2>3, MultipleOf
    <3>2. PICK l \in Int : b = l * d
      BY <2>3, MultipleOf
    <3>3. m = (k * x + l * y) * d
      <4>1. m = (k * d) * x + (l * d) * y
        BY <2>1, <3>1, <3>2
      <4>2. (k * d) * x + (l * d) * y = (k * x + l * y) * d
        BY SMT
      <4>. QED BY <4>1, <4>2
    <3>4. k * x + l * y \in Int
      BY SMT
    <3>. QED BY <3>3, <3>4, MultipleOf
  <2>4. \A d \in C : d <= m
    BY <2>1, <2>3, DivisorIsSmaller
  <2>5. Greatest(C) = m
    <3>1. Greatest(C) \in C /\ Greatest(C) >= m
      <4>1. IsFiniteSet(C) /\ C \in SUBSET Int /\ C # {}
        <5>1. IsFiniteSet(1 .. a)
          BY FS_Interval
        <5>2. C \in SUBSET (1 .. a)
          OBVIOUS
        <5>. QED BY <2>2, <5>1, <5>2, FS_Subset
      <4> HIDE DEF C
      <4>. QED BY <2>2, <4>1, GreatestIsGreatest
    <3>. QED BY <2>4, <3>1
  <2>6. Gcd(a, b) = m
    BY <1>2, <2>5 DEF Gcd
  <2>7. \A d \in Nat \ {0} : Divides(d, m) => Divides(d, a) /\ Divides(d, b)
    BY <2>0, <2>1, DividesTransitive
  <2>. QED BY <2>1, <2>3, <2>6, <2>7
<1>. QED BY <1>1, <1>2

\* The fold over the differences, step by step.
GcdStep(g, m, iter, s) == IF s = {} THEN g ELSE Gcd(iter[s \ {Chosen(s)}], Chosen(s) - m)
GcdIter(g, m, S) == CHOOSE iter : iter = [s \in SUBSET S |-> GcdStep(g, m, iter, s)]

LEMMA GcdIsIter ==
  ASSUME NEW g, NEW m, NEW S PROVE GcdOfDifferences(g, m, S) = GcdIter(g, m, S)[S]
BY DEF GcdOfDifferences, FoldSet, MapThenFoldSet, GcdIter, GcdStep, Chosen

LEMMA GcdIterExists ==
  ASSUME NEW g \in Nat, NEW m \in Int, NEW S \in SUBSET Int, IsFiniteSet(S), \A v \in S : v >= m
  PROVE  \A s \in SUBSET S : /\ GcdIter(g, m, S)[s] = GcdStep(g, m, GcdIter(g, m, S), s)
                            /\ GcdIter(g, m, S)[s] \in Nat
<1>0. ASSUME NEW v \in S PROVE v - m \in Nat
  <2>1. v \in Int /\ v >= m
    OBVIOUS
  <2>. QED BY ONLY <2>1, m \in Int
<1> DEFINE next == [p \in S \X Nat |-> Gcd(p[2], p[1] - m)]
<1>1. next \in [S \X Nat -> Nat]
  <2>1. \A p \in S \X Nat : p[2] \in Nat /\ p[1] - m \in Nat
    BY <1>0
  <2>. QED BY <2>1, GcdDivides
<1>2. \A x \in S, n \in Nat : next[<<x, n>>] = Gcd(n, x - m)
  OBVIOUS
<1> HIDE DEF next
<1>3. PICK iter : IsFold(iter, next, g, S, Nat)
  BY <1>1, FoldExists
<1>4. ASSUME NEW s \in SUBSET S PROVE iter[s] = GcdStep(g, m, iter, s)
  <2>1. s # {} => Chosen(s) \in S /\ iter[s \ {Chosen(s)}] \in Nat
    <3>1. s # {} => Chosen(s) \in s
      BY ChosenIsElement
    <3>. QED BY <1>3, <3>1 DEF IsFold
  <2>. QED BY <1>2, <1>3, <2>1 DEF IsFold, GcdStep
<1>5. iter = [s \in SUBSET S |-> GcdStep(g, m, iter, s)]
  BY <1>3, <1>4 DEF IsFold
<1>6. GcdIter(g, m, S) = [s \in SUBSET S |-> GcdStep(g, m, GcdIter(g, m, S), s)]
  BY <1>5 DEF GcdIter
<1> DEFINE it == GcdIter(g, m, S)
<1>7. \A s \in SUBSET S : it[s] = GcdStep(g, m, it, s)
  BY <1>6
<1> HIDE DEF it
<1> DEFINE F == {s \in SUBSET S : it[s] \in Nat}
<1>8. {} \in F
  BY <1>7 DEF GcdStep
<1>9. ASSUME NEW s \in SUBSET S, s # {} PROVE \E x \in s : s \ {x} \in F => s \in F
  <2>1. Chosen(s) \in s /\ Chosen(s) - m \in Nat
    <3>1. Chosen(s) \in s
      BY <1>9, ChosenIsElement
    <3>. QED BY <1>0, <3>1
  <2>2. it[s] = Gcd(it[s \ {Chosen(s)}], Chosen(s) - m)
    BY <1>7, <1>9 DEF GcdStep
  <2>3. it[s \ {Chosen(s)}] \in Nat => it[s] \in Nat
    BY ONLY <2>1, <2>2, GcdDivides
  <2>. QED BY <2>1, <2>3
<1>10. F = SUBSET S
  <2>1. F \in SUBSET SUBSET S
    OBVIOUS
  <2> HIDE DEF F
  <2>. QED BY <1>8, <1>9, <2>1, AllSubsets
<1>. QED BY <1>7, <1>10 DEF it

\* What divides g and the differences from m divides what they are folded to,
\* and nothing else does.
LEMMA GcdFolded ==
  ASSUME NEW g \in Nat, NEW m \in Int, NEW S \in SUBSET Int, IsFiniteSet(S), \A v \in S : v >= m
  PROVE  /\ GcdOfDifferences(g, m, S) \in Nat
         /\ \A d \in Nat \ {0} :
              Divides(d, GcdOfDifferences(g, m, S))
                <=> Divides(d, g) /\ \A v \in S : Divides(d, v - m)
<1>0. ASSUME NEW v \in S PROVE v - m \in Nat
  <2>1. v \in Int /\ v >= m
    OBVIOUS
  <2>. QED BY ONLY <2>1, m \in Int
<1> DEFINE it == GcdIter(g, m, S)
           Good(s) == \A d \in Nat \ {0} :
                        Divides(d, it[s]) <=> Divides(d, g) /\ \A v \in s : Divides(d, v - m)
           F == {s \in SUBSET S : Good(s)}
<1>1. \A s \in SUBSET S : it[s] = GcdStep(g, m, it, s) /\ it[s] \in Nat
  BY GcdIterExists
<1>2. GcdOfDifferences(g, m, S) = it[S]
  BY GcdIsIter
<1> HIDE DEF it
<1>3. {} \in F
  BY <1>1 DEF GcdStep
<1>4. ASSUME NEW s \in SUBSET S, s # {} PROVE \E x \in s : s \ {x} \in F => s \in F
  <2> DEFINE c == Chosen(s)
  <2>1. c \in s /\ c - m \in Nat
    <3>1. c \in s
      BY <1>4, ChosenIsElement
    <3>. QED BY <1>0, <3>1
  <2>2. it[s] = Gcd(it[s \ {c}], c - m) /\ it[s \ {c}] \in Nat
    BY <1>1, <1>4 DEF GcdStep
  <2> HIDE DEF c
  <2>3. ASSUME Good(s \ {c}), NEW d \in Nat \ {0}
        PROVE  Divides(d, it[s]) <=> Divides(d, g) /\ \A v \in s : Divides(d, v - m)
    <3>1. Divides(d, it[s]) <=> Divides(d, it[s \ {c}]) /\ Divides(d, c - m)
      <4> DEFINE n == c - m
                 e == it[s \ {c}]
      <4>1. n \in Nat /\ e \in Nat /\ it[s] = Gcd(e, n)
        BY <2>1, <2>2
      <4> HIDE DEF n, e
      <4>2. Divides(d, Gcd(e, n)) <=> Divides(d, e) /\ Divides(d, n)
        BY <4>1, GcdDivides
      <4>. QED BY <4>1, <4>2 DEF n, e
    <3>2. Divides(d, it[s \ {c}]) <=> Divides(d, g) /\ \A v \in s \ {c} : Divides(d, v - m)
      BY <2>3
    <3>3. \A v \in s : v \in s \ {c} \/ v = c
      OBVIOUS
    <3>. QED BY <2>1, <3>1, <3>2, <3>3
  <2>4. Good(s \ {c}) => Good(s)
    BY <2>3
  <2> HIDE DEF Good
  <2>. QED BY <2>1, <2>4
<1>5. F = SUBSET S
  <2>1. F \in SUBSET SUBSET S
    OBVIOUS
  <2> HIDE DEF F
  <2>. QED BY <1>3, <1>4, <2>1, AllSubsets
<1>6. Good(S)
  BY <1>5
<1>. QED BY <1>1, <1>2, <1>6

----------------------------------------------------------------------------
(* The inductive invariant *)

InputOK ==
  /\ program \in {"bench_comp", "bench_pipeline"} /\ dt \in DataTypes
  /\ forceInt32 \in BOOLEAN /\ normalize \in BOOLEAN
  /\ maxNodataPct \in Nat
  /\ blocks \in [Blocks -> [1 .. BlockLength -> Pixels[dt]]]
  /\ sampled \subseteq Blocks
  /\ declared = {} \/ \E v \in Int : declared = {v}

\* What a scan of the blocks in B takes into account.
Seen(B) == UNION {Data(b) : b \in B}

\* The minimum and the divisor such a scan arrives at.  Every common divisor
\* divides the divisor, which makes it the greatest.
IsMinOf(B) ==
  /\ smallest \in Seen(B) \cup {typeMax}
  /\ \A v \in Seen(B) \cup {typeMax} : smallest <= v
IsGcdOf(B) ==
  /\ gcdAcc \in Nat
  /\ \A d \in Nat \ {0} : Divides(d, gcdAcc) <=> \A v \in Seen(B) : Divides(d, v - smallest)

NonePrepared == prepared = [b \in {} |-> <<>>] /\ skipped = {}
LooksForGcd  == LooksForMin /\ normalize /\ smallest < typeMax

BeforeScans ==
  /\ hasNoData = FALSE /\ smallest = 0 /\ gcdAcc = 0 /\ divisor = 1
  /\ scanned = {} /\ NonePrepared

DuringMin ==
  /\ hasNoData = CanOccur /\ LooksForMin /\ gcdAcc = 0 /\ divisor = 1
  /\ scanned \subseteq ToScan /\ IsMinOf(scanned) /\ NonePrepared

DuringGcd ==
  /\ hasNoData = CanOccur /\ LooksForGcd /\ divisor = 1
  /\ scanned \subseteq ToScan /\ IsMinOf(ToScan) /\ IsGcdOf(scanned) /\ NonePrepared

\* What the preparation of a block goes by, and what it made of those done.
Settled ==
  /\ hasNoData = CanOccur
  /\ IF LooksForMin THEN IsMinOf(ToScan) ELSE smallest = typeMax
  /\ IF LooksForGcd THEN IsGcdOf(ToScan) /\ divisor = Divisor ELSE gcdAcc = 0 /\ divisor = 1

Made ==
  /\ scanned \subseteq sampled
  /\ skipped \cup DOMAIN prepared = scanned /\ skipped \cap DOMAIN prepared = {}
  /\ \A b \in skipped : TooMuch(b)
  /\ \A b \in DOMAIN prepared :
       ~TooMuch(b) /\ prepared[b] = [i \in 1 .. BlockLength |-> Word(blocks[b][i])]

Preparing ==
  /\ InputOK
  /\ \/ pc = "nodata" /\ BeforeScans
     \/ pc = "min" /\ DuringMin
     \/ pc = "gcd" /\ DuringGcd
     \/ pc \in {"prepare", "done"} /\ Settled /\ Made

----------------------------------------------------------------------------
(* Words and pixels *)

LEMMA ModOfNear ==
  ASSUME NEW p \in Nat \ {0}, NEW n \in Int
  PROVE  /\ n % p \in 0 .. p - 1
         /\ n \in 0 .. p - 1 => n % p = n
         /\ n \in -p .. -1 => n % p = n + p
BY SMT

LEMMA Sizes ==
  /\ MaxU8 \in Nat /\ MaxU \in Nat /\ MaxI16 \in Nat /\ MaxI \in Nat
  /\ MinI16 \in Int /\ MinI \in Int /\ MinI16 < 0 /\ MinI < 0
  /\ MaxU8 <= MaxU /\ MaxU <= MaxI /\ MaxI16 <= MaxU /\ MinI <= MinI16
  /\ WordSize \in Nat \ {0} /\ LongSize \in Nat \ {0}
  /\ MaxU = WordSize - 1 /\ MaxU = MaxI16 - MinI16
  /\ MaxI16 = HalfWord - 1 /\ MinI16 = 0 - HalfWord /\ WordSize = 2 * HalfWord
  /\ HalfWord \in Nat \ {0} /\ HalfLong \in Nat \ {0}
  /\ MaxI = HalfLong - 1 /\ MinI = 0 - HalfLong /\ LongSize = 2 * HalfLong
BY SizesAssumption DEF MaxU8, MaxU, MaxI16, MaxI, MinI16, MinI, WordSize, LongSize

LEMMA ToUIs ==
  ASSUME NEW n \in Int
  PROVE  /\ ToU(n) \in 0 .. MaxU
         /\ n \in 0 .. MaxU => ToU(n) = n
         /\ n \in MinI16 .. -1 => ToU(n) = n + WordSize
<1>1. /\ n % WordSize \in 0 .. WordSize - 1
      /\ n \in 0 .. WordSize - 1 => n % WordSize = n
      /\ n \in -WordSize .. -1 => n % WordSize = n + WordSize
  <2>1. WordSize \in Nat \ {0}
    BY Sizes
  <2>. QED BY ONLY n \in Int, <2>1, ModOfNear
<1>2. n \in MinI16 .. -1 => n \in -WordSize .. -1
  BY Sizes
<1>. QED BY <1>1, <1>2, Sizes DEF ToU

LEMMA ToIIs ==
  ASSUME NEW n \in Int
  PROVE  /\ ToI(n) \in MinI .. MaxI
         /\ n \in MinI .. MaxI => ToI(n) = n
         /\ n \in MaxI + 1 .. LongSize - 1 => ToI(n) = n - LongSize
         /\ n \in -LongSize .. MinI - 1 => ToI(n) = n + LongSize
<1> DEFINE u == n % LongSize
<1>1. /\ u \in 0 .. LongSize - 1
      /\ n \in 0 .. LongSize - 1 => u = n
      /\ n \in -LongSize .. -1 => u = n + LongSize
  <2>1. LongSize \in Nat \ {0}
    BY Sizes
  <2>. QED BY ONLY n \in Int, <2>1, ModOfNear
<1>2. ToI(n) = IF u > MaxI THEN u - LongSize ELSE u
  BY DEF ToI
<1> HIDE DEF u
<1>. QED BY <1>1, <1>2, Sizes

LEMMA PathCases ==
  ASSUME InputOK
  PROVE  /\ path \in {"uint8", "uint16", "int32"} /\ signed \in BOOLEAN
         /\ RangeOf(dt) \subseteq MinI .. MaxI
         /\ path = "uint8" => RangeOf(dt) = 0 .. MaxU8 /\ ~signed
         /\ path = "uint16" /\ ~signed => RangeOf(dt) \subseteq 0 .. MaxU
         /\ signed => RangeOf(dt) = MinI16 .. MaxI16 /\ path = "uint16"
         /\ path = "int32" => ~signed
<1>1. dt \in {"Byte", "Int16", "UInt16", "Int32"}
  BY PixelsAssumption DEF InputOK
<1>2. /\ dt = "Byte" => RangeOf(dt) = 0 .. MaxU8
      /\ dt = "UInt16" => RangeOf(dt) = 0 .. MaxU
      /\ dt = "Int16" => RangeOf(dt) = MinI16 .. MaxI16
      /\ dt = "Int32" => RangeOf(dt) = MinI .. MaxI
  BY DEF RangeOf
<1>. QED BY <1>1, <1>2, Sizes DEF path, signed

LEMMA RangeIsInt == ASSUME InputOK PROVE RangeOf(dt) \subseteq Int
BY PathCases

LEMMA PixelsInRange ==
  ASSUME InputOK, NEW b \in Blocks, NEW i \in 1 .. BlockLength
  PROVE  blocks[b][i] \in RangeOf(dt)
<1>1. blocks[b][i] \in Pixels[dt] /\ dt \in DataTypes
  BY DEF InputOK
<1>2. \A type \in DataTypes : Pixels[type] \subseteq RangeOf(type)
  BY PixelsAssumption
<1>3. Pixels[dt] \subseteq RangeOf(dt)
  BY ONLY <1>1, <1>2, Zenon
<1>. QED BY <1>1, <1>3

LEMMA DataInRange ==
  ASSUME InputOK, NEW b \in Blocks
  PROVE  /\ Data(b) \subseteq RangeOf(dt) /\ IsFiniteSet(Data(b))
         /\ Data(b) = {blocks[b][i] : i \in {j \in 1 .. BlockLength :
                                               ~hasNoData \/ blocks[b][j] # nodata}}
<1>1. DOMAIN blocks[b] = 1 .. BlockLength
  BY DEF InputOK
<1>2. ToSet(blocks[b]) = {blocks[b][i] : i \in 1 .. BlockLength}
  BY <1>1 DEF ToSet
<1>3. ToSet(blocks[b]) \subseteq RangeOf(dt)
  BY <1>2, PixelsInRange
<1>4. IsFiniteSet(ToSet(blocks[b]))
  <2> DEFINE f == blocks[b]
  <2>1. IsFiniteSet(1 .. BlockLength)
    BY FS_Interval, RasterAssumption
  <2>2. IsFiniteSet({f[i] : i \in 1 .. BlockLength})
    <3> HIDE DEF f
    <3>. QED BY <2>1, FiniteImage
  <2>. QED BY <1>2, <2>2
<1>. QED BY <1>2, <1>3, <1>4, FS_Subset DEF Data

LEMMA ScanInRange ==
  ASSUME InputOK, NEW B \in SUBSET Blocks
  PROVE  Seen(B) \subseteq RangeOf(dt)
BY DataInRange DEF Seen

LEMMA ScannedBlocks ==
  ASSUME InputOK
  PROVE  ToScan \subseteq Blocks /\ sampled \subseteq ToScan
BY DEF InputOK, ToScan

LEMMA TypeMaxIs ==
  ASSUME InputOK
  PROVE  /\ typeMax \in MinI .. MaxI /\ typeMax \in Nat
         /\ \A v \in RangeOf(dt) : v <= typeMax
         /\ path = "int32" => typeMax = MaxI
         /\ signed => typeMax = MaxI16
         /\ path # "int32" /\ ~signed => typeMax = MaxU
BY PathCases, Sizes DEF typeMax

\* What a scan can find.
LEMMA SmallestIs ==
  ASSUME InputOK, NEW B \in SUBSET Blocks, IsMinOf(B)
  PROVE  /\ smallest \in MinI .. MaxI /\ smallest <= typeMax
         /\ signed => smallest \in MinI16 .. MaxI16
         /\ path = "uint16" /\ ~signed => smallest \in 0 .. MaxU
         /\ \A v \in Seen(B) : v - smallest \in Nat
<1>1. smallest \in Seen(B) \cup {typeMax} /\ \A v \in Seen(B) \cup {typeMax} : smallest <= v
  BY DEF IsMinOf
<1>2. Seen(B) \subseteq RangeOf(dt)
  BY ScanInRange
<1>. QED BY <1>1, <1>2, PathCases, TypeMaxIs, Sizes

----------------------------------------------------------------------------
(* Nodata *)

\* Which pixels a path takes for nodata: those that are, as far as the declared
\* value is one of the path's.
LEMMA NodataKnown ==
  ASSUME InputOK, hasNoData = CanOccur, NEW v \in RangeOf(dt)
  PROVE  /\ path = "uint8" => (IsNodata8(v) <=> v \in declared)
         /\ path = "uint16" /\ ~signed => (hasNoData /\ v = nodataU16 <=> v \in declared)
         /\ signed => (hasNoData /\ v = nodata16 <=> v \in declared)
         /\ signed /\ v >= 0 => (hasNoData /\ v = nodataU16 <=> v \in declared)
         /\ path = "int32" /\ v \in declared => IsNodata32(v)
         /\ path = "int32" /\ Fits => (IsNodata32(v) <=> v \in declared)
<1>0. v \in Int /\ v \in MinI .. MaxI
  BY PathCases
<1>1. CASE declared = {}
  <2>1. hasNoData = FALSE /\ v \notin declared
    BY <1>1 DEF CanOccur
  <2>. QED BY <2>1 DEF IsNodata8, IsNodata32
<1>2. ASSUME NEW x \in Int, declared = {x}
      PROVE  /\ path = "uint8" => (IsNodata8(v) <=> v \in declared)
             /\ path = "uint16" /\ ~signed => (hasNoData /\ v = nodataU16 <=> v \in declared)
             /\ signed => (hasNoData /\ v = nodata16 <=> v \in declared)
             /\ signed /\ v >= 0 => (hasNoData /\ v = nodataU16 <=> v \in declared)
             /\ path = "int32" /\ v \in declared => IsNodata32(v)
             /\ path = "int32" /\ Fits => (IsNodata32(v) <=> v \in declared)
  <2>1. rawNoData = x /\ (v \in declared <=> v = x) /\ declared # {}
    BY <1>2 DEF rawNoData
  <2>2. /\ hasNoData \in BOOLEAN
        /\ hasNoData <=> \/ path = "int32"
                         \/ path = "uint8" /\ x \in 0 .. MaxU8
                         \/ signed /\ x \in MinI16 .. MaxI16
                         \/ path = "uint16" /\ ~signed /\ x \in 0 .. MaxU
    BY <2>1 DEF CanOccur
  <2>3. /\ nodataU16 = IF hasNoData THEN ToU(x) ELSE 0
        /\ nodata16 = IF hasNoData THEN x ELSE 0
        /\ nodata32 = IF hasNoData THEN FromDouble(x) ELSE 0
    BY <2>1 DEF nodataU16, nodata16, nodata32
  <2>4. /\ x \in 0 .. MaxU => ToU(x) = x
        /\ x \in MinI16 .. -1 => ToU(x) = x + WordSize
    BY <1>2, ToUIs
  <2>5. CASE path = "uint8"
    <3>1. v \in 0 .. MaxU8 /\ ~signed
      BY <2>5, PathCases
    <3>2. x \in 0 .. MaxU8 => x \in 0 .. MaxU
      BY Sizes
    <3>. QED BY <2>1, <2>2, <2>3, <2>4, <2>5, <3>1, <3>2 DEF IsNodata8
  <2>6. CASE path = "uint16" /\ ~signed
    <3>1. v \in 0 .. MaxU
      BY <2>6, PathCases
    <3>. QED BY <2>1, <2>2, <2>3, <2>4, <2>6, <3>1
  <2>7. CASE signed
    <3>1. v \in MinI16 .. MaxI16 /\ path = "uint16"
      BY <2>7, PathCases
    <3>2. hasNoData <=> x \in MinI16 .. MaxI16
      BY <2>2, <2>7, <3>1
    <3>3. v = nodata16 /\ hasNoData <=> v = x
      BY <2>3, <3>1, <3>2
    <3>4. ASSUME v >= 0 PROVE hasNoData /\ v = nodataU16 <=> v = x
      <4>1. CASE x \in 0 .. MaxI16
        <5>1. x \in 0 .. MaxU
          BY <1>2, <4>1, Sizes
        <5>. QED BY <2>3, <2>4, <3>2, <4>1, <5>1, Sizes
      <4>2. CASE x \in MinI16 .. -1
        <5>1. ToU(x) > MaxI16 /\ v # x
          BY <1>2, <2>4, <3>4, <4>2, Sizes
        <5>. QED BY <2>3, <3>1, <3>2, <5>1, Sizes, ToUIs
      <4>3. CASE x \notin MinI16 .. MaxI16
        BY <3>1, <3>2, <4>3
      <4>. QED BY <1>2, <4>1, <4>2, <4>3, Sizes
    <3>. QED BY <2>1, <2>7, <3>1, <3>3, <3>4
  <2>8. CASE path = "int32"
    <3>1. ~signed /\ hasNoData
      BY <2>2, <2>8, PathCases
    <3>2. FromDouble(x) = IF x \in MinI .. MaxI THEN x ELSE MinI
      BY DEF FromDouble
    <3>3. Fits => x \in MinI .. MaxI
      BY <1>2, <2>8 DEF Fits
    <3>. QED BY <1>0, <2>1, <2>3, <2>8, <3>1, <3>2, <3>3 DEF IsNodata32
  <2>. QED BY <2>5, <2>6, <2>7, <2>8, PathCases
<1>. QED BY <1>1, <1>2 DEF InputOK

LEMMA ReadIs ==
  ASSUME NEW v \in Int
  PROVE  /\ v \in 0 .. MaxU => ReadAsU16(v) = v
         /\ v < 0 => ReadAsU16(v) = 0
         /\ ReadAsU16(v) \in 0 .. MaxU
BY Sizes DEF ReadAsU16

\* What the scans look at is the data.
LEMMA ScannedIsData ==
  ASSUME InputOK, hasNoData = CanOccur, Fits, NEW v \in RangeOf(dt)
  PROVE  ~hasNoData \/ v # nodata <=> v \notin declared
<1>1. CASE path = "int32"
  BY <1>1, NodataKnown DEF nodata, IsNodata32
<1>2. CASE signed
  BY <1>2, NodataKnown, PathCases DEF nodata
<1>3. CASE path = "uint16" /\ ~signed
  BY <1>3, NodataKnown DEF nodata
<1>4. CASE path = "uint8"
  BY <1>4, NodataKnown, PathCases DEF nodata, IsNodata8
<1>. QED BY <1>1, <1>2, <1>3, <1>4, PathCases

\* What the preparation of a block on the uint16 path takes for nodata.
LEMMA TakenForNodata ==
  ASSUME InputOK, hasNoData = CanOccur, path = "uint16", NEW v \in RangeOf(dt)
  PROVE  /\ ~signed \/ minShift < 0 \/ v >= 0 => (IsNodataU16(v) <=> v \in declared)
         /\ minShift < 0 => signed /\ minShift = smallest
         /\ ~signed => minShift = 0 /\ v \in 0 .. MaxU
         /\ v >= 0 => ReadAsU16(v) = v
<1>1. /\ ~signed => minShift = 0 /\ v \in 0 .. MaxU
      /\ signed => minShift = smallest /\ v \in MinI16 .. MaxI16
  BY PathCases DEF minShift
<1>2. v \in Int /\ (v >= 0 => ReadAsU16(v) = v)
  BY <1>1, ReadIs, Sizes, PathCases
<1>3. CASE ~signed
  BY <1>1, <1>2, <1>3, NodataKnown DEF IsNodataU16
<1>4. CASE signed /\ minShift < 0
  BY <1>1, <1>2, <1>4, NodataKnown DEF IsNodataU16
<1>5. CASE signed /\ ~(minShift < 0)
  BY <1>1, <1>2, <1>5, NodataKnown DEF IsNodataU16
<1>. QED BY <1>1, <1>2, <1>3, <1>4, <1>5, PathCases

----------------------------------------------------------------------------
(* The divisor *)

LEMMA GcdBound ==
  ASSUME InputOK, NEW B \in SUBSET Blocks, IsMinOf(B), IsGcdOf(B)
  PROVE  /\ gcdAcc = 0 => \A v \in Seen(B) : v = smallest
         /\ gcdAcc # 0 => \E v \in Seen(B) : gcdAcc <= v - smallest
<1>1. \A v \in Seen(B) : v \in Int /\ v - smallest \in Nat
  BY SmallestIs, ScanInRange, RangeIsInt
<1>2. gcdAcc \in Nat /\ smallest \in Int
  BY SmallestIs DEF IsGcdOf
<1>3. ASSUME NEW d \in Nat \ {0}
      PROVE  Divides(d, gcdAcc) <=> \A v \in Seen(B) : Divides(d, v - smallest)
  BY DEF IsGcdOf
<1>4. ASSUME gcdAcc = 0, NEW v \in Seen(B), v # smallest PROVE FALSE
  <2> DEFINE n == v - smallest
  <2>1. n \in Nat \ {0}
    BY <1>1, <1>2, <1>4
  <2> HIDE DEF n
  <2>2. n + 1 \in Nat \ {0}
    BY <2>1
  <2>3. Divides(n + 1, gcdAcc)
    BY <1>4, <2>2, DividesItself
  <2>4. Divides(n + 1, n)
    BY <1>3, <2>2, <2>3 DEF n
  <2>5. n + 1 <= n
    BY <2>1, <2>2, <2>4, DivisorIsSmaller
  <2>. QED BY <2>1, <2>5
<1>5. ASSUME gcdAcc # 0 PROVE \E v \in Seen(B) : gcdAcc <= v - smallest
  <2>1. gcdAcc \in Nat \ {0} /\ gcdAcc + 1 \in Nat \ {0}
    BY <1>2, <1>5
  <2>2. PICK v \in Seen(B) : v # smallest
    <3> SUFFICES ASSUME \A v \in Seen(B) : v = smallest PROVE FALSE
      OBVIOUS
    <3>1. \A v \in Seen(B) : v - smallest = 0
      BY <1>2
    <3>2. Divides(gcdAcc + 1, 0)
      BY <2>1, DividesItself
    <3>3. Divides(gcdAcc + 1, gcdAcc)
      BY <1>3, <2>1, <3>1, <3>2
    <3>. QED BY <2>1, <3>3, DivisorIsSmaller
  <2>3. v - smallest \in Nat \ {0}
    BY <1>1, <1>2, <2>2
  <2>4. Divides(gcdAcc, gcdAcc)
    BY <2>1, DividesItself
  <2>5. Divides(gcdAcc, v - smallest)
    BY <1>3, <2>1, <2>4
  <2>. QED BY <2>1, <2>3, <2>5, DivisorIsSmaller
<1>. QED BY <1>4, <1>5

\* The differences are those of signed words.
Narrow == path = "int32" => \A v \in Seen(ToScan) : v - smallest <= MaxI

\* The narrowing of the divisor never makes it 0, and leaves it alone if the
\* differences it divides are narrow.
LEMMA DivisorIs ==
  ASSUME InputOK, Settled
  PROVE  /\ divisor \in Int /\ divisor # 0
         /\ path # "int32" \/ Narrow => divisor \in Nat \ {0}
         /\ (path # "int32" \/ Narrow) /\ LooksForGcd /\ gcdAcc # 0 => divisor = gcdAcc
         /\ gcdAcc = 0 => divisor = 1
<1>1. CASE ~LooksForGcd
  BY <1>1 DEF Settled
<1>2. CASE LooksForGcd
  <2>1. LooksForMin /\ IsMinOf(ToScan) /\ IsGcdOf(ToScan) /\ divisor = Divisor /\ gcdAcc \in Nat
    BY <1>2 DEF Settled, LooksForGcd, IsGcdOf
  <2>2. ToScan \in SUBSET Blocks
    BY ScannedBlocks
  <2>3. CASE gcdAcc = 0
    BY <2>1, <2>3 DEF Divisor
  <2>4. CASE gcdAcc # 0
    <3>1. PICK v \in Seen(ToScan) : gcdAcc <= v - smallest
      BY <2>1, <2>2, <2>4, GcdBound
    <3>2. v \in RangeOf(dt)
      BY <2>2, ScanInRange
    <3>3. /\ smallest \in MinI .. MaxI
          /\ signed => smallest \in MinI16 .. MaxI16
          /\ path = "uint16" /\ ~signed => smallest \in 0 .. MaxU
      BY <2>1, <2>2, SmallestIs
    <3>4. divisor = IF path = "int32" THEN ToI(gcdAcc) ELSE ToU(gcdAcc)
      BY <2>1, <2>4 DEF Divisor
    <3>5. CASE path = "int32"
      <4>1. gcdAcc \in 1 .. LongSize - 1
        BY <2>1, <2>4, <3>1, <3>2, <3>3, PathCases, Sizes
      <4>2. Narrow => gcdAcc \in 1 .. MaxI
        BY <2>1, <2>4, <3>1, <3>2, <3>3, <3>5, PathCases, Sizes DEF Narrow
      <4>3. CASE gcdAcc \in 1 .. MaxI
        BY <3>4, <3>5, <4>3, ToIIs, Sizes
      <4>4. CASE gcdAcc \in MaxI + 1 .. LongSize - 1
        <5>1. ToI(gcdAcc) = gcdAcc - LongSize
          BY <2>1, <4>4, ToIIs
        <5>. QED BY <2>1, <3>4, <3>5, <4>2, <4>4, <5>1, Sizes
      <4>. QED BY <4>1, <4>3, <4>4, Sizes
    <3>6. CASE path = "uint16"
      <4>1. gcdAcc \in 1 .. MaxU
        <5>1. CASE signed
          BY <2>1, <2>4, <3>1, <3>2, <3>3, <5>1, PathCases, Sizes
        <5>2. CASE ~signed
          <6>1. v \in 0 .. MaxU
            BY <3>2, <3>6, <5>2, PathCases
          <6>. QED BY <2>1, <2>4, <3>1, <6>1, <3>3, <3>6, <5>2, Sizes
        <5>. QED BY <5>1, <5>2
      <4>2. ToU(gcdAcc) = gcdAcc
        BY <2>1, <4>1, ToUIs, Sizes
      <4>. QED BY <3>4, <3>6, <4>1, <4>2, Sizes
    <3>7. path # "uint8"
      BY <2>1, PathCases DEF LooksForMin
    <3>. QED BY <2>4, <3>5, <3>6, <3>7, PathCases
  <2>. QED BY <2>3, <2>4
<1>. QED BY <1>1, <1>2

LEMMA QuotientBound ==
  ASSUME NEW n \in Nat, NEW d \in Nat \ {0}
  PROVE  n \div d \in 0 .. n /\ (d = 1 => n \div d = n)
<1>1. n \div d \in Nat /\ n = (n \div d) * d + (n % d) /\ n % d \in 0 .. d - 1
  BY Division
<1>2. (n \div d) * 1 <= (n \div d) * d
  <2> DEFINE q == n \div d
  <2>1. q \in Nat
    BY <1>1
  <2> HIDE DEF q
  <2>2. 1 * q <= d * q /\ 1 * q = q * 1 /\ d * q = q * d
    BY <2>1, MulMono, SMT
  <2>. QED BY <2>2 DEF q
<1>. QED BY <1>1, <1>2

LEMMA QuotientOrdered ==
  ASSUME NEW a \in Nat, NEW b \in Nat, NEW d \in Nat \ {0}, a + d <= b
  PROVE  a \div d < b \div d
<1> DEFINE q == a \div d
           r == b \div d
<1>1. q \in Nat /\ r \in Nat /\ q * d <= a /\ b < r * d + d /\ r * d \in Nat
  <2>1. q \in Nat /\ a = q * d + (a % d) /\ a % d \in 0 .. d - 1
    BY Division
  <2>2. r \in Nat /\ b = r * d + (b % d) /\ b % d \in 0 .. d - 1
    BY Division
  <2>3. q * d \in Nat /\ r * d \in Nat
    BY <2>1, <2>2, Product
  <2> HIDE DEF q, r
  <2>. QED BY <2>1, <2>2, <2>3
<1> HIDE DEF q, r
<1>2. (q + 1) * d < (r + 1) * d /\ (q + 1) * d = q * d + d /\ (r + 1) * d = r * d + d
  <2>1. (q + 1) * d = q * d + d /\ (r + 1) * d = r * d + d /\ q * d \in Nat
    BY <1>1, SMT
  <2>. QED BY <1>1, <2>1
<1>3. q + 1 < r + 1
  BY <1>1, <1>2, MulCancel
<1>. QED BY <1>1, <1>3 DEF q, r

----------------------------------------------------------------------------
(* The words *)

LEMMA SettledMin ==
  ASSUME InputOK, Settled
  PROVE  /\ smallest \in MinI .. MaxI /\ smallest \in Int /\ smallest <= typeMax
         /\ signed => smallest \in MinI16 .. MaxI16
         /\ path = "uint16" /\ ~signed => smallest \in 0 .. MaxU
         /\ hasNoData = CanOccur
<1>1. CASE LooksForMin
  BY <1>1, ScannedBlocks, SmallestIs, PathCases, Sizes DEF Settled
<1>2. CASE ~LooksForMin
  BY <1>2, TypeMaxIs, PathCases, Sizes DEF Settled, LooksForMin
<1>. QED BY <1>1, <1>2

LEMMA NormMinIs ==
  ASSUME InputOK, Settled
  PROVE  /\ normMinU16 \in Nat
         /\ normMinU16 = IF LooksForGcd /\ path = "uint16" /\ ~signed THEN smallest ELSE 0
<1>1. path = "uint16" /\ ~signed => smallest \in 0 .. MaxU /\ typeMax = MaxU
  BY SettledMin, TypeMaxIs
<1>2. path = "uint16" /\ normalize => LooksForMin
  BY DEF LooksForMin
<1>. QED BY <1>1, <1>2, Sizes DEF normMinU16, LooksForGcd

LEMMA UnsignedIs ==
  ASSUME InputOK, Settled, path = "uint16", NEW v \in RangeOf(dt)
  PROVE  /\ UnsignedU16(v) \in 0 .. MaxU
         /\ v \in declared => UnsignedU16(v) = 0
         /\ v \notin declared /\ (signed => v >= smallest)
              => UnsignedU16(v) = IF signed /\ smallest < 0 THEN v - smallest ELSE v
<1>1. v \in Int /\ ReadAsU16(v) \in 0 .. MaxU /\ (v < 0 => ReadAsU16(v) = 0)
  BY PathCases, ReadIs
<1>2. /\ ~signed \/ minShift < 0 \/ v >= 0 => (IsNodataU16(v) <=> v \in declared)
      /\ minShift < 0 => signed
      /\ minShift = IF signed THEN smallest ELSE 0
      /\ ~signed => v \in 0 .. MaxU
      /\ v >= 0 => ReadAsU16(v) = v
  BY SettledMin, TakenForNodata DEF minShift
<1>3. UnsignedU16(v) = IF IsNodataU16(v) THEN 0
                       ELSE IF minShift < 0 THEN ToU(v - minShift) ELSE ReadAsU16(v)
  BY DEF UnsignedU16
<1>4. CASE signed /\ smallest < 0
  <2> DEFINE n == v - smallest
  <2>1. smallest \in MinI16 .. MaxI16 /\ v \in MinI16 .. MaxI16
    BY <1>4, SettledMin, PathCases
  <2>2. n \in Int /\ (v >= smallest => n \in 0 .. MaxU)
    BY <1>1, <2>1, Sizes
  <2> HIDE DEF n
  <2>3. ToU(n) \in 0 .. MaxU /\ (n \in 0 .. MaxU => ToU(n) = n)
    BY <2>2, ToUIs
  <2>4. UnsignedU16(v) = IF v \in declared THEN 0 ELSE ToU(n)
    BY <1>2, <1>3, <1>4 DEF n
  <2>. QED BY <1>4, <2>2, <2>3, <2>4, Sizes DEF n
<1>5. CASE ~(signed /\ smallest < 0)
  <2>1. UnsignedU16(v) = IF IsNodataU16(v) THEN 0 ELSE ReadAsU16(v)
    BY <1>2, <1>3, <1>5
  <2>2. signed => smallest >= 0
    BY <1>5, SettledMin
  <2>3. CASE v >= 0
    BY <1>1, <1>2, <1>5, <2>1, <2>3, Sizes
  <2>4. CASE v < 0
    <3>1. UnsignedU16(v) = 0
      BY <1>1, <2>1, <2>4
    <3>2. signed /\ ~(v >= smallest)
      BY <1>1, <1>2, <2>2, <2>4, SettledMin
    <3>. QED BY <3>1, <3>2, Sizes
  <2>. QED BY <1>1, <2>3, <2>4
<1>. QED BY <1>4, <1>5

LEMMA QuotientIs ==
  ASSUME NEW n \in Int, NEW d \in Int, d # 0
  PROVE  /\ Quotient(n, d) \in Int
         /\ d > 0 => Quotient(n, d) = n \div d
<1>1. CASE d > 0
  BY <1>1 DEF Quotient
<1>2. CASE d < 0
  <2> DEFINE e == 0 - d
  <2>1. e \in Nat \ {0} /\ Quotient(n, d) = 0 - n \div e /\ ~(d > 0)
    BY <1>2 DEF Quotient
  <2> HIDE DEF e
  <2>2. n \div e \in Int
    BY <2>1
  <2>. QED BY <2>1, <2>2
<1>. QED BY <1>1, <1>2

LEMMA WordIs32 ==
  ASSUME InputOK, Settled, path = "int32", NEW v \in RangeOf(dt)
  PROVE  Word(v) \in MinI .. MaxI
<1>1. v \in MinI .. MaxI /\ v \in Int /\ smallest \in Int /\ divisor \in Int /\ divisor # 0
  BY PathCases, SettledMin, DivisorIs
<1>2. v - smallest \in Int /\ -smallest \in Int
  BY <1>1
<1>3. ToI(Quotient(v - smallest, divisor)) \in MinI .. MaxI
  BY <1>1, <1>2, QuotientIs, ToIIs
<1>4. ToI(-smallest) \in Int
  BY <1>2, ToIIs, Sizes
<1>5. ToI(v + ToI(-smallest)) \in MinI .. MaxI
  <2>1. v + ToI(-smallest) \in Int
    BY <1>1, <1>4
  <2>. QED BY <2>1, ToIIs
<1>6. Word(v) = Word32(v)
  BY DEF Word
<1>. QED BY <1>1, <1>3, <1>5, <1>6, Sizes DEF Word32

LEMMA WordIsU16 ==
  ASSUME InputOK, Settled, path = "uint16", NEW v \in RangeOf(dt)
  PROVE  Word(v) \in 0 .. MaxU
<1> DEFINE u == UnsignedU16(v)
           n == u - normMinU16
<1>1. u \in 0 .. MaxU /\ u \in Int
  BY UnsignedIs, Sizes
<1>2. Word(v) = IF normalize /\ u # 0 THEN ToU(n \div divisor) ELSE u
  BY DEF Word, WordU16
<1>3. n \in Int /\ divisor \in Nat \ {0}
  BY <1>1, NormMinIs, DivisorIs
<1> HIDE DEF u, n
<1>4. n \div divisor \in Int
  BY <1>3
<1>. QED BY <1>1, <1>2, <1>4, ToUIs

\* Every word is one of the codec's type.
LEMMA WordType ==
  ASSUME InputOK, Settled, NEW v \in RangeOf(dt)
  PROVE  Word(v) \in IF path = "int32" THEN MinI .. MaxI ELSE 0 .. MaxU
<1>1. CASE path = "uint8"
  <2>1. v \in 0 .. MaxU
    BY <1>1, PathCases, Sizes
  <2>2. Word(v) = 0 \/ Word(v) = v
    BY <1>1 DEF Word, Word8
  <2>. QED BY <1>1, <2>1, <2>2, Sizes
<1>. QED BY <1>1, WordIs32, WordIsU16, PathCases

\* Nodata becomes 0.
LEMMA WordOfNodata ==
  ASSUME InputOK, Settled, NEW v \in RangeOf(dt), v \in declared
  PROVE  Word(v) = 0
<1>1. CASE path = "uint8"
  BY <1>1, NodataKnown, SettledMin DEF Word, Word8
<1>2. CASE path = "uint16"
  BY <1>2, UnsignedIs DEF Word, WordU16
<1>3. CASE path = "int32"
  BY <1>3, NodataKnown, SettledMin DEF Word, Word32
<1>. QED BY <1>1, <1>2, <1>3, PathCases

\* What is subtracted from the data.
Base == IF path = "int32" THEN IF normalize \/ smallest < 0 THEN smallest ELSE 0
        ELSE IF signed THEN IF smallest < 0 THEN smallest ELSE 0
        ELSE normMinU16

\* Data become the quotients of their differences from the base.
LEMMA WordOfData ==
  ASSUME InputOK, Settled, Fits, Narrow, NEW v \in RangeOf(dt), v \notin declared,
         LooksForMin => v \in Seen(ToScan)
  PROVE  /\ v - Base \in Nat /\ divisor \in Nat \ {0}
         /\ Word(v) = (v - Base) \div divisor
<1>1. /\ v \in MinI .. MaxI /\ v \in Int /\ smallest \in Int
      /\ smallest \in MinI .. MaxI /\ divisor \in Nat \ {0}
      /\ hasNoData = CanOccur
  BY PathCases, SettledMin, DivisorIs
<1>2. LooksForMin => v - smallest \in Nat
  BY ScannedBlocks, SmallestIs DEF Settled
<1>3. ~normalize => divisor = 1
  BY DEF Settled, LooksForGcd
<1>4. CASE path = "uint8"
  <2>1. v \in 0 .. MaxU8 /\ ~signed /\ ~IsNodata8(v)
    BY <1>1, <1>4, PathCases, NodataKnown
  <2>2. Word(v) = v
    BY <1>4, <2>1 DEF Word, Word8
  <2>3. ~LooksForMin /\ normMinU16 = 0
    BY <1>4, <2>1, NormMinIs DEF LooksForMin
  <2>4. divisor = 1 /\ Base = 0
    BY <1>4, <2>1, <2>3 DEF Settled, LooksForGcd, Base
  <2>5. v - 0 \in Nat /\ v - 0 = v
    BY <2>1
  <2>. QED BY <1>1, <2>2, <2>4, <2>5, QuotientBound
<1>5. CASE path = "uint16"
  <2> DEFINE u == UnsignedU16(v)
             n == v - Base
  <2>1. signed => LooksForMin /\ v >= smallest
    BY <1>1, <1>2 DEF LooksForMin
  <2>2. u = (IF signed /\ smallest < 0 THEN v - smallest ELSE v) /\ u \in 0 .. MaxU
    BY <1>5, <2>1, UnsignedIs
  <2>3. n = u - normMinU16 /\ n \in Nat /\ n <= MaxU /\ (n # 0 => u # 0)
    <3>1. CASE signed
      BY <1>5, <2>2, <3>1, NormMinIs, Sizes, <1>1 DEF Base
    <3>2. CASE ~signed
      <4>1. u = v /\ Base = normMinU16 /\ v \in Nat /\ v <= MaxU
        BY <1>5, <2>2, <3>2, Sizes DEF Base
      <4>2. v >= normMinU16
        <5>1. LooksForGcd => v >= smallest
          BY <1>1, <1>2 DEF LooksForGcd
        <5>. QED BY <4>1, <5>1, NormMinIs
      <4>. QED BY <1>1, <4>1, <4>2, NormMinIs, Sizes
    <3>. QED BY <3>1, <3>2
  <2>4. Word(v) = IF normalize /\ u # 0 THEN ToU(n \div divisor) ELSE u
    BY <1>5, <2>3 DEF Word, WordU16
  <2>5. ~normalize \/ u = 0 => u = n
    <3>1. ~normalize => normMinU16 = 0
      BY NormMinIs DEF LooksForGcd
    <3>. QED BY <2>2, <2>3, <3>1, Sizes, NormMinIs
  <2> HIDE DEF u, n
  <2>6. n \div divisor \in 0 .. n /\ (divisor = 1 => n \div divisor = n)
    BY <1>1, <2>3, QuotientBound
  <2>7. ToU(n \div divisor) = n \div divisor
    BY <2>3, <2>6, ToUIs, Sizes
  <2>8. Word(v) = n \div divisor
    <3>1. CASE normalize /\ u # 0
      BY <2>4, <2>7, <3>1
    <3>2. CASE ~normalize
      BY <1>3, <2>4, <2>5, <2>6, <3>2
    <3>3. CASE u = 0
      BY <2>4, <2>5, <2>6, <3>3
    <3>. QED BY <3>1, <3>2, <3>3
  <2>. QED BY <1>1, <2>3, <2>8 DEF n
<1>6. CASE path = "int32"
  <2> DEFINE n == v - smallest
  <2>1. LooksForMin /\ n \in 0 .. MaxI /\ ~IsNodata32(v)
    <3>1. LooksForMin
      BY <1>6 DEF LooksForMin
    <3>2. n <= MaxI
      BY <1>6, <3>1 DEF Narrow
    <3>3. ~IsNodata32(v)
      BY <1>1, <1>6, NodataKnown
    <3>. QED BY <1>1, <1>2, <3>1, <3>2, <3>3, Sizes
  <2>2. Word(v) = IF normalize THEN ToI(Quotient(n, divisor))
                  ELSE IF smallest < 0 THEN ToI(v + ToI(-smallest))
                  ELSE v
    BY <1>6, <2>1 DEF Word, Word32
  <2>3. n \in Nat /\ n = v - smallest
    BY <2>1, Sizes
  <2> HIDE DEF n
  <2>4. n \div divisor \in 0 .. n /\ (divisor = 1 => n \div divisor = n)
    BY <1>1, <2>3, QuotientBound
  <2>5. CASE normalize
    <3>1. Quotient(n, divisor) = n \div divisor
      <4>1. n \in Int /\ divisor \in Int /\ divisor # 0 /\ divisor > 0
        BY <1>1, <2>3
      <4>. QED BY ONLY <4>1, QuotientIs
    <3>2. ToI(n \div divisor) = n \div divisor
      BY <2>1, <2>3, <2>4, ToIIs, Sizes
    <3>. QED BY <1>1, <1>6, <2>2, <2>3, <2>5, <3>1, <3>2 DEF Base
  <2>6. CASE ~normalize /\ smallest < 0
    <3>1. Base = smallest /\ divisor = 1
      BY <1>3, <1>6, <2>6 DEF Base
    <3>2. ToI(v + ToI(-smallest)) = n
      <4> DEFINE m == 0 - smallest
      <4>1. m \in 1 .. MaxI + 1 /\ m \in Int /\ -smallest = m
        BY <1>1, <2>6, Sizes
      <4> HIDE DEF m
      <4>2. CASE m \in 1 .. MaxI
        <5>1. ToI(m) = m
          BY <4>1, <4>2, ToIIs, Sizes
        <5>2. v + m = n
          BY <1>1, <2>3 DEF m
        <5>3. ToI(n) = n
          BY <2>1, <2>3, ToIIs, Sizes
        <5>. QED BY <4>1, <5>1, <5>2, <5>3
      <4>3. CASE m = MaxI + 1
        <5>1. m \in MaxI + 1 .. LongSize - 1
          BY <4>1, <4>3, Sizes
        <5>2. ToI(m) = m - LongSize
          BY <4>1, <5>1, ToIIs
        <5>3. v + (m - LongSize) = n - LongSize /\ n - LongSize \in Int
          BY <1>1, <2>3, Sizes DEF m
        <5>4. n - LongSize \in -LongSize .. MinI - 1
          BY <2>1, <5>3, Sizes
        <5>5. ToI(n - LongSize) = (n - LongSize) + LongSize
          BY <5>3, <5>4, ToIIs
        <5>6. (n - LongSize) + LongSize = n
          BY <2>3, Sizes
        <5>. QED BY <4>1, <5>2, <5>3, <5>5, <5>6
      <4>. QED BY <4>1, <4>2, <4>3, Sizes
    <3>. QED BY <1>1, <2>2, <2>3, <2>4, <2>6, <3>1, <3>2
  <2>7. CASE ~normalize /\ ~(smallest < 0)
    <3>1. Base = 0 /\ divisor = 1 /\ Word(v) = v
      BY <1>3, <1>6, <2>2, <2>7 DEF Base
    <3>2. v - 0 \in Nat /\ v - 0 = v
      BY <1>1, <2>3, <2>7
    <3>. QED BY <1>1, <3>1, <3>2, QuotientBound
  <2>. QED BY <2>5, <2>6, <2>7
<1>. QED BY <1>4, <1>5, <1>6, PathCases

----------------------------------------------------------------------------
(* What the properties say, of prepared blocks *)

LEMMA DataAreSeen ==
  ASSUME InputOK, hasNoData = CanOccur, Fits, NEW B \in SUBSET Blocks
  PROVE  DataOf(B) = Seen(B)
<1>1. ASSUME NEW b \in B PROVE Data(b) = {blocks[b][i] : i \in {j \in 1 .. BlockLength :
                                                           blocks[b][j] \notin declared}}
  <2>1. b \in Blocks
    OBVIOUS
  <2>2. ASSUME NEW j \in 1 .. BlockLength
        PROVE  ~hasNoData \/ blocks[b][j] # nodata <=> blocks[b][j] \notin declared
    BY <2>1, PixelsInRange, ScannedIsData
  <2>. QED BY <2>1, <2>2, DataInRange
<1>2. ASSUME NEW v \in DataOf(B) PROVE v \in Seen(B)
  <2>1. PICK b \in B, i \in 1 .. BlockLength : v = blocks[b][i] /\ blocks[b][i] \notin declared
    BY DEF DataOf, Places, Pixel, IsData
  <2>2. v \in Data(b)
    BY <1>1, <2>1
  <2>. QED BY <2>2 DEF Seen
<1>3. ASSUME NEW v \in Seen(B) PROVE v \in DataOf(B)
  <2>1. PICK b \in B : v \in Data(b)
    BY DEF Seen
  <2>2. PICK i \in 1 .. BlockLength : v = blocks[b][i] /\ blocks[b][i] \notin declared
    BY <1>1, <2>1
  <2>3. <<b, i>> \in Places(B) /\ Pixel(<<b, i>>) = v /\ IsData(<<b, i>>)
    BY <2>2 DEF Places, Pixel, IsData
  <2>. QED BY <2>3 DEF DataOf
<1>. QED BY <1>2, <1>3

LEMMA LeastSeen ==
  ASSUME InputOK, Settled, LooksForMin, Seen(ToScan) # {}
  PROVE  /\ Least(Seen(ToScan)) = smallest
         /\ Greatest(Seen(ToScan)) \in Seen(ToScan)
         /\ \A v \in Seen(ToScan) : v <= Greatest(Seen(ToScan)) /\ v >= smallest /\ v \in Int
         /\ smallest \in Int
<1> DEFINE S == Seen(ToScan)
<1>1. S \subseteq RangeOf(dt) /\ RangeOf(dt) \subseteq MinI .. MaxI
  BY ScanInRange, ScannedBlocks, PathCases
<1>2. IsFiniteSet(S) /\ S \in SUBSET Int /\ S # {}
  <2>1. IsFiniteSet(MinI .. MaxI)
    BY FS_Interval, Sizes
  <2>2. S \in SUBSET (MinI .. MaxI) /\ S \in SUBSET Int
    BY <1>1, Sizes
  <2>. QED BY <2>1, <2>2, FS_Subset
<1>3. /\ smallest \in S \cup {typeMax}
      /\ \A v \in S \cup {typeMax} : smallest <= v
  BY DEF Settled, IsMinOf
<1>4. \A v \in S : v <= typeMax
  BY <1>1, TypeMaxIs
<1> HIDE DEF S
<1>5. typeMax \in Int
  BY TypeMaxIs
<1>6. Least(S) \in S /\ \A v \in S : Least(S) <= v
  BY <1>2, LeastIsLeast
<1>7. Least(S) = smallest
  <2>1. smallest \in Int /\ Least(S) \in Int /\ smallest <= Least(S) /\ Least(S) <= typeMax
    BY <1>2, <1>3, <1>4, <1>5, <1>6
  <2>2. CASE smallest \in S
    BY <1>6, <2>1, <2>2
  <2>3. CASE smallest = typeMax
    BY <2>1, <2>3
  <2>. QED BY <1>3, <2>2, <2>3
<1>8. Greatest(S) \in S /\ \A v \in S : Greatest(S) >= v
  BY <1>2, GreatestIsGreatest
<1>9. smallest \in Int
  BY <1>2, <1>6, <1>7
<1>. QED BY <1>2, <1>3, <1>7, <1>8, <1>9 DEF S

LEMMA DifferencesAreNarrow ==
  ASSUME InputOK, Settled, Fits, NoOverflow
  PROVE  Narrow
<1> SUFFICES ASSUME path = "int32", NEW v \in Seen(ToScan) PROVE v - smallest <= MaxI
  BY DEF Narrow
<1>1. LooksForMin /\ hasNoData = CanOccur
  BY DEF LooksForMin, Settled
<1>2. DataOf(ToScan) = Seen(ToScan)
  BY <1>1, ScannedBlocks, DataAreSeen
<1>3. /\ Greatest(Seen(ToScan)) - smallest <= MaxI
  BY <1>1, <1>2, LeastSeen DEF NoOverflow
<1>4. /\ v \in Int /\ smallest \in Int /\ v <= Greatest(Seen(ToScan))
      /\ Greatest(Seen(ToScan)) \in Int
  BY <1>1, LeastSeen
<1>. QED BY <1>3, <1>4, Sizes

\* The divisor is the greatest common one.
LEMMA DivisorIsGreatest ==
  ASSUME InputOK, Settled, Narrow, LooksForMin, normalize, Seen(ToScan) # {}
  PROVE  divisor = CommonDivisor(Seen(ToScan))
<1> DEFINE S == Seen(ToScan)
           C == {d \in 1 .. Greatest(S) - smallest : \A v \in S : Divides(d, v - smallest)}
<1>1. CommonDivisor(S) = IF S = {smallest} THEN 1 ELSE Greatest(C)
  BY LeastSeen DEF CommonDivisor
<1>2. /\ \A v \in S : v <= Greatest(S) /\ v >= smallest /\ v \in Int
      /\ smallest \in Int /\ Greatest(S) \in S /\ S # {}
  BY LeastSeen
<1>3. CASE S = {smallest}
  <2>1. LooksForGcd => gcdAcc = 0
    <3> SUFFICES ASSUME LooksForGcd, gcdAcc # 0 PROVE FALSE
      OBVIOUS
    <3>1. PICK v \in S : gcdAcc <= v - smallest
      BY ScannedBlocks, GcdBound DEF Settled
    <3>2. gcdAcc \in Nat
      BY DEF Settled, IsGcdOf
    <3>. QED BY <1>2, <1>3, <3>1, <3>2
  <2>2. ~LooksForGcd => divisor = 1
    BY DEF Settled
  <2>. QED BY <1>1, <1>3, <2>1, <2>2, DivisorIs
<1>4. CASE S # {smallest}
  <2>1. LooksForGcd
    <3> SUFFICES ASSUME smallest = typeMax PROVE FALSE
      <4>1. smallest <= typeMax /\ smallest \in Int /\ typeMax \in Int
        BY SettledMin, TypeMaxIs
      <4>. QED BY <4>1 DEF LooksForGcd
    <3>1. \A v \in S : v <= typeMax
      BY ScanInRange, ScannedBlocks, TypeMaxIs
    <3>2. \A v \in S : v = smallest
      <4> HIDE DEF S
      <4>. QED BY <1>2, <3>1
    <3> HIDE DEF S
    <3>. QED BY <1>2, <1>4, <3>2
  <2>2. IsGcdOf(ToScan) /\ IsMinOf(ToScan) /\ gcdAcc \in Nat
    BY <2>1 DEF Settled, LooksForGcd, IsGcdOf
  <2>3. gcdAcc # 0
    <3> SUFFICES ASSUME gcdAcc = 0 PROVE FALSE
      OBVIOUS
    <3>1. \A v \in S : v = smallest
      BY <2>2, ScannedBlocks, GcdBound
    <3> HIDE DEF S
    <3>. QED BY <1>2, <1>4, <3>1
  <2>4. divisor = gcdAcc /\ gcdAcc \in Nat \ {0}
    BY <2>1, <2>2, <2>3, DivisorIs
  <2>5. \A d \in Nat \ {0} : Divides(d, gcdAcc) <=> \A v \in S : Divides(d, v - smallest)
    BY <2>2 DEF IsGcdOf
  <2>6. PICK w \in S : gcdAcc <= w - smallest
    BY <2>2, <2>3, ScannedBlocks, GcdBound
  <2> HIDE DEF S
  <2>7. gcdAcc \in C
    <3>1. gcdAcc <= Greatest(S) - smallest /\ Greatest(S) \in Int
      BY <1>2, <2>4, <2>6
    <3>2. \A v \in S : Divides(gcdAcc, v - smallest)
      BY <2>4, <2>5, DividesItself
    <3>. QED BY <1>2, <2>4, <3>1, <3>2
  <2>8. ASSUME NEW d \in C PROVE d <= gcdAcc
    <3>1. d \in Nat \ {0} /\ \A v \in S : Divides(d, v - smallest)
      BY <1>2
    <3>2. Divides(d, gcdAcc)
      BY <2>5, <3>1
    <3>. QED BY <2>4, <3>1, <3>2, DivisorIsSmaller
  <2>9. Greatest(C) \in C /\ Greatest(C) >= gcdAcc
    <3>1. C \in SUBSET Int /\ C # {}
      BY <1>2, <2>7
    <3>2. IsFiniteSet(C)
      <4>1. Greatest(S) - smallest \in Int
        BY <1>2
      <4>2. IsFiniteSet(1 .. Greatest(S) - smallest) /\ C \in SUBSET (1 .. Greatest(S) - smallest)
        BY <4>1, FS_Interval
      <4>. QED BY <4>2, FS_Subset
    <3> HIDE DEF C
    <3>. QED BY <2>7, <3>1, <3>2, GreatestIsGreatest
  <2>10. Greatest(C) = gcdAcc
    <3>1. Greatest(C) \in Int
      BY <1>2, <2>9
    <3> HIDE DEF C
    <3>. QED BY <2>4, <2>8, <2>9, <3>1
  <2>. QED BY <1>1, <1>4, <2>4, <2>10 DEF S
<1>. QED BY <1>3, <1>4

----------------------------------------------------------------------------
(* The properties follow from the invariant *)

\* Blocks are prepared at the end only, from what the scans have settled.
LEMMA Prepared ==
  ASSUME Preparing, NEW b \in DOMAIN prepared
  PROVE  /\ InputOK /\ Settled /\ Made
         /\ b \in Blocks /\ b \in sampled /\ b \in ToScan
         /\ \A i \in 1 .. BlockLength :
              prepared[b][i] = Word(blocks[b][i]) /\ blocks[b][i] \in RangeOf(dt)
<1>1. ~NonePrepared
  BY DEF NonePrepared
<1>2. InputOK /\ Settled /\ Made
  BY <1>1 DEF Preparing, BeforeScans, DuringMin, DuringGcd
<1>3. b \in sampled /\ b \in Blocks /\ b \in ToScan
  BY <1>2, ScannedBlocks DEF Made, InputOK
<1>4. prepared[b] = [i \in 1 .. BlockLength |-> Word(blocks[b][i])]
  BY <1>2 DEF Made
<1>. QED BY <1>2, <1>3, <1>4, PixelsInRange

LEMMA PlaceIs ==
  ASSUME NEW B, NEW p \in Places(B)
  PROVE  \E b \in B, i \in 1 .. BlockLength : p = <<b, i>> /\ p[1] = b /\ p[2] = i
BY DEF Places

LEMMA NodataIsZeroHolds == Preparing => NodataIsZero
<1> SUFFICES ASSUME Preparing, NEW p \in Places(DOMAIN prepared), ~IsData(p)
             PROVE  prepared[p[1]][p[2]] = 0
  BY DEF NodataIsZero
<1>1. PICK b \in DOMAIN prepared, i \in 1 .. BlockLength : p = <<b, i>> /\ p[1] = b /\ p[2] = i
  BY PlaceIs
<1>2. blocks[b][i] \in declared
  BY <1>1 DEF IsData, Pixel
<1>. QED BY <1>1, <1>2, Prepared, WordOfNodata

\* A datum of a prepared block as the scans have seen it, and its word.
LEMMA PreparedDatum ==
  ASSUME Preparing, Fits, NoOverflow, NEW p \in Places(DOMAIN prepared), IsData(p)
  PROVE  /\ Pixel(p) \in Int /\ Pixel(p) - Base \in Nat /\ divisor \in Nat \ {0} /\ Base \in Int
         /\ prepared[p[1]][p[2]] = (Pixel(p) - Base) \div divisor
         /\ LooksForMin => Pixel(p) \in Seen(ToScan)
         /\ InputOK /\ Settled /\ Narrow
         /\ Pixel(p) \in DataOf(ToScan)
<1>1. PICK b \in DOMAIN prepared, i \in 1 .. BlockLength : p = <<b, i>> /\ p[1] = b /\ p[2] = i
  BY PlaceIs
<1>2. /\ InputOK /\ Settled /\ b \in ToScan
      /\ prepared[b][i] = Word(blocks[b][i]) /\ blocks[b][i] \in RangeOf(dt)
  BY Prepared
<1>3. Pixel(p) = blocks[b][i] /\ blocks[b][i] \notin declared
  BY <1>1 DEF IsData, Pixel
<1>4. Narrow /\ ToScan \in SUBSET Blocks /\ hasNoData = CanOccur
  BY <1>2, DifferencesAreNarrow, ScannedBlocks DEF Settled
<1>5. Pixel(p) \in DataOf(ToScan)
  <2>1. p \in Places(ToScan)
    BY <1>1, <1>2 DEF Places
  <2>. QED BY <2>1 DEF DataOf
<1>6. Pixel(p) \in Seen(ToScan)
  BY <1>2, <1>4, <1>5, DataAreSeen
<1>7. blocks[b][i] \in Int
  BY <1>2, RangeIsInt
<1>8. Base \in Int
  <2>1. smallest \in Int /\ normMinU16 \in Nat
    BY <1>2, SettledMin, NormMinIs
  <2>. QED BY <2>1 DEF Base
<1>. QED BY <1>1, <1>2, <1>3, <1>4, <1>5, <1>6, <1>7, <1>8, WordOfData

\* Two different data differ by the divisor at least.
LEMMA OrderKeptHolds == Preparing => OrderKept
<1> SUFFICES ASSUME Preparing, Fits, NoOverflow,
                    NEW p \in Places(DOMAIN prepared), IsData(p),
                    NEW q \in Places(DOMAIN prepared), IsData(q),
                    Pixel(p) < Pixel(q)
             PROVE  prepared[p[1]][p[2]] < prepared[q[1]][q[2]]
  BY DEF OrderKept
<1> DEFINE v == Pixel(p)
           w == Pixel(q)
<1>1. /\ v \in Int /\ v - Base \in Nat /\ w \in Int /\ w - Base \in Nat
      /\ divisor \in Nat \ {0} /\ Base \in Int /\ v < w
      /\ prepared[p[1]][p[2]] = (v - Base) \div divisor
      /\ prepared[q[1]][q[2]] = (w - Base) \div divisor
      /\ InputOK /\ Settled /\ Narrow
      /\ LooksForMin => v \in Seen(ToScan) /\ w \in Seen(ToScan)
  BY PreparedDatum
<1> HIDE DEF v, w
<1>2. v + divisor <= w
  <2>1. CASE divisor = 1
    BY <1>1, <2>1
  <2>2. CASE divisor # 1
    <3>1. LooksForGcd /\ divisor = gcdAcc /\ gcdAcc # 0
      <4>1. LooksForGcd /\ gcdAcc # 0
        BY <1>1, <2>2, DivisorIs DEF Settled
      <4>. QED BY <1>1, <4>1, DivisorIs
    <3>2. LooksForMin /\ IsGcdOf(ToScan) /\ smallest \in Int
      BY <1>1, <3>1, SettledMin DEF Settled, LooksForGcd
    <3>3. Divides(divisor, v - smallest) /\ Divides(divisor, w - smallest)
      <4>1. Divides(divisor, gcdAcc)
        BY <1>1, <3>1, DividesItself
      <4>. QED BY <1>1, <3>1, <3>2, <4>1 DEF IsGcdOf
    <3>4. PICK k \in Int : v - smallest = k * divisor
      <4> DEFINE n == v - smallest
      <4>1. n \in Int /\ divisor \in Nat \ {0} /\ Divides(divisor, n)
        BY <1>1, <3>2, <3>3
      <4> HIDE DEF n
      <4>2. \E j \in Int : n = j * divisor
        BY ONLY <4>1, MultipleOf
      <4>. QED BY <4>2 DEF n
    <3>5. PICK l \in Int : w - smallest = l * divisor
      <4> DEFINE n == w - smallest
      <4>1. n \in Int /\ divisor \in Nat \ {0} /\ Divides(divisor, n)
        BY <1>1, <3>2, <3>3
      <4> HIDE DEF n
      <4>2. \E j \in Int : n = j * divisor
        BY ONLY <4>1, MultipleOf
      <4>. QED BY <4>2 DEF n
    <3>6. (l - k) * divisor = w - v
      <4>1. (l - k) * divisor = l * divisor - k * divisor
        BY <1>1, SMT
      <4>. QED BY <1>1, <3>2, <3>4, <3>5, <4>1
    <3>7. l - k >= 1
      <4> SUFFICES ASSUME l - k <= 0 PROVE FALSE
        OBVIOUS
      <4>1. (k - l) * divisor >= 0 /\ (k - l) * divisor = 0 - (l - k) * divisor
        BY <1>1, MulMono, SMT
      <4>. QED BY <1>1, <3>6, <4>1
    <3>8. (l - k) * divisor >= divisor
      <4>1. 1 * divisor <= (l - k) * divisor /\ 1 * divisor = divisor
        BY <1>1, <3>7, MulMono, SMT
      <4>. QED BY <1>1, <4>1
    <3>. QED BY <1>1, <3>6, <3>8
  <2>. QED BY <2>1, <2>2
<1>3. (v - Base) + divisor <= w - Base
  BY <1>1, <1>2
<1>4. (v - Base) \div divisor < (w - Base) \div divisor
  BY <1>1, <1>3, QuotientOrdered
<1>. QED BY <1>1, <1>4

LEMMA NormalisedOtherwiseHolds == Preparing => NormalisedOtherwise
<1> SUFFICES ASSUME Preparing, normalize, path # "uint8", Fits, NoOverflow,
                    ~(signed /\ minShift > 0),
                    ~(path = "uint16" /\ ~signed /\ smallest = MaxU),
                    NEW p \in Places(DOMAIN prepared), IsData(p)
             PROVE  IsNormal(p)
  BY DEF NormalisedOtherwise
<1>1. /\ prepared[p[1]][p[2]] = (Pixel(p) - Base) \div divisor
      /\ InputOK /\ Settled /\ Narrow /\ Pixel(p) \in DataOf(ToScan)
  BY PreparedDatum
<1>2. LooksForMin
  BY <1>1, PathCases DEF LooksForMin
<1>3. DataOf(ToScan) = Seen(ToScan)
  BY <1>1, ScannedBlocks, DataAreSeen DEF Settled
<1>4. Least(DataOf(ToScan)) = smallest /\ divisor = CommonDivisor(DataOf(ToScan))
  BY <1>1, <1>2, <1>3, LeastSeen, DivisorIsGreatest
<1>5. Base = smallest
  <2>1. CASE path = "int32"
    BY <2>1 DEF Base
  <2>2. CASE signed
    <3>1. path # "int32" /\ minShift = smallest /\ smallest \in Int
      BY <1>1, <2>2, PathCases, SettledMin DEF minShift
    <3>. QED BY <2>2, <3>1 DEF Base
  <2>3. CASE path = "uint16" /\ ~signed
    <3>1. smallest \in 0 .. MaxU /\ typeMax = MaxU
      BY <1>1, <2>3, SettledMin, TypeMaxIs
    <3>2. LooksForGcd
      BY <1>2, <2>3, <3>1, Sizes DEF LooksForGcd
    <3>. QED BY <1>1, <2>3, <3>2, NormMinIs DEF Base
  <2>. QED BY <1>1, <2>1, <2>2, <2>3, PathCases
<1>. QED BY <1>1, <1>4, <1>5 DEF IsNormal

\* Which blocks have too much nodata, the program knows, but for a negative
\* nodata value that is clamped before it is looked for.
LEMMA CountIsRight ==
  ASSUME InputOK, Settled, Fits, ~(signed /\ minShift >= 0 /\ declared \subseteq MinI16 .. -1),
         NEW b \in sampled
  PROVE  TooMuch(b) <=> TooMuchNodata(b)
<1>0. hasNoData = CanOccur /\ b \in Blocks /\ b \in ToScan
  BY ScannedBlocks DEF Settled, InputOK
<1>1. ASSUME NEW i \in 1 .. BlockLength, hasNoData PROVE Counted(blocks[b][i]) <=> ~IsData(<<b, i>>)
  <2> DEFINE v == blocks[b][i]
  <2>1. v \in RangeOf(dt) /\ v \in Int /\ (IsData(<<b, i>>) <=> v \notin declared)
    BY <1>0, PixelsInRange, RangeIsInt DEF IsData, Pixel
  <2>2. v \notin declared /\ LooksForMin => v \in Seen(ToScan)
    <3>1. v \notin declared => v \in DataOf(ToScan)
      <4>1. <<b, i>> \in Places(ToScan) /\ Pixel(<<b, i>>) = v
        BY <1>0 DEF Places, Pixel
      <4>. QED BY <2>1, <4>1 DEF DataOf
    <3>. QED BY <1>0, <3>1, ScannedBlocks, DataAreSeen
  <2> HIDE DEF v
  <2>3. CASE path = "uint8"
    BY <1>0, <2>1, <2>3, NodataKnown DEF Counted, v
  <2>4. CASE path = "int32"
    BY <1>0, <2>1, <2>4, NodataKnown DEF Counted, v
  <2>5. CASE path = "uint16" /\ (~signed \/ minShift < 0 \/ v >= 0)
    BY <1>0, <2>1, <2>5, TakenForNodata DEF Counted, v
  <2>6. CASE path = "uint16" /\ ~(~signed \/ minShift < 0 \/ v >= 0)
    <3>1. signed /\ minShift = smallest /\ smallest >= 0 /\ v < 0 /\ LooksForMin /\ smallest \in Int
      BY <2>1, <2>6, SettledMin, PathCases DEF minShift, LooksForMin
    <3>2. v \in declared
      <4> SUFFICES ASSUME v \notin declared PROVE FALSE
        OBVIOUS
      <4>1. v - smallest \in Nat
        BY <2>2, <3>1, ScannedBlocks, SmallestIs DEF Settled
      <4>. QED BY <2>1, <3>1, <4>1
    <3>3. declared = {v} /\ v \in MinI16 .. -1
      BY <2>1, <3>1, <3>2, PathCases, Sizes DEF InputOK
    <3>. QED BY <3>1, <3>3
  <2>. QED BY <2>3, <2>4, <2>5, <2>6, PathCases
<1>2. CASE hasNoData
  <2>1. {i \in 1 .. BlockLength : Counted(blocks[b][i])} = {i \in 1 .. BlockLength : ~IsData(<<b, i>>)}
    BY <1>1, <1>2
  <2>. QED BY <1>2, <2>1 DEF TooMuch, TooMuchNodata, nodataCount
<1>3. CASE ~hasNoData
  <2>1. \A i \in 1 .. BlockLength : IsData(<<b, i>>)
    <3>1. ASSUME NEW i \in 1 .. BlockLength, blocks[b][i] \in declared PROVE FALSE
      BY <1>0, <1>3, <3>1, PixelsInRange, ScannedIsData
    <3>. QED BY <3>1 DEF IsData, Pixel
  <2>2. {i \in 1 .. BlockLength : ~IsData(<<b, i>>)} = {}
    BY <2>1
  <2>3. maxNodataPct * BlockLength \in Nat
    <3>1. maxNodataPct \in Nat /\ BlockLength \in Nat
      BY RasterAssumption DEF InputOK
    <3>. QED BY ONLY <3>1, Product
  <2>4. ~(0 * 100 > maxNodataPct * BlockLength)
    BY <2>3
  <2>5. ~TooMuchNodata(b)
    BY <2>2, <2>4, FS_EmptySet DEF TooMuchNodata
  <2>. QED BY <1>3, <2>5 DEF TooMuch
<1>. QED BY <1>2, <1>3, <1>0 DEF CanOccur

LEMMA SkipsByShareHolds == Preparing => SkipsByShareOtherwise
<1> SUFFICES ASSUME Preparing, Fits, ~(signed /\ minShift >= 0 /\ declared \subseteq MinI16 .. -1)
             PROVE  /\ \A b \in skipped : TooMuchNodata(b)
                    /\ \A b \in DOMAIN prepared : ~TooMuchNodata(b)
  BY DEF SkipsByShareOtherwise
<1>1. CASE NonePrepared
  BY <1>1 DEF NonePrepared
<1>2. CASE ~NonePrepared
  <2>1. InputOK /\ Settled /\ Made
    BY <1>2 DEF Preparing, BeforeScans, DuringMin, DuringGcd
  <2>2. skipped \cup DOMAIN prepared \subseteq sampled
    BY <2>1 DEF Made
  <2>. QED BY <2>1, <2>2, CountIsRight DEF Made
<1>. QED BY <1>1, <1>2

LEMMA TypeOKHolds == Preparing => TypeOK
<1> SUFFICES ASSUME Preparing PROVE TypeOK
  OBVIOUS
<1>1. CASE NonePrepared /\ (BeforeScans \/ DuringMin \/ DuringGcd)
  <2>1. pc \in {"nodata", "min", "gcd", "prepare", "done"} /\ InputOK
    BY DEF Preparing
  <2>2. hasNoData \in BOOLEAN /\ gcdAcc \in Nat
    <3>1. CanOccur \in BOOLEAN
      BY DEF CanOccur
    <3>2. hasNoData = FALSE \/ hasNoData = CanOccur
      BY <1>1 DEF BeforeScans, DuringMin, DuringGcd
    <3>3. gcdAcc \in Nat
      BY <1>1 DEF BeforeScans, DuringMin, DuringGcd, IsGcdOf
    <3>. QED BY <3>1, <3>2, <3>3
  <2>3. smallest \in MinI .. MaxI
    <3>1. CASE BeforeScans
      BY <3>1, Sizes DEF BeforeScans
    <3>2. CASE DuringMin
      <4>1. scanned \in SUBSET Blocks
        BY <2>1, <3>2, ScannedBlocks DEF DuringMin
      <4>. QED BY <2>1, <3>2, <4>1, SmallestIs DEF DuringMin
    <3>3. CASE DuringGcd
      BY <2>1, <3>3, ScannedBlocks, SmallestIs DEF DuringGcd
    <3>. QED BY <1>1, <3>1, <3>2, <3>3
  <2>. QED BY <1>1, <2>1, <2>2, <2>3 DEF TypeOK, NonePrepared
<1>2. CASE pc \in {"prepare", "done"} /\ Settled /\ Made /\ InputOK
  <2>1. hasNoData \in BOOLEAN /\ gcdAcc \in Nat
    BY <1>2 DEF Settled, IsGcdOf, CanOccur
  <2>2. skipped \cap DOMAIN prepared = {} /\ skipped \cup DOMAIN prepared \subseteq sampled
    BY <1>2 DEF Made
  <2>3. ASSUME NEW b \in DOMAIN prepared, NEW i \in 1 .. BlockLength
        PROVE  prepared[b][i] \in IF path = "int32" THEN MinI .. MaxI ELSE 0 .. MaxU
    BY <1>2, Prepared, WordType
  <2>. QED BY <1>2, <2>1, <2>2, <2>3, SettledMin DEF TypeOK
<1>. QED BY <1>1, <1>2 DEF Preparing, BeforeScans, DuringMin, DuringGcd

----------------------------------------------------------------------------
(* The invariant is inductive *)

LEMMA InitPrepares == Init => Preparing
<1> SUFFICES ASSUME Init PROVE Preparing
  OBVIOUS
<1>1. maxNodataPct \in Nat
  <2>1. maxNodataPct \in Percentages \/ maxNodataPct = 100
    <3>1. maxNodataPct \in IF program = "bench_comp" THEN Percentages ELSE {100}
      BY DEF Init
    <3>. QED BY <3>1
  <2>2. \A n \in Percentages : n \in Nat
    BY OptionsAssumption
  <2>. QED BY <2>1, <2>2
<1>2. declared = {} \/ \E v \in Int : declared = {v}
  <2>1. declared = {} \/ \E v \in NoDataValues : declared = {v}
    BY DEF Init
  <2>. QED BY <2>1, OptionsAssumption
<1>3. forceInt32 \in BOOLEAN /\ sampled \subseteq Blocks
  BY DEF Init
<1>4. InputOK
  BY <1>1, <1>2, <1>3 DEF Init, InputOK
<1>. QED BY <1>4 DEF Init, Preparing, BeforeScans, NonePrepared

\* What the operators over the input read stays while the input does.
LEMMA InputStays ==
  ASSUME UNCHANGED input
  PROVE  /\ InputOK' <=> InputOK
         /\ path' = path /\ (signed' <=> signed) /\ CanOccur' = CanOccur
         /\ (LooksForMin' <=> LooksForMin) /\ ToScan' = ToScan /\ typeMax' = typeMax
         /\ blocks' = blocks /\ sampled' = sampled /\ (normalize' <=> normalize)
         /\ rawNoData' = rawNoData /\ declared' = declared
         /\ program' = program /\ dt' = dt /\ forceInt32' = forceInt32 /\ maxNodataPct' = maxNodataPct
BY DEF input, InputOK, path, signed, CanOccur, LooksForMin, ToScan, typeMax, rawNoData

LEMMA SeenStays ==
  ASSUME UNCHANGED <<input, hasNoData>>
  PROVE  /\ \A b : Data(b)' = Data(b)
         /\ \A B : Seen(B)' = Seen(B)
         /\ nodata' = nodata /\ nodata16' = nodata16 /\ nodataU16' = nodataU16 /\ nodata32' = nodata32
<1>1. /\ path' = path /\ (signed' <=> signed) /\ rawNoData' = rawNoData /\ blocks' = blocks
      /\ hasNoData' = hasNoData
  BY InputStays
<1>2. nodata16' = nodata16 /\ nodataU16' = nodataU16 /\ nodata32' = nodata32
  BY <1>1 DEF nodata16, nodataU16, nodata32
<1>3. nodata' = nodata
  BY <1>1, <1>2 DEF nodata
<1>4. \A b : Data(b)' = Data(b)
  BY <1>1, <1>3 DEF Data
<1>. QED BY <1>2, <1>3, <1>4 DEF Seen

LEMMA ReadNoDataPrepares == Preparing /\ ReadNoData => Preparing'
<1> SUFFICES ASSUME Preparing, ReadNoData PROVE Preparing'
  OBVIOUS
<1>1. InputOK /\ BeforeScans
  BY DEF Preparing, ReadNoData
<1>2. UNCHANGED input /\ UNCHANGED <<gcdAcc, divisor, scanned, prepared, skipped>>
  BY DEF ReadNoData
<1>3. InputOK' /\ hasNoData' = CanOccur' /\ typeMax' = typeMax /\ smallest' = typeMax
  <2>1. hasNoData' = CanOccur /\ smallest' = typeMax
    BY DEF ReadNoData
  <2>. QED BY <1>1, <1>2, <2>1, InputStays
<1>4. gcdAcc' = 0 /\ divisor' = 1 /\ scanned' = {} /\ NonePrepared'
  BY <1>1, <1>2 DEF BeforeScans, NonePrepared
<1>5. CASE LooksForMin
  <2>1. LooksForMin' /\ pc' = "min"
    BY <1>2, <1>5, InputStays DEF ReadNoData
  <2>2. Seen(scanned)' = {}
    BY <1>4 DEF Seen
  <2>3. typeMax' \in Int
    BY <1>1, <1>3, TypeMaxIs
  <2>4. IsMinOf(scanned)'
    BY <1>3, <2>2, <2>3 DEF IsMinOf
  <2>5. DuringMin'
    BY <1>3, <1>4, <2>1, <2>4 DEF DuringMin
  <2>. QED BY <1>3, <2>1, <2>5 DEF Preparing
<1>6. CASE ~LooksForMin
  <2>1. ~LooksForMin' /\ pc' = "prepare"
    BY <1>2, <1>6, InputStays DEF ReadNoData
  <2>2. Settled'
    BY <1>3, <1>4, <2>1 DEF Settled, LooksForGcd
  <2>3. Made'
    BY <1>4 DEF Made, NonePrepared
  <2>. QED BY <1>3, <2>1, <2>2, <2>3 DEF Preparing
<1>. QED BY <1>5, <1>6

LEMMA NextIsOne == ASSUME NEW B, NEW b \in NextOf(B) PROVE b \in B /\ b \notin scanned
BY DEF NextOf

LEMMA ScanMinPrepares == Preparing /\ ScanMin => Preparing'
<1> SUFFICES ASSUME Preparing, ScanMin PROVE Preparing'
  OBVIOUS
<1>1. InputOK /\ DuringMin
  BY DEF Preparing, ScanMin
<1>2. PICK b \in NextOf(ToScan) : /\ smallest' = Least({smallest} \cup Data(b))
                                  /\ scanned' = scanned \cup {b}
  BY DEF ScanMin
<1>3. UNCHANGED <<input, hasNoData>> /\ UNCHANGED <<gcdAcc, divisor, prepared, skipped, pc>>
  BY DEF ScanMin
<1>4. /\ InputOK' /\ CanOccur' = CanOccur /\ LooksForMin' /\ ToScan' = ToScan /\ typeMax' = typeMax
      /\ \A B : Seen(B)' = Seen(B)
  BY <1>1, <1>3, InputStays, SeenStays DEF DuringMin
<1>5. b \in ToScan /\ b \in Blocks /\ scanned \in SUBSET Blocks
  BY <1>1, <1>2, NextIsOne, ScannedBlocks DEF DuringMin
<1>6. /\ smallest \in Seen(scanned) \cup {typeMax}
      /\ \A v \in Seen(scanned) \cup {typeMax} : smallest <= v
      /\ smallest \in Int
  BY <1>1, <1>5, SmallestIs, Sizes DEF DuringMin, IsMinOf
<1>7. Seen(scanned \cup {b}) = Seen(scanned) \cup Data(b)
  BY DEF Seen
<1>8. smallest' \in {smallest} \cup Data(b) /\ \A v \in {smallest} \cup Data(b) : smallest' <= v
  <2>1. Data(b) \in SUBSET Int /\ IsFiniteSet(Data(b))
    BY <1>1, <1>5, DataInRange, RangeIsInt
  <2>2. IsFiniteSet({smallest} \cup Data(b)) /\ {smallest} \cup Data(b) \in SUBSET Int
    BY <1>6, <2>1, FS_AddElement
  <2>. QED BY <1>2, <2>2, LeastIsLeast
<1>9. Seen(scanned) \cup {typeMax} \subseteq Int /\ smallest' \in Int
  <2>1. Seen(scanned) \subseteq Int /\ Data(b) \subseteq Int
    BY <1>1, <1>5, ScanInRange, DataInRange, RangeIsInt
  <2>2. typeMax \in Int
    BY <1>1, TypeMaxIs
  <2>. QED BY <1>6, <1>8, <2>1, <2>2
<1>10. /\ smallest' \in Seen(scanned \cup {b}) \cup {typeMax}
       /\ \A v \in Seen(scanned \cup {b}) \cup {typeMax} : smallest' <= v
  <2>1. \A v \in Seen(scanned) \cup {typeMax} : smallest' <= v
    <3>1. smallest' <= smallest
      BY <1>8
    <3>. QED BY <1>6, <1>9, <3>1
  <2>. QED BY <1>6, <1>7, <1>8, <2>1
<1>11. IsMinOf(scanned)'
  <2>1. Seen(scanned)' = Seen(scanned \cup {b})
    BY <1>2, <1>4 DEF Seen
  <2>. QED BY <1>4, <1>10, <2>1 DEF IsMinOf
<1>12. DuringMin'
  <2>1. hasNoData' = CanOccur' /\ gcdAcc' = 0 /\ divisor' = 1 /\ NonePrepared'
    BY <1>1, <1>3, <1>4 DEF DuringMin, NonePrepared
  <2>2. scanned' \subseteq ToScan'
    BY <1>1, <1>2, <1>4, <1>5 DEF DuringMin
  <2>. QED BY <1>4, <1>11, <2>1, <2>2 DEF DuringMin
<1>. QED BY <1>3, <1>4, <1>12 DEF Preparing, ScanMin

LEMMA EndMinPrepares == Preparing /\ EndMin => Preparing'
<1> SUFFICES ASSUME Preparing, EndMin PROVE Preparing'
  OBVIOUS
<1>1. InputOK /\ DuringMin /\ scanned = ToScan
  BY DEF Preparing, EndMin
<1>2. UNCHANGED <<input, hasNoData>> /\ UNCHANGED <<smallest, gcdAcc, divisor, prepared, skipped>>
  BY DEF EndMin
<1>3. /\ InputOK' /\ CanOccur' = CanOccur /\ LooksForMin' /\ ToScan' = ToScan /\ typeMax' = typeMax
      /\ (normalize' <=> normalize) /\ \A B : Seen(B)' = Seen(B)
  BY <1>1, <1>2, InputStays, SeenStays DEF DuringMin
<1>4. IsMinOf(ToScan)'
  <2>1. IsMinOf(ToScan) /\ Seen(ToScan)' = Seen(ToScan)
    BY <1>1, <1>3 DEF DuringMin, Seen
  <2>. QED BY <1>2, <1>3, <2>1 DEF IsMinOf
<1>5. /\ hasNoData' = CanOccur' /\ gcdAcc' = 0 /\ divisor' = 1 /\ NonePrepared' /\ scanned' = {}
  BY <1>1, <1>2, <1>3 DEF DuringMin, NonePrepared, EndMin
<1>6. LooksForGcd' <=> normalize /\ smallest < typeMax
  BY <1>2, <1>3 DEF LooksForGcd
<1>7. CASE normalize /\ smallest < typeMax
  <2>1. pc' = "gcd"
    BY <1>7 DEF EndMin
  <2>2. Seen(scanned)' = {}
    BY <1>5 DEF Seen
  <2>3. IsGcdOf(scanned)'
    BY <1>5, <2>2, DividesItself DEF IsGcdOf
  <2>4. DuringGcd'
    BY <1>4, <1>5, <1>6, <1>7, <2>3 DEF DuringGcd
  <2>. QED BY <1>3, <2>1, <2>4 DEF Preparing
<1>8. CASE ~(normalize /\ smallest < typeMax)
  <2>1. pc' = "prepare"
    BY <1>8 DEF EndMin
  <2>2. Settled'
    BY <1>3, <1>4, <1>5, <1>6, <1>8 DEF Settled
  <2>3. Made'
    BY <1>5 DEF Made, NonePrepared
  <2>. QED BY <1>3, <2>1, <2>2, <2>3 DEF Preparing
<1>. QED BY <1>7, <1>8

LEMMA ScanGcdPrepares == Preparing /\ ScanGcd => Preparing'
<1> SUFFICES ASSUME Preparing, ScanGcd PROVE Preparing'
  OBVIOUS
<1>1. InputOK /\ DuringGcd
  BY DEF Preparing, ScanGcd
<1>2. PICK b \in NextOf(ToScan) : /\ gcdAcc' = GcdOfDifferences(gcdAcc, smallest, Data(b))
                                  /\ scanned' = scanned \cup {b}
  BY DEF ScanGcd
<1>3. UNCHANGED <<input, hasNoData>> /\ UNCHANGED <<smallest, divisor, prepared, skipped, pc>>
  BY DEF ScanGcd
<1>4. /\ InputOK' /\ CanOccur' = CanOccur /\ LooksForMin' /\ ToScan' = ToScan /\ typeMax' = typeMax
      /\ (normalize' <=> normalize) /\ \A B : Seen(B)' = Seen(B)
  BY <1>1, <1>3, InputStays, SeenStays DEF DuringGcd, LooksForGcd
<1>5. b \in ToScan /\ b \in Blocks /\ ToScan \in SUBSET Blocks
  BY <1>1, <1>2, NextIsOne, ScannedBlocks
<1>6. /\ Data(b) \in SUBSET Int /\ IsFiniteSet(Data(b)) /\ smallest \in Int
      /\ \A v \in Data(b) : v >= smallest
  <2>1. Data(b) \in SUBSET Int /\ IsFiniteSet(Data(b)) /\ Data(b) \subseteq Seen(ToScan)
    BY <1>1, <1>5, DataInRange, RangeIsInt DEF Seen
  <2>2. smallest \in Int /\ \A v \in Seen(ToScan) : v - smallest \in Nat
    BY <1>1, <1>5, SmallestIs, Sizes DEF DuringGcd
  <2>. QED BY <2>1, <2>2
<1>7. gcdAcc \in Nat /\ \A d \in Nat \ {0} :
        Divides(d, gcdAcc) <=> \A v \in Seen(scanned) : Divides(d, v - smallest)
  BY <1>1 DEF DuringGcd, IsGcdOf
<1>8. /\ gcdAcc' \in Nat
      /\ \A d \in Nat \ {0} :
           Divides(d, gcdAcc') <=> Divides(d, gcdAcc) /\ \A v \in Data(b) : Divides(d, v - smallest)
  <2>1. /\ GcdOfDifferences(gcdAcc, smallest, Data(b)) \in Nat
        /\ \A d \in Nat \ {0} :
             Divides(d, GcdOfDifferences(gcdAcc, smallest, Data(b)))
               <=> Divides(d, gcdAcc) /\ \A v \in Data(b) : Divides(d, v - smallest)
    BY ONLY <1>6, <1>7, GcdFolded
  <2>. QED BY ONLY <1>2, <2>1
<1>9. Seen(scanned)' = Seen(scanned) \cup Data(b)
  <2>1. Seen(scanned)' = Seen(scanned \cup {b})
    BY <1>2, <1>4 DEF Seen
  <2>. QED BY <2>1 DEF Seen
<1>10. IsGcdOf(scanned)'
  <2>1. ASSUME NEW d \in Nat \ {0}
        PROVE  Divides(d, gcdAcc') <=> \A v \in Seen(scanned) \cup Data(b) : Divides(d, v - smallest)
    BY <1>7, <1>8
  <2>. QED BY <1>3, <1>8, <1>9, <2>1 DEF IsGcdOf
<1>11. IsMinOf(ToScan)'
  <2>1. IsMinOf(ToScan) /\ Seen(ToScan)' = Seen(ToScan)
    BY <1>1, <1>4 DEF DuringGcd, Seen
  <2>. QED BY <1>3, <1>4, <2>1 DEF IsMinOf
<1>12. DuringGcd'
  <2>1. hasNoData' = CanOccur' /\ divisor' = 1 /\ NonePrepared'
    BY <1>1, <1>3, <1>4 DEF DuringGcd, NonePrepared
  <2>2. scanned' \subseteq ToScan'
    BY <1>1, <1>2, <1>4, <1>5 DEF DuringGcd
  <2>3. LooksForGcd'
    BY <1>1, <1>3, <1>4 DEF DuringGcd, LooksForGcd
  <2>. QED BY <1>10, <1>11, <2>1, <2>2, <2>3 DEF DuringGcd
<1>. QED BY <1>3, <1>4, <1>12 DEF Preparing, ScanGcd

\* Nothing that was settled changes afterwards.
LEMMA SettledStays ==
  ASSUME InputOK, Settled, UNCHANGED <<input, hasNoData>>, UNCHANGED <<smallest, gcdAcc, divisor>>
  PROVE  InputOK' /\ Settled'
<1>1. /\ InputOK' /\ CanOccur' = CanOccur /\ (LooksForMin' <=> LooksForMin) /\ ToScan' = ToScan
      /\ typeMax' = typeMax /\ (normalize' <=> normalize) /\ path' = path
      /\ Seen(ToScan)' = Seen(ToScan)
  BY InputStays, SeenStays DEF Seen
<1>2. LooksForGcd' <=> LooksForGcd
  BY <1>1 DEF LooksForGcd
<1>3. Divisor' = Divisor
  BY <1>1 DEF Divisor
<1>4. IsMinOf(ToScan)' <=> IsMinOf(ToScan)
  BY <1>1 DEF IsMinOf
<1>5. IsGcdOf(ToScan)' <=> IsGcdOf(ToScan)
  BY <1>1 DEF IsGcdOf
<1>. QED BY <1>1, <1>2, <1>3, <1>4, <1>5 DEF Settled

LEMMA EndGcdPrepares == Preparing /\ EndGcd => Preparing'
<1> SUFFICES ASSUME Preparing, EndGcd PROVE Preparing'
  OBVIOUS
<1>1. InputOK /\ DuringGcd /\ scanned = ToScan
  BY DEF Preparing, EndGcd
<1>2. UNCHANGED <<input, hasNoData>> /\ UNCHANGED <<smallest, gcdAcc, prepared, skipped>>
  BY DEF EndGcd
<1>3. /\ InputOK' /\ CanOccur' = CanOccur /\ LooksForMin' /\ ToScan' = ToScan /\ typeMax' = typeMax
      /\ (normalize' <=> normalize) /\ path' = path /\ Seen(ToScan)' = Seen(ToScan)
  BY <1>1, <1>2, InputStays, SeenStays DEF DuringGcd, LooksForGcd, Seen
<1>4. LooksForGcd' /\ Divisor' = Divisor /\ hasNoData' = CanOccur'
  BY <1>1, <1>2, <1>3 DEF DuringGcd, LooksForGcd, Divisor
<1>5. IsMinOf(ToScan)' /\ IsGcdOf(ToScan)'
  BY <1>1, <1>2, <1>3 DEF DuringGcd, IsMinOf, IsGcdOf
<1>6. Settled'
  BY <1>3, <1>4, <1>5 DEF Settled, EndGcd
<1>7. Made'
  BY <1>1, <1>2 DEF Made, EndGcd, DuringGcd, NonePrepared
<1>. QED BY <1>3, <1>6, <1>7 DEF Preparing, EndGcd

\* The words and the counts of a block depend on what was settled only.
LEMMA WordsStay ==
  ASSUME UNCHANGED <<input, hasNoData>>, UNCHANGED <<smallest, divisor>>
  PROVE  /\ \A v : Word(v)' = Word(v)
         /\ \A b : TooMuch(b)' <=> TooMuch(b)
<1>1. /\ path' = path /\ (signed' <=> signed) /\ (normalize' <=> normalize) /\ blocks' = blocks
      /\ nodata16' = nodata16 /\ nodataU16' = nodataU16 /\ nodata32' = nodata32
      /\ maxNodataPct' = maxNodataPct /\ hasNoData' = hasNoData
  BY InputStays, SeenStays
<1>2. minShift' = minShift /\ normMinU16' = normMinU16
  BY <1>1 DEF minShift, normMinU16
<1>3. \A v : (IsNodataU16(v)' <=> IsNodataU16(v)) /\ (IsNodata32(v)' <=> IsNodata32(v))
             /\ (IsNodata8(v)' <=> IsNodata8(v))
  BY <1>1, <1>2 DEF IsNodataU16, IsNodata32, IsNodata8
<1>4. \A v : UnsignedU16(v)' = UnsignedU16(v)
  BY <1>2, <1>3 DEF UnsignedU16
<1>5. \A v : WordU16(v)' = WordU16(v)
  BY <1>1, <1>2, <1>4 DEF WordU16
<1>6. \A v : Word32(v)' = Word32(v)
  BY <1>1, <1>3 DEF Word32
<1>7. \A v : Word8(v)' = Word8(v)
  BY <1>3 DEF Word8
<1>8. \A v : Word(v)' = Word(v)
  BY <1>1, <1>5, <1>6, <1>7 DEF Word
<1>9. \A v : Counted(v)' <=> Counted(v)
  BY <1>1, <1>3 DEF Counted
<1>10. \A b : nodataCount(b)' = nodataCount(b)
  BY <1>1, <1>9 DEF nodataCount
<1>11. \A b : TooMuch(b)' <=> TooMuch(b)
  BY <1>1, <1>10 DEF TooMuch
<1>. QED BY <1>8, <1>11

LEMMA SkipBlockPrepares == Preparing /\ SkipBlock => Preparing'
<1> SUFFICES ASSUME Preparing, SkipBlock PROVE Preparing'
  OBVIOUS
<1>1. InputOK /\ Settled /\ Made
  BY DEF Preparing, SkipBlock
<1>2. PICK b \in NextOf(sampled) : /\ TooMuch(b)
                                   /\ skipped' = skipped \cup {b}
                                   /\ scanned' = scanned \cup {b}
  BY DEF SkipBlock
<1>3. /\ UNCHANGED <<input, hasNoData>> /\ UNCHANGED <<smallest, gcdAcc, divisor>>
      /\ UNCHANGED <<smallest, divisor>> /\ UNCHANGED <<prepared, pc>>
  BY DEF SkipBlock
<1>4. InputOK' /\ Settled' /\ sampled' = sampled /\ blocks' = blocks
  BY <1>1, <1>3, SettledStays, InputStays
<1>5. b \in sampled /\ b \notin scanned
  BY <1>2, NextIsOne
<1>6. /\ \A v : Word(v)' = Word(v)
      /\ \A c : TooMuch(c)' <=> TooMuch(c)
  BY <1>3, WordsStay
<1>7. Made'
  BY <1>1, <1>2, <1>3, <1>4, <1>5, <1>6 DEF Made
<1>. QED BY <1>3, <1>4, <1>7 DEF Preparing, SkipBlock

LEMMA PrepareBlockPrepares == Preparing /\ PrepareBlock => Preparing'
<1> SUFFICES ASSUME Preparing, PrepareBlock PROVE Preparing'
  OBVIOUS
<1>1. InputOK /\ Settled /\ Made
  BY DEF Preparing, PrepareBlock
<1>2. PICK b \in NextOf(sampled) :
        /\ ~TooMuch(b)
        /\ prepared' = [c \in DOMAIN prepared \cup {b} |->
                          IF c = b THEN [i \in 1 .. BlockLength |-> Word(blocks[b][i])]
                          ELSE prepared[c]]
        /\ scanned' = scanned \cup {b}
  BY DEF PrepareBlock
<1>3. /\ UNCHANGED <<input, hasNoData>> /\ UNCHANGED <<smallest, gcdAcc, divisor>>
      /\ UNCHANGED <<smallest, divisor>> /\ UNCHANGED <<skipped, pc>>
  BY DEF PrepareBlock
<1>4. InputOK' /\ Settled' /\ sampled' = sampled /\ blocks' = blocks
  BY <1>1, <1>3, SettledStays, InputStays
<1>5. b \in sampled /\ b \notin scanned
  BY <1>2, NextIsOne
<1>6. /\ \A v : Word(v)' = Word(v)
      /\ \A c : TooMuch(c)' <=> TooMuch(c)
  BY <1>3, WordsStay
<1>7. DOMAIN prepared' = DOMAIN prepared \cup {b}
  BY <1>2
<1>8. ASSUME NEW c \in DOMAIN prepared'
      PROVE  ~TooMuch(c) /\ prepared'[c] = [i \in 1 .. BlockLength |-> Word(blocks[c][i])]
  <2>1. CASE c = b
    BY <1>2, <2>1
  <2>2. CASE c # b
    BY <1>1, <1>2, <1>7, <2>2 DEF Made
  <2>. QED BY <2>1, <2>2
<1>9. ASSUME NEW c \in DOMAIN prepared'
      PROVE  ~TooMuch(c)' /\ prepared'[c] = [i \in 1 .. BlockLength |-> Word(blocks[c][i])]'
  BY <1>4, <1>6, <1>8
<1>10. Made'
  <2>1. scanned' \subseteq sampled'
    BY <1>1, <1>2, <1>4, <1>5 DEF Made
  <2>2. skipped' \cup DOMAIN prepared' = scanned' /\ skipped' \cap DOMAIN prepared' = {}
    BY <1>1, <1>2, <1>3, <1>5, <1>7 DEF Made
  <2>3. \A c \in skipped' : TooMuch(c)'
    BY <1>1, <1>3, <1>6 DEF Made
  <2>. QED BY <1>9, <2>1, <2>2, <2>3 DEF Made
<1>. QED BY <1>3, <1>4, <1>10 DEF Preparing, PrepareBlock

LEMMA RestPrepares ==
  ASSUME Preparing, EndBlocks \/ UNCHANGED vars PROVE Preparing'
<1>1. CASE EndBlocks
  <2>1. InputOK /\ Settled /\ Made
    BY <1>1 DEF Preparing, EndBlocks
  <2>2. /\ UNCHANGED <<input, hasNoData>> /\ UNCHANGED <<smallest, gcdAcc, divisor>>
        /\ UNCHANGED <<smallest, divisor>> /\ UNCHANGED <<scanned, prepared, skipped>>
    BY <1>1 DEF EndBlocks
  <2>3. InputOK' /\ Settled' /\ sampled' = sampled /\ blocks' = blocks
    BY <2>1, <2>2, SettledStays, InputStays
  <2>4. /\ \A v : Word(v)' = Word(v)
        /\ \A c : TooMuch(c)' <=> TooMuch(c)
    BY <2>2, WordsStay
  <2>5. Made'
    BY <2>1, <2>2, <2>3, <2>4 DEF Made
  <2>. QED BY <1>1, <2>3, <2>5 DEF Preparing, EndBlocks
<1>2. CASE UNCHANGED vars
  <2>1. /\ UNCHANGED <<input, hasNoData>> /\ UNCHANGED <<smallest, gcdAcc, divisor>>
        /\ UNCHANGED <<smallest, divisor>> /\ UNCHANGED <<scanned, prepared, skipped, pc>>
    BY <1>2 DEF vars
  <2>2. /\ InputOK' /\ CanOccur' = CanOccur /\ (LooksForMin' <=> LooksForMin) /\ ToScan' = ToScan
        /\ typeMax' = typeMax /\ (normalize' <=> normalize) /\ sampled' = sampled
        /\ blocks' = blocks /\ \A B : Seen(B)' = Seen(B)
    BY <2>1, InputStays, SeenStays DEF Preparing
  <2>3. Seen(scanned)' = Seen(scanned) /\ Seen(ToScan)' = Seen(ToScan) /\ (NonePrepared' <=> NonePrepared)
    BY <2>1, <2>2 DEF Seen, NonePrepared
  <2>4. /\ IsMinOf(scanned)' <=> IsMinOf(scanned)
        /\ IsMinOf(ToScan)' <=> IsMinOf(ToScan)
        /\ IsGcdOf(scanned)' <=> IsGcdOf(scanned)
    BY <2>1, <2>2, <2>3 DEF IsMinOf, IsGcdOf
  <2>5. CASE pc = "nodata" /\ BeforeScans
    BY <2>1, <2>2, <2>3, <2>5 DEF BeforeScans, Preparing
  <2>6. CASE pc = "min" /\ DuringMin
    BY <2>1, <2>2, <2>3, <2>4, <2>6 DEF DuringMin, Preparing
  <2>7. CASE pc = "gcd" /\ DuringGcd
    <3>1. LooksForGcd' <=> LooksForGcd
      BY <2>1, <2>2 DEF LooksForGcd
    <3>. QED BY <2>1, <2>2, <2>3, <2>4, <2>7, <3>1 DEF DuringGcd, Preparing
  <2>8. CASE pc \in {"prepare", "done"} /\ Settled /\ Made
    <3>1. Settled'
      BY <2>1, <2>8, SettledStays DEF Preparing
    <3>2. /\ \A v : Word(v)' = Word(v)
          /\ \A c : TooMuch(c)' <=> TooMuch(c)
      BY <2>1, WordsStay
    <3>3. Made'
      BY <2>1, <2>2, <2>8, <3>2 DEF Made
    <3>. QED BY <2>1, <2>2, <2>8, <3>1, <3>3 DEF Preparing
  <2>. QED BY <2>5, <2>6, <2>7, <2>8 DEF Preparing
<1>. QED BY <1>1, <1>2

\* The programs' preparation goes by what the scans found, for every raster and
\* every option.
THEOREM PreparationInvariant == Spec => []Preparing
<1>1. Init => Preparing
  BY InitPrepares
<1>2. Preparing /\ [Next]_vars => Preparing'
  BY ReadNoDataPrepares, ScanMinPrepares, EndMinPrepares, ScanGcdPrepares, EndGcdPrepares,
     SkipBlockPrepares, PrepareBlockPrepares, RestPrepares DEF Next, Finished
<1>. QED BY <1>1, <1>2, PTL DEF Spec

\* The words given to the codecs are of their type, and no block is both
\* skipped and prepared.
THEOREM WordsAreTyped == Spec => []TypeOK
BY PreparationInvariant, TypeOKHolds, PTL

\* However a block is read, clamped, shifted and normalised, a nodata pixel
\* reaches the codec as 0.
THEOREM NodataReachesAsZero == Spec => []NodataIsZero
BY PreparationInvariant, NodataIsZeroHolds, PTL

\* No two values of the data are made one, and their order is kept.
THEOREM NothingIsLost == Spec => []OrderKept
BY PreparationInvariant, OrderKeptHolds, PTL

\* Data are normalised by their minimum and their greatest common divisor,
\* outside the two cases that are excepted.
THEOREM NormalForm == Spec => []NormalisedOtherwise
BY PreparationInvariant, NormalisedOtherwiseHolds, PTL

\* Blocks are skipped for their share of nodata, outside the case that is
\* excepted.
THEOREM SkipsByShare == Spec => []SkipsByShareOtherwise
BY PreparationInvariant, SkipsByShareHolds, PTL

============================================================================
