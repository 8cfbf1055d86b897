----------------------------- MODULE Foundations ---------------------------
(***************************************************************************)
(* What the proofs about several components need of the integers, of       *)
(* finite sets and of sums.                                                *)
(***************************************************************************)
EXTENDS Integers, FiniteSetsExt, Functions, FiniteSetTheorems, WellFoundedInduction, TLAPS

----------------------------------------------------------------------------
(* Induction, as the least counterexample *)

LEMMA LeastNatural ==
  ASSUME NEW T \in SUBSET Nat, T # {}
  PROVE  \E x \in T : \A y \in T : x <= y
<1>1. IsWellFoundedOn(OpToRel(<, Nat), Nat)
  BY NatLessThanWellFounded
<1>2. PICK x \in T : \A y \in T : ~(<<y, x>> \in OpToRel(<, Nat))
  BY <1>1, WFMin
<1>3. \A y \in T : <<y, x>> \in OpToRel(<, Nat) <=> y < x
  BY DEF OpToRel
<1>4. ASSUME NEW y \in T PROVE x <= y
  <2>1. ~(y < x) /\ y \in Nat /\ x \in Nat
    BY <1>2, <1>3
  <2>. QED BY ONLY <2>1
<1>. QED BY <1>4

\* If a family of subsets of a finite set has members, it has one that is a
\* proper superset of none.
LEMMA SmallestSubset ==
  ASSUME NEW S, IsFiniteSet(S), NEW F \in SUBSET SUBSET S, F # {}
  PROVE  \E T \in F : \A U \in F : U \subseteq T => U = T
<1>1. F \subseteq FiniteSubsetsOf(S)
  BY FS_Subset DEF FiniteSubsetsOf
<1>2. PICK T \in F : \A U \in F : ~(<<U, T>> \in StrictSubsetOrdering(S))
  BY <1>1, FS_StrictSubsetOrderingWellFounded, WFMin
<1>. QED BY <1>2 DEF StrictSubsetOrdering

\* A family of subsets that contains the empty set, and a set if it contains
\* that set without some element of it, contains all.
LEMMA AllSubsets ==
  ASSUME NEW S, IsFiniteSet(S), NEW F \in SUBSET SUBSET S, {} \in F,
         \A T \in SUBSET S : T # {} => \E x \in T : T \ {x} \in F => T \in F
  PROVE  F = SUBSET S
<1> SUFFICES ASSUME NEW G, G = (SUBSET S) \ F, G # {} PROVE FALSE
  OBVIOUS
<1>0. IsFiniteSet(S) /\ G \in SUBSET SUBSET S /\ G # {}
  OBVIOUS
<1>1. PICK T \in G : \A U \in G : U \subseteq T => U = T
  BY ONLY <1>0, SmallestSubset
<1>2. T # {} /\ T \in SUBSET S /\ T \notin F
  <2>1. G = (SUBSET S) \ F /\ {} \in F /\ T \in G
    OBVIOUS
  <2>. QED BY ONLY <2>1
<1>3. PICK x \in T : T \ {x} \in F => T \in F
  BY <1>2
<1>4. T \ {x} \in SUBSET S /\ T \ {x} # T /\ T \ {x} \subseteq T
  BY <1>2, <1>3
<1>5. T \ {x} \in F
  BY <1>1, <1>4
<1>. QED BY <1>1, <1>3, <1>5

----------------------------------------------------------------------------
(* Products and quotients *)

LEMMA MulMono ==
  ASSUME NEW a \in Nat, NEW b \in Nat, NEW p \in Nat, a <= b
  PROVE  a * p <= b * p /\ a * p \in Nat
<1>1. b * p = a * p + (b - a) * p
  BY SMT
<1>2. (b - a) * p >= 0
  BY SMT
<1>. QED BY <1>1, <1>2, SMT

\* What a quotient and a remainder are.
LEMMA QuotientRemainder ==
  ASSUME NEW a \in Int, NEW b \in Nat \ {0}
  PROVE  /\ a \div b \in Int /\ a % b \in 0 .. b - 1
         /\ a = b * (a \div b) + (a % b)
OBVIOUS

LEMMA QuotientUnique ==
  ASSUME NEW q \in Int, NEW b \in Nat \ {0}, NEW r \in 0 .. b - 1
  PROVE  (b * q + r) \div b = q /\ (b * q + r) % b = r
<1> DEFINE a == b * q + r
<1>1. a \in Int /\ b * q \in Int
  OBVIOUS
<1>2. /\ a \div b \in Int /\ a % b \in 0 .. b - 1
      /\ a = b * (a \div b) + (a % b)
  BY <1>1, QuotientRemainder
<1> DEFINE d == a \div b
<1>3. b * (q - d) = (a % b) - r
  BY <1>1, <1>2
<1>. QED BY <1>1, <1>2

LEMMA Product ==
  ASSUME NEW a \in Nat, NEW b \in Nat
  PROVE  a * b \in Nat
BY SMT

LEMMA Nothing ==
  ASSUME NEW a \in Nat
  PROVE  0 * a = 0 /\ 0 * a + 0 = 0
BY SMT

\* A positive factor cancels.
LEMMA MulCancel ==
  ASSUME NEW a \in Nat, NEW b \in Nat, NEW p \in Nat \ {0}
  PROVE  /\ a * p = b * p => a = b
         /\ a * p < b * p => a < b
<1>1. CASE a < b
  <2>1. (a + 1) * p <= b * p /\ (a + 1) * p = a * p + p
    BY <1>1, MulMono, SMT
  <2>. QED BY <1>1, <2>1, SMT
<1>2. CASE b <= a
  <2>1. b * p <= a * p
    BY <1>2, MulMono
  <2>2. b < a => b * p < a * p
    <3> SUFFICES ASSUME b < a PROVE b * p < a * p
      OBVIOUS
    <3>1. (b + 1) * p <= a * p /\ (b + 1) * p = b * p + p
      BY MulMono, SMT
    <3>. QED BY <3>1, SMT
  <2>. QED BY <1>2, <2>1, <2>2, SMT
<1>. QED BY <1>1, <1>2

\* Quotient and remainder are known by a remainder below the divisor.
LEMMA Division ==
  ASSUME NEW a \in Nat, NEW p \in Nat \ {0}
  PROVE  /\ a \div p \in Nat /\ a % p \in 0 .. p - 1
         /\ a = (a \div p) * p + (a % p)
BY SMT

LEMMA DivisionUnique ==
  ASSUME NEW p \in Nat \ {0}, NEW q \in Nat, NEW r \in 0 .. p - 1,
         NEW s \in Nat, NEW t \in 0 .. p - 1, q * p + r = s * p + t
  PROVE  q = s /\ r = t
<1>1. CASE q < s
  <2>1. (q + 1) * p <= s * p /\ (q + 1) * p = q * p + p
    BY <1>1, MulMono, SMT
  <2>. QED BY <2>1, SMT
<1>2. CASE s < q
  <2>1. (s + 1) * p <= q * p /\ (s + 1) * p = s * p + p
    BY <1>2, MulMono, SMT
  <2>. QED BY <2>1, SMT
<1>3. CASE q = s
  BY <1>3, SMT
<1>. QED BY <1>1, <1>2, <1>3

LEMMA QuotientOf ==
  ASSUME NEW p \in Nat \ {0}, NEW q \in Nat, NEW r \in 0 .. p - 1,
         NEW b, b = q * p + r
  PROVE  b \div p = q /\ b % p = r
<1>1. b \in Nat
  <2>1. q * p \in Nat
    BY MulMono
  <2>. QED BY <2>1, SMT
<1>2. PICK s \in Nat, t \in 0 .. p - 1 : b = s * p + t /\ b \div p = s /\ b % p = t
  BY <1>1, Division
<1>. QED BY <1>2, DivisionUnique

\* The interval between samples leads to none behind the raster.
LEMMA IntervalFits ==
  ASSUME NEW T \in Nat \ {0}, NEW g \in Nat \ {0}, g <= T,
         NEW v, v = (IF T \div g > 1 THEN T \div g ELSE 1), NEW j \in Nat, j < g
  PROVE  v \in Nat \ {0} /\ j * v \in Nat /\ j * v < T
<1>1. T \div g \in Nat /\ (T \div g) * g <= T
  BY Division, SMT
<1>2. v \in Nat \ {0}
  BY <1>1
<1>3. g * v <= T
  <2>1. CASE T \div g > 1
    <3>1. v = T \div g
      BY <2>1
    <3>2. g * v = v * g
      BY <1>2, SMT
    <3>. QED BY <1>1, <3>1, <3>2
  <2>2. CASE ~(T \div g > 1)
    BY <2>2, SMT
  <2>. QED BY <2>1, <2>2
<1>4. (j + 1) * v <= g * v /\ (j + 1) * v = j * v + v /\ j * v \in Nat
  BY <1>2, MulMono, SMT
<1>. QED BY <1>2, <1>3, <1>4, SMT

----------------------------------------------------------------------------
(* Slices *)

\* lo and hi are the bounds of X slices of N things.
Slicing(X, N, per, lo, hi) ==
  /\ per = N \div X
  /\ \A t \in 0 .. X - 1 : lo[t] = t * per /\ hi[t] = IF t = X - 1 THEN N ELSE lo[t] + per

\* X slices of N things, as long as each other but for the last, which takes the
\* remainder, partition them.
LEMMA SlicesPartition ==
  ASSUME NEW X \in Nat \ {0}, NEW N \in Nat \ {0}, NEW per, NEW lo, NEW hi,
         Slicing(X, N, per, lo, hi)
  PROVE  /\ per \in Nat
         /\ \A t \in 0 .. X - 1 :
              /\ lo[t] \in Nat /\ hi[t] \in Nat /\ lo[t] <= hi[t] /\ hi[t] <= N
              /\ t # X - 1 => hi[t] = (t + 1) * per
         /\ \A t, u \in 0 .. X - 1 : t < u => hi[t] <= lo[u]
         /\ \A j \in 0 .. N - 1 : \E t \in 0 .. X - 1 : j \in lo[t] .. hi[t] - 1
<1> USE DEF Slicing
<1>1. per \in Nat /\ X * per <= N
  <2>1. N = (N \div X) * X + (N % X) /\ N \div X \in Nat /\ N % X \in Nat
    BY Division
  <2>2. X * per = per * X /\ per * X \in Nat
    BY <2>1, Product
  <2>. QED BY <2>1, <2>2
<1>2. ASSUME NEW t \in 0 .. X - 1
      PROVE  /\ lo[t] \in Nat /\ hi[t] \in Nat /\ lo[t] <= hi[t] /\ hi[t] <= N
             /\ t # X - 1 => hi[t] = (t + 1) * per
  <2>1. t \in Nat /\ t + 1 \in Nat /\ t + 1 <= X
    OBVIOUS
  <2>2. (t + 1) * per <= X * per /\ (t + 1) * per \in Nat
    BY <1>1, <2>1, MulMono
  <2>3. t * per \in Nat /\ (t + 1) * per = t * per + per
    BY <1>1, <2>1, SMT
  <2>4. lo[t] = t * per /\ hi[t] = IF t = X - 1 THEN N ELSE lo[t] + per
    OBVIOUS
  <2>. QED BY <1>1, <2>1, <2>2, <2>3, <2>4
<1>3. ASSUME NEW t \in 0 .. X - 1, NEW u \in 0 .. X - 1, t < u
      PROVE  hi[t] <= lo[u]
  <2>1. t \in Nat /\ u \in Nat /\ t + 1 \in Nat /\ t + 1 <= u /\ t # X - 1
    BY <1>3
  <2>2. (t + 1) * per <= u * per
    BY <1>1, <2>1, MulMono
  <2>. QED BY <1>2, <2>1, <2>2
<1>4. ASSUME NEW j \in 0 .. N - 1
      PROVE  \E t \in 0 .. X - 1 : j \in lo[t] .. hi[t] - 1
  <2> DEFINE last == X - 1
  <2>1. last \in 0 .. X - 1 /\ hi[last] = N /\ lo[last] \in Nat /\ lo[last] = last * per
    BY <1>2
  <2>2. CASE j >= lo[last]
    <3>1. j \in lo[last] .. hi[last] - 1
      BY <2>1, <2>2
    <3>. QED BY <2>1, <3>1
  <2>3. CASE j < lo[last]
    <3>1. per # 0
      <4> SUFFICES ASSUME per = 0 PROVE FALSE
        OBVIOUS
      <4>1. last * 0 = 0
        BY <2>1
      <4>. QED BY <2>1, <2>3, <4>1
    <3>2. PICK t \in Nat, s \in 0 .. per - 1 : j = t * per + s
      <4>1. /\ j = (j \div per) * per + (j % per)
            /\ j \div per \in Nat /\ j % per \in 0 .. per - 1
        <5>1. j \in Nat /\ per \in Nat \ {0}
          BY <1>1, <3>1
        <5>. QED BY ONLY <5>1, Division
      <4>. QED BY <4>1
    <3>3. t * per \in Nat /\ t * per <= j /\ j < (t + 1) * per
      <4>1. (t + 1) * per = t * per + per /\ t * per \in Nat
        BY <1>1, <3>2, SMT
      <4>. QED BY <1>1, <3>2, <4>1
    <3>4. t < last
      <4> SUFFICES ASSUME last <= t PROVE FALSE
        BY <2>1, <3>2
      <4>1. last * per <= t * per
        BY <1>1, <2>1, <3>2, MulMono
      <4>. QED BY <2>1, <2>3, <3>3, <4>1
    <3>5. t \in 0 .. X - 1 /\ t # X - 1 /\ lo[t] = t * per
      BY <3>2, <3>4
    <3>6. hi[t] = (t + 1) * per
      BY <1>2, <3>5
    <3>7. j \in lo[t] .. hi[t] - 1
      BY <3>3, <3>5, <3>6
    <3>. QED BY <3>5, <3>7
  <2>. QED BY <2>1, <2>2, <2>3
<1>. QED BY <1>1, <1>2, <1>3, <1>4

----------------------------------------------------------------------------
(* Least and greatest elements *)

LEMMA HasLeast ==
  ASSUME NEW S \in SUBSET Int, IsFiniteSet(S), S # {}
  PROVE  /\ \E x \in S : \A y \in S : x <= y
         /\ \E x \in S : \A y \in S : x >= y
<1> DEFINE F == {T \in SUBSET S : T = {} \/ (/\ \E x \in T : \A y \in T : x <= y
                                             /\ \E x \in T : \A y \in T : x >= y)}
<1>1. \A T \in SUBSET S : T # {} => \E x \in T : T \ {x} \in F => T \in F
  <2> SUFFICES ASSUME NEW T \in SUBSET S, NEW z \in T, T \ {z} \in F PROVE T \in F
    BY Zenon
  <2> DEFINE U == T \ {z}
  <2>1. CASE U = {}
    BY <2>1
  <2>2. CASE U # {}
    <3>1. PICK x \in U : \A y \in U : x <= y
      BY <2>2
    <3>2. PICK w \in U : \A y \in U : w >= y
      BY <2>2
    <3>3. \A y \in T : y \in U \/ y = z
      OBVIOUS
    <3>4. \E v \in T : \A y \in T : v <= y
      <4>1. CASE x <= z
        BY <3>1, <3>3, <4>1
      <4>2. CASE ~(x <= z)
        <5>1. \A y \in T : z <= y
          BY <3>1, <3>3, <4>2
        <5>. QED BY <5>1
      <4>. QED BY <4>1, <4>2
    <3>5. \E v \in T : \A y \in T : v >= y
      <4>1. CASE w >= z
        BY <3>2, <3>3, <4>1
      <4>2. CASE ~(w >= z)
        <5>1. \A y \in T : z >= y
          BY <3>2, <3>3, <4>2
        <5>. QED BY <5>1
      <4>. QED BY <4>1, <4>2
    <3>. QED BY <3>4, <3>5
  <2>. QED BY <2>1, <2>2
<1>2. {} \in F /\ F \in SUBSET SUBSET S
  OBVIOUS
<1> HIDE DEF F
<1>3. F = SUBSET S
  BY <1>1, <1>2, AllSubsets
<1>. QED BY <1>3 DEF F

LEMMA MinIsLeast ==
  ASSUME NEW S \in SUBSET Int, IsFiniteSet(S), S # {}
  PROVE  Min(S) \in S /\ \A y \in S : Min(S) <= y
BY HasLeast DEF Min

LEMMA MaxIsGreatest ==
  ASSUME NEW S \in SUBSET Int, IsFiniteSet(S), S # {}
  PROVE  Max(S) \in S /\ \A y \in S : Max(S) >= y
BY HasLeast DEF Max

\* What a function takes on a finite set are finitely many values.
LEMMA FiniteImage ==
  ASSUME NEW S, IsFiniteSet(S), NEW f
  PROVE  IsFiniteSet({f[x] : x \in S})
<1> DEFINE T == {f[x] : x \in S}
           g == [x \in S |-> f[x]]
<1>1. g \in Surjection(S, T)
  BY DEF Surjection
<1>. QED BY <1>1, FS_Surjection

----------------------------------------------------------------------------
(* Folds *)

\* What a fold over s takes next.
Chosen(s) == CHOOSE x \in s : TRUE

LEMMA ChosenIsElement == ASSUME NEW s, s # {} PROVE Chosen(s) \in s
BY DEF Chosen

\* iter folds the subsets of S into V: it is base at the empty set, elsewhere
\* what next makes of an element and of the fold over the others.
IsFold(iter, next, base, S, V) ==
  /\ iter \in [SUBSET S -> V]
  /\ \A s \in SUBSET S :
       iter[s] = IF s = {} THEN base ELSE next[<<Chosen(s), iter[s \ {Chosen(s)}]>>]

LEMMA FoldExists ==
  ASSUME NEW S, IsFiniteSet(S), NEW V, NEW base \in V, NEW next \in [S \X V -> V]
  PROVE  \E iter : IsFold(iter, next, base, S, V)
<1> DEFINE D(k)          == {s \in SUBSET S : Cardinality(s) <= k}
           Step(iter, s) == IF s = {} THEN base ELSE next[<<Chosen(s), iter[s \ {Chosen(s)}]>>]
           Good(k)       == \E iter \in [D(k) -> V] : \A s \in D(k) : iter[s] = Step(iter, s)
           Bad           == {k \in Nat : ~Good(k)}
<1>1. \A s \in SUBSET S : IsFiniteSet(s) /\ Cardinality(s) \in Nat /\ Cardinality(s) <= Cardinality(S)
  BY FS_Subset, FS_CardinalityType
<1>2. Good(0)
  <2>1. \A s \in D(0) : s = {}
    <3>1. \A s \in SUBSET S : Cardinality(s) <= 0 => s = {}
      BY <1>1, FS_EmptySet
    <3>. QED BY <3>1
  <2> DEFINE iter == [s \in D(0) |-> base]
  <2>2. iter \in [D(0) -> V]
    OBVIOUS
  <2>3. \A s \in D(0) : iter[s] = Step(iter, s)
    BY <2>1
  <2>. QED BY <2>2, <2>3
<1>3. ASSUME NEW k \in Nat, Good(k) PROVE Good(k + 1)
  <2>1. PICK iter \in [D(k) -> V] : \A s \in D(k) : iter[s] = Step(iter, s)
    BY <1>3
  <2> DEFINE more == [s \in D(k + 1) |-> Step(iter, s)]
  <2>2. ASSUME NEW s \in D(k + 1), s # {}
        PROVE  Chosen(s) \in S /\ s \ {Chosen(s)} \in D(k)
    <3>1. IsFiniteSet(s) /\ Chosen(s) \in s /\ Cardinality(s) \in Nat /\ Cardinality(s) <= k + 1
      BY <1>1, <2>2, ChosenIsElement
    <3>2. Cardinality(s \ {Chosen(s)}) = Cardinality(s) - 1
      BY <3>1, FS_RemoveElement
    <3>3. s \ {Chosen(s)} \in SUBSET S /\ Chosen(s) \in S
      BY <3>1
    <3>. QED BY <3>1, <3>2, <3>3
  <2>3. \A s \in D(k) : s \in D(k + 1)
    BY <1>1
  <2> HIDE DEF D
  <2>4. \A s \in D(k) : more[s] = iter[s]
    BY <2>1, <2>3
  <2>5. ASSUME NEW s \in D(k + 1) PROVE more[s] = Step(more, s) /\ more[s] \in V
    <3>1. CASE s = {}
      BY <3>1
    <3>2. CASE s # {}
      <4>1. more[s \ {Chosen(s)}] = iter[s \ {Chosen(s)}] /\ iter[s \ {Chosen(s)}] \in V
        BY <2>2, <2>4, <3>2
      <4>2. more[s] = next[<<Chosen(s), iter[s \ {Chosen(s)}]>>]
        BY <3>2
      <4> HIDE DEF more
      <4>. QED BY <2>2, <3>2, <4>1, <4>2
    <3>. QED BY <3>1, <3>2
  <2>6. more \in [D(k + 1) -> V]
    BY <2>5
  <2> HIDE DEF more
  <2>. QED BY <2>5, <2>6
<1>4. \A k \in Nat : Good(k)
  <2> HIDE DEF Good
  <2> SUFFICES ASSUME Bad # {} PROVE FALSE
    OBVIOUS
  <2>1. PICK k \in Bad : \A j \in Bad : k <= j
    <3>1. Bad \in SUBSET Nat
      OBVIOUS
    <3> HIDE DEF Bad
    <3>. QED BY <3>1, LeastNatural
  <2>2. k # 0 /\ k \in Nat
    BY <1>2
  <2>3. k - 1 \in Nat /\ (k - 1) + 1 = k /\ ~(k <= k - 1)
    BY <2>2
  <2>4. Good(k - 1)
    BY <2>1, <2>3
  <2>. QED BY <1>3, <2>3, <2>4
<1>5. D(Cardinality(S)) = SUBSET S /\ Cardinality(S) \in Nat
  BY <1>1
<1>6. Good(Cardinality(S))
  <2> HIDE DEF Good
  <2>. QED BY <1>4, <1>5
<1> HIDE DEF D
<1>. QED BY <1>5, <1>6 DEF IsFold

----------------------------------------------------------------------------
(* Sums *)

\* One step of the definition of a sum: what is left out of s next, and the
\* sum over s if iter has the one over the rest.
SumStep(f, iter, s) == IF s = {} THEN 0 ELSE f[Chosen(s)] + iter[s \ {Chosen(s)}]

\* The function whose value at a subset of S is the sum of f over it.
SumIter(f, S) == CHOOSE iter : iter = [s \in SUBSET S |-> SumStep(f, iter, s)]

LEMMA SumIsIter ==
  ASSUME NEW f, NEW S PROVE SumFunctionOnSet(f, S) = SumIter(f, S)[S]
BY DEF SumFunctionOnSet, FoldFunctionOnSet, MapThenFoldSet, SumIter, SumStep, Chosen

LEMMA IterExists ==
  ASSUME NEW f, NEW S, IsFiniteSet(S), \A x \in S : f[x] \in Int
  PROVE  \A s \in SUBSET S : SumIter(f, S)[s] = SumStep(f, SumIter(f, S), s)
<1> DEFINE next == [p \in S \X Int |-> f[p[1]] + p[2]]
<1>1. next \in [S \X Int -> Int]
  OBVIOUS
<1>2. \A x \in S, n \in Int : next[<<x, n>>] = f[x] + n
  OBVIOUS
<1> HIDE DEF next
<1>0. PICK zero \in Int : zero = 0
  OBVIOUS
<1>3. PICK iter : IsFold(iter, next, zero, S, Int)
  BY <1>1, FoldExists
<1>4. ASSUME NEW s \in SUBSET S PROVE iter[s] = SumStep(f, iter, s)
  <2>1. s # {} => Chosen(s) \in S /\ iter[s \ {Chosen(s)}] \in Int
    <3>1. s # {} => Chosen(s) \in s
      BY ChosenIsElement
    <3>. QED BY <1>3, <3>1 DEF IsFold
  <2>. QED BY <1>0, <1>2, <1>3, <2>1 DEF IsFold, SumStep
<1>5. iter = [s \in SUBSET S |-> SumStep(f, iter, s)]
  BY <1>3, <1>4 DEF IsFold
<1>6. SumIter(f, S) = [s \in SUBSET S |-> SumStep(f, SumIter(f, S), s)]
  BY <1>5 DEF SumIter
<1>. QED BY <1>6

LEMMA IterAgrees ==
  ASSUME NEW f, NEW S, IsFiniteSet(S), \A x \in S : f[x] \in Int, NEW T \in SUBSET S
  PROVE  SumIter(f, T)[T] = SumIter(f, S)[T]
<1>1. IsFiniteSet(T) /\ \A x \in T : f[x] \in Int
  BY FS_Subset
<1> DEFINE a == SumIter(f, T)
           b == SumIter(f, S)
           F == {U \in SUBSET T : a[U] = b[U]}
<1>2. \A U \in SUBSET T : a[U] = SumStep(f, a, U) /\ b[U] = SumStep(f, b, U)
  <2>1. \A U \in SUBSET T : U \in SUBSET S
    OBVIOUS
  <2>2. \A U \in SUBSET T : a[U] = SumStep(f, a, U)
    BY <1>1, IterExists
  <2>3. \A U \in SUBSET S : b[U] = SumStep(f, b, U)
    BY IterExists
  <2>. QED BY <2>1, <2>2, <2>3
<1> HIDE DEF a, b
<1>3. {} \in F
  BY <1>2 DEF SumStep
<1>4. ASSUME NEW U \in SUBSET T, U # {} PROVE \E x \in U : U \ {x} \in F => U \in F
  <2>1. Chosen(U) \in U
    BY <1>4, ChosenIsElement
  <2>2. ASSUME U \ {Chosen(U)} \in F PROVE a[U] = b[U]
    BY <1>2, <1>4, <2>2 DEF SumStep
  <2>. QED BY <2>1, <2>2
<1>5. F = SUBSET T
  <2>1. F \in SUBSET SUBSET T
    OBVIOUS
  <2> HIDE DEF F
  <2>. QED BY <1>1, <1>3, <1>4, <2>1, AllSubsets
<1>6. a[T] = b[T]
  <2>1. T \in F
    BY <1>5
  <2>. QED BY <2>1
<1>. QED BY <1>6 DEF a, b

\* A sum over nothing is 0, another one is an element's share and the rest.
LEMMA SumEmpty == ASSUME NEW f PROVE SumFunctionOnSet(f, {}) = 0
<1>1. SumIter(f, {})[{}] = SumStep(f, SumIter(f, {}), {})
  BY FS_EmptySet, IterExists
<1>. QED BY <1>1, SumIsIter DEF SumStep

LEMMA SumChosen ==
  ASSUME NEW f, NEW S, IsFiniteSet(S), \A x \in S : f[x] \in Int, S # {}
  PROVE  SumFunctionOnSet(f, S) = f[Chosen(S)] + SumFunctionOnSet(f, S \ {Chosen(S)})
<1>1. SumIter(f, S)[S] = SumStep(f, SumIter(f, S), S)
  BY IterExists
<1>2. SumIter(f, S)[S \ {Chosen(S)}] = SumIter(f, S \ {Chosen(S)})[S \ {Chosen(S)}]
  BY IterAgrees
<1>. QED BY <1>1, <1>2, SumIsIter DEF SumStep

\* A sum of integers is one.
LEMMA SumType ==
  ASSUME NEW f, NEW S, IsFiniteSet(S), \A x \in S : f[x] \in Int
  PROVE  SumFunctionOnSet(f, S) \in Int
<1> DEFINE F == {T \in SUBSET S : SumFunctionOnSet(f, T) \in Int}
<1>1. {} \in F
  BY SumEmpty
<1>2. ASSUME NEW T \in SUBSET S, T # {} PROVE \E x \in T : T \ {x} \in F => T \in F
  <2>1. Chosen(T) \in T /\ IsFiniteSet(T)
    BY <1>2, ChosenIsElement, FS_Subset
  <2>2. SumFunctionOnSet(f, T) = f[Chosen(T)] + SumFunctionOnSet(f, T \ {Chosen(T)})
    BY <1>2, <2>1, SumChosen
  <2>3. f[Chosen(T)] \in Int
    BY <2>1
  <2>4. SumFunctionOnSet(f, T \ {Chosen(T)}) \in Int => SumFunctionOnSet(f, T) \in Int
    BY ONLY <2>2, <2>3
  <2>. QED BY <2>1, <2>4
<1>3. F \in SUBSET SUBSET S
  OBVIOUS
<1> HIDE DEF F
<1>4. F = SUBSET S
  BY <1>1, <1>2, <1>3, AllSubsets
<1>5. S \in F
  BY <1>4
<1>. QED BY <1>5 DEF F

\* Any element may be left out first.
LEMMA SumRemove ==
  ASSUME NEW f, NEW S, IsFiniteSet(S), \A x \in S : f[x] \in Int, NEW y \in S
  PROVE  SumFunctionOnSet(f, S) = f[y] + SumFunctionOnSet(f, S \ {y})
<1> DEFINE Good(T) == \A z \in T : SumFunctionOnSet(f, T) = f[z] + SumFunctionOnSet(f, T \ {z})
           Bad     == {T \in SUBSET S : ~Good(T)}
<1>1. ASSUME Bad # {} PROVE FALSE
  <2>1. PICK T \in Bad : \A U \in Bad : U \subseteq T => U = T
    <3>1. Bad \in SUBSET SUBSET S /\ Bad # {} /\ IsFiniteSet(S)
      BY <1>1
    <3> HIDE DEF Bad
    <3>. QED BY ONLY <3>1, SmallestSubset
  <2>2. T \in SUBSET S /\ ~Good(T) /\ IsFiniteSet(T)
    BY FS_Subset
  <2>3. PICK z \in T : SumFunctionOnSet(f, T) # f[z] + SumFunctionOnSet(f, T \ {z})
    BY <2>2
  <2> DEFINE x == Chosen(T)
  <2>4. x \in T /\ SumFunctionOnSet(f, T) = f[x] + SumFunctionOnSet(f, T \ {x})
    BY <2>2, <2>3, ChosenIsElement, SumChosen
  <2>5. x # z
    BY <2>3, <2>4
  <2> HIDE DEF x, Good
  <2>6. ASSUME NEW w \in T PROVE Good(T \ {w})
    <3>1. T \ {w} \in SUBSET S /\ T \ {w} \subseteq T /\ T \ {w} # T
      BY <2>2
    <3>. QED BY <2>1, <3>1
  <2>7. /\ SumFunctionOnSet(f, T \ {x}) = f[z] + SumFunctionOnSet(f, (T \ {x}) \ {z})
        /\ SumFunctionOnSet(f, T \ {z}) = f[x] + SumFunctionOnSet(f, (T \ {z}) \ {x})
    <3>1. z \in T \ {x} /\ x \in T \ {z}
      BY <2>4, <2>5
    <3>. QED BY <2>4, <2>6, <3>1 DEF Good
  <2>8. (T \ {x}) \ {z} = (T \ {z}) \ {x}
    OBVIOUS
  <2>9. /\ f[x] \in Int /\ f[z] \in Int
        /\ SumFunctionOnSet(f, (T \ {z}) \ {x}) \in Int
    <3>1. (T \ {z}) \ {x} \in SUBSET S
      BY <2>2
    <3>2. IsFiniteSet((T \ {z}) \ {x})
      BY <3>1, FS_Subset
    <3>3. \A w \in (T \ {z}) \ {x} : f[w] \in Int
      BY <3>1
    <3>. QED BY <2>2, <2>4, <3>2, <3>3, SumType
  <2> DEFINE c == SumFunctionOnSet(f, (T \ {z}) \ {x})
  <2>10. SumFunctionOnSet(f, T) = f[x] + (f[z] + c)
    BY ONLY <2>4, <2>7, <2>8, Zenon
  <2>11. SumFunctionOnSet(f, T \ {z}) = f[x] + c
    BY ONLY <2>7
  <2> HIDE DEF c
  <2>12. f[x] + (f[z] + c) = f[z] + (f[x] + c)
    <3>1. c \in Int
      BY <2>9 DEF c
    <3>. QED BY ONLY <2>9, <3>1
  <2>. QED BY ONLY <2>3, <2>10, <2>11, <2>12, Zenon
<1>2. Good(S)
  BY <1>1
<1>. QED BY <1>2

\* Sums over disjoint sets add up.
LEMMA SumUnion ==
  ASSUME NEW f, NEW A, NEW B, IsFiniteSet(A), IsFiniteSet(B), A \cap B = {},
         \A x \in A \cup B : f[x] \in Int
  PROVE  SumFunctionOnSet(f, A \cup B) = SumFunctionOnSet(f, A) + SumFunctionOnSet(f, B)
<1> DEFINE F == {T \in SUBSET B : SumFunctionOnSet(f, A \cup T)
                                     = SumFunctionOnSet(f, A) + SumFunctionOnSet(f, T)}
<1>0. SumFunctionOnSet(f, A) \in Int
  BY SumType
<1>1. {} \in F
  <2>1. A \cup {} = A
    OBVIOUS
  <2>. QED BY <1>0, <2>1, SumEmpty
<1>2. ASSUME NEW T \in SUBSET B, T # {} PROVE \E x \in T : T \ {x} \in F => T \in F
  <2>1. PICK x \in T : TRUE
    BY <1>2
  <2>2. IsFiniteSet(T) /\ IsFiniteSet(A \cup T) /\ IsFiniteSet(T \ {x})
    BY FS_Subset, FS_Union, FS_RemoveElement
  <2>3. /\ SumFunctionOnSet(f, T) = f[x] + SumFunctionOnSet(f, T \ {x})
        /\ SumFunctionOnSet(f, A \cup T) = f[x] + SumFunctionOnSet(f, (A \cup T) \ {x})
    <3>1. /\ x \in T /\ x \in A \cup T
          /\ (\A z \in T : f[z] \in Int) /\ (\A z \in A \cup T : f[z] \in Int)
      OBVIOUS
    <3>. QED BY ONLY <2>2, <3>1, SumRemove
  <2>4. (A \cup T) \ {x} = A \cup (T \ {x})
    OBVIOUS
  <2>5. f[x] \in Int /\ SumFunctionOnSet(f, T \ {x}) \in Int
    <3>1. f[x] \in Int /\ \A z \in T \ {x} : f[z] \in Int
      OBVIOUS
    <3>. QED BY <2>2, <3>1, SumType
  <2>6. T \ {x} \in F => T \in F
    <3>1. T \ {x} \in SUBSET B /\ T \in SUBSET B
      OBVIOUS
    <3>2. ASSUME SumFunctionOnSet(f, A \cup (T \ {x}))
                   = SumFunctionOnSet(f, A) + SumFunctionOnSet(f, T \ {x})
          PROVE  SumFunctionOnSet(f, A \cup T) = SumFunctionOnSet(f, A) + SumFunctionOnSet(f, T)
      <4> DEFINE a == SumFunctionOnSet(f, A)
                 b == SumFunctionOnSet(f, T \ {x})
      <4>1. SumFunctionOnSet(f, A \cup T) = f[x] + (a + b)
        BY ONLY <2>3, <2>4, <3>2, Zenon
      <4>2. SumFunctionOnSet(f, T) = f[x] + b
        BY ONLY <2>3
      <4>3. a \in Int /\ b \in Int /\ f[x] \in Int
        BY ONLY <1>0, <2>5
      <4> HIDE DEF a, b
      <4>4. f[x] + (a + b) = a + (f[x] + b)
        BY ONLY <4>3
      <4>. QED BY ONLY <4>1, <4>2, <4>4, Zenon DEF a
    <3>. QED BY <3>1, <3>2
  <2>. QED BY <2>6
<1>3. F \in SUBSET SUBSET B
  OBVIOUS
<1> HIDE DEF F
<1>4. F = SUBSET B
  BY <1>1, <1>2, <1>3, AllSubsets
<1>5. B \in F
  BY <1>4
<1>. QED BY <1>5 DEF F

\* A sum depends on what is summed only.
LEMMA SumEqual ==
  ASSUME NEW f, NEW g, NEW S, IsFiniteSet(S), \A x \in S : f[x] \in Int /\ f[x] = g[x]
  PROVE  SumFunctionOnSet(f, S) = SumFunctionOnSet(g, S)
<1> DEFINE F == {T \in SUBSET S : SumFunctionOnSet(f, T) = SumFunctionOnSet(g, T)}
<1>1. {} \in F
  BY SumEmpty
<1>2. ASSUME NEW T \in SUBSET S, T # {} PROVE \E x \in T : T \ {x} \in F => T \in F
  <2>1. Chosen(T) \in T /\ IsFiniteSet(T)
    BY <1>2, ChosenIsElement, FS_Subset
  <2>2. /\ SumFunctionOnSet(f, T) = f[Chosen(T)] + SumFunctionOnSet(f, T \ {Chosen(T)})
        /\ SumFunctionOnSet(g, T) = g[Chosen(T)] + SumFunctionOnSet(g, T \ {Chosen(T)})
    BY <1>2, <2>1, SumChosen
  <2>3. f[Chosen(T)] = g[Chosen(T)]
    BY <2>1
  <2>. QED BY <2>1, <2>2, <2>3
<1>3. F \in SUBSET SUBSET S
  OBVIOUS
<1> HIDE DEF F
<1>4. F = SUBSET S
  BY <1>1, <1>2, <1>3, AllSubsets
<1>5. S \in F
  BY <1>4
<1>. QED BY <1>5 DEF F

\* The order in which numbers are stored does not change their sum.
LEMMA SumPermuted ==
  ASSUME NEW S, NEW T, IsFiniteSet(S), IsFiniteSet(T), NEW h \in Bijection(S, T),
         NEW f, NEW g, \A y \in T : f[y] \in Int, \A x \in S : g[x] = f[h[x]]
  PROVE  SumFunctionOnSet(g, S) = SumFunctionOnSet(f, T)
<1> DEFINE Image(U) == {h[x] : x \in U}
           F == {U \in SUBSET S : SumFunctionOnSet(g, U) = SumFunctionOnSet(f, Image(U))}
<1>0. /\ \A x \in S : h[x] \in T
      /\ \A x, y \in S : h[x] = h[y] => x = y
      /\ \A y \in T : \E x \in S : h[x] = y
  BY DEF Bijection, Injection, Surjection, IsInjective
<1>1. {} \in F
  <2>1. Image({}) = {}
    OBVIOUS
  <2> HIDE DEF Image
  <2>. QED BY <2>1, SumEmpty
<1>2. ASSUME NEW U \in SUBSET S, U # {} PROVE \E x \in U : U \ {x} \in F => U \in F
  <2>1. PICK x \in U : TRUE
    BY <1>2
  <2>2. Image(U \ {x}) = Image(U) \ {h[x]} /\ h[x] \in Image(U) /\ Image(U) \in SUBSET T
    BY <1>0
  <2>3. IsFiniteSet(U) /\ IsFiniteSet(Image(U))
    BY <2>2, FS_Subset
  <2>4. SumFunctionOnSet(g, U) = g[x] + SumFunctionOnSet(g, U \ {x})
    <3>1. x \in U /\ \A z \in U : g[z] \in Int
      BY <1>0
    <3>. QED BY ONLY <2>3, <3>1, SumRemove
  <2>5. SumFunctionOnSet(f, Image(U)) = f[h[x]] + SumFunctionOnSet(f, Image(U) \ {h[x]})
    <3>1. \A z \in Image(U) : f[z] \in Int
      BY <2>2
    <3> HIDE DEF Image
    <3>. QED BY ONLY <2>2, <2>3, <3>1, SumRemove
  <2>6. g[x] = f[h[x]]
    OBVIOUS
  <2> HIDE DEF Image
  <2>. QED BY <2>2, <2>4, <2>5, <2>6
<1>3. F \in SUBSET SUBSET S
  OBVIOUS
<1>4. Image(S) = T
  BY <1>0
<1> HIDE DEF F
<1>5. F = SUBSET S
  BY <1>1, <1>2, <1>3, AllSubsets
<1>6. S \in F
  BY <1>5
<1>. QED BY <1>4, <1>6 DEF F

\* A sum of numbers from 0 to m.
LEMMA SumBounds ==
  ASSUME NEW f, NEW S, IsFiniteSet(S), NEW m \in Nat, \A x \in S : f[x] \in 0 .. m
  PROVE  SumFunctionOnSet(f, S) \in 0 .. Cardinality(S) * m
<1> DEFINE F == {T \in SUBSET S : SumFunctionOnSet(f, T) \in 0 .. Cardinality(T) * m}
<1>1. {} \in F
  BY SumEmpty, FS_EmptySet
<1>2. ASSUME NEW T \in SUBSET S, T # {} PROVE \E x \in T : T \ {x} \in F => T \in F
  <2> DEFINE x == Chosen(T)
  <2>1. x \in T /\ IsFiniteSet(T)
    BY <1>2, ChosenIsElement, FS_Subset
  <2>2. SumFunctionOnSet(f, T) = f[x] + SumFunctionOnSet(f, T \ {x})
    BY <1>2, <2>1, SumChosen
  <2>3. Cardinality(T \ {x}) = Cardinality(T) - 1 /\ Cardinality(T) \in Nat \ {0}
    BY <1>2, <2>1, FS_RemoveElement, FS_CardinalityType, FS_EmptySet
  <2>4. f[x] \in 0 .. m
    BY <2>1
  <2> HIDE DEF x
  <2>5. Cardinality(T) * m = (Cardinality(T) - 1) * m + m
    BY <2>3
  <2>6. ASSUME SumFunctionOnSet(f, T \ {x}) \in 0 .. Cardinality(T \ {x}) * m
        PROVE  SumFunctionOnSet(f, T) \in 0 .. Cardinality(T) * m
    <3>1. (Cardinality(T) - 1) * m \in Int
      BY <2>3
    <3>. QED BY <2>2, <2>3, <2>4, <2>5, <2>6, <3>1
  <2>. QED BY <2>1, <2>6
<1>3. F \in SUBSET SUBSET S
  OBVIOUS
<1> HIDE DEF F
<1>4. F = SUBSET S
  BY <1>1, <1>2, <1>3, AllSubsets
<1>5. S \in F
  BY <1>4
<1>. QED BY <1>5 DEF F

\* The sum of sums.
LEMMA SumAdd ==
  ASSUME NEW f, NEW g, NEW h, NEW S, IsFiniteSet(S),
         \A x \in S : f[x] \in Int /\ g[x] \in Int /\ h[x] = f[x] + g[x]
  PROVE  SumFunctionOnSet(h, S) = SumFunctionOnSet(f, S) + SumFunctionOnSet(g, S)
<1> DEFINE F == {T \in SUBSET S : SumFunctionOnSet(h, T)
                                     = SumFunctionOnSet(f, T) + SumFunctionOnSet(g, T)}
<1>1. {} \in F
  BY SumEmpty
<1>2. ASSUME NEW T \in SUBSET S, T # {} PROVE \E x \in T : T \ {x} \in F => T \in F
  <2> DEFINE x == Chosen(T)
             R == T \ {x}
             a == SumFunctionOnSet(f, R)
             b == SumFunctionOnSet(g, R)
  <2>1. x \in T /\ IsFiniteSet(T) /\ IsFiniteSet(R) /\ R \in SUBSET S
    BY <1>2, ChosenIsElement, FS_Subset
  <2>2. \A y \in T : f[y] \in Int /\ g[y] \in Int /\ h[y] \in Int
    OBVIOUS
  <2>3. /\ SumFunctionOnSet(f, T) = f[x] + a
        /\ SumFunctionOnSet(g, T) = g[x] + b
        /\ SumFunctionOnSet(h, T) = h[x] + SumFunctionOnSet(h, R)
    BY <1>2, <2>1, <2>2, SumChosen
  <2>4. a \in Int /\ b \in Int
    BY <2>1, <2>2, SumType
  <2>5. f[x] \in Int /\ g[x] \in Int /\ h[x] = f[x] + g[x]
    BY <2>1
  <2> HIDE DEF x, a, b
  <2>6. ASSUME SumFunctionOnSet(h, R) = a + b
        PROVE  SumFunctionOnSet(h, T) = SumFunctionOnSet(f, T) + SumFunctionOnSet(g, T)
    <3> DEFINE u == f[x]
               v == g[x]
    <3>1. u \in Int /\ v \in Int /\ h[x] = u + v
      BY <2>5
    <3>2. SumFunctionOnSet(f, T) = u + a /\ SumFunctionOnSet(g, T) = v + b
          /\ SumFunctionOnSet(h, T) = (u + v) + (a + b)
      BY ONLY <2>3, <2>6, <3>1
    <3> HIDE DEF u, v
    <3>3. (u + v) + (a + b) = (u + a) + (v + b)
      BY ONLY <2>4, <3>1
    <3>. QED BY ONLY <3>2, <3>3, Zenon
  <2>7. R \in F => T \in F
    BY <2>6 DEF a, b
  <2>. QED BY <2>1, <2>7
<1>3. F \in SUBSET SUBSET S
  OBVIOUS
<1> HIDE DEF F
<1>4. F = SUBSET S
  BY <1>1, <1>2, <1>3, AllSubsets
<1>5. S \in F
  BY <1>4
<1>. QED BY <1>5 DEF F

\* A factor may be taken out of a sum.
LEMMA SumScaled ==
  ASSUME NEW f, NEW g, NEW c \in Int, NEW S, IsFiniteSet(S),
         \A x \in S : f[x] \in Int /\ g[x] = c * f[x]
  PROVE  SumFunctionOnSet(g, S) = c * SumFunctionOnSet(f, S)
<1> DEFINE F == {T \in SUBSET S : SumFunctionOnSet(g, T) = c * SumFunctionOnSet(f, T)}
<1>1. {} \in F
  BY SumEmpty
<1>2. ASSUME NEW T \in SUBSET S, T # {} PROVE \E x \in T : T \ {x} \in F => T \in F
  <2> DEFINE x == Chosen(T)
             R == T \ {x}
             a == SumFunctionOnSet(f, R)
  <2>1. x \in T /\ IsFiniteSet(T) /\ IsFiniteSet(R) /\ R \in SUBSET S
    BY <1>2, ChosenIsElement, FS_Subset
  <2>2. \A y \in T : f[y] \in Int /\ g[y] \in Int
    OBVIOUS
  <2>3. /\ SumFunctionOnSet(f, T) = f[x] + a
        /\ SumFunctionOnSet(g, T) = g[x] + SumFunctionOnSet(g, R)
    BY <1>2, <2>1, <2>2, SumChosen
  <2>4. a \in Int
    BY <2>1, <2>2, SumType
  <2>5. f[x] \in Int /\ g[x] = c * f[x]
    BY <2>1
  <2> HIDE DEF x, a
  <2>6. ASSUME SumFunctionOnSet(g, R) = c * a
        PROVE  SumFunctionOnSet(g, T) = c * SumFunctionOnSet(f, T)
    <3> DEFINE u == f[x]
    <3>1. u \in Int /\ g[x] = c * u
      BY <2>5
    <3>2. SumFunctionOnSet(f, T) = u + a /\ SumFunctionOnSet(g, T) = c * u + c * a
      BY ONLY <2>3, <2>6, <3>1
    <3> HIDE DEF u
    <3>3. c * u + c * a = c * (u + a)
      BY ONLY <2>4, <3>1
    <3>. QED BY ONLY <3>2, <3>3, Zenon
  <2>7. R \in F => T \in F
    BY <2>6 DEF a
  <2>. QED BY <2>1, <2>7
<1>3. F \in SUBSET SUBSET S
  OBVIOUS
<1> HIDE DEF F
<1>4. F = SUBSET S
  BY <1>1, <1>2, <1>3, AllSubsets
<1>5. S \in F
  BY <1>4
<1>. QED BY <1>5 DEF F

\* A sum over m * K numbers, K of them at a time.
BlockSums(m, K, f, g) ==
  \A k \in 0 .. m - 1 :
    g[k] = SumFunctionOnSet([i \in 0 .. K - 1 |-> f[k * K + i]], 0 .. K - 1)

LEMMA SumByBlocks ==
  ASSUME NEW m \in Nat, NEW K \in Nat \ {0}, NEW f, NEW g,
         \A j \in 0 .. m * K - 1 : f[j] \in Int, BlockSums(m, K, f, g)
  PROVE  SumFunctionOnSet(g, 0 .. m - 1) = SumFunctionOnSet(f, 0 .. m * K - 1)
<1> DEFINE Block(k) == k * K .. k * K + K - 1
           Part(k)  == [i \in 0 .. K - 1 |-> f[k * K + i]]
           Good(q)  == SumFunctionOnSet(g, 0 .. q - 1) = SumFunctionOnSet(f, 0 .. q * K - 1)
           Bad      == {q \in 0 .. m : ~Good(q)}
<1>1. ASSUME NEW k \in 0 .. m - 1
      PROVE  /\ k * K \in Nat /\ Block(k) \subseteq 0 .. m * K - 1
             /\ g[k] = SumFunctionOnSet(f, Block(k)) /\ g[k] \in Int
  <2>1. k * K \in Nat /\ (k + 1) * K <= m * K /\ (k + 1) * K = k * K + K
    BY MulMono, SMT
  <2>2. Block(k) \subseteq 0 .. m * K - 1
    BY <2>1
  <2> DEFINE S == 0 .. K - 1
             T == Block(k)
             h == [i \in S |-> k * K + i]
             p == Part(k)
  <2>3. h \in Bijection(S, T)
    <3> DEFINE z == k * K
    <3>1. z \in Nat
      BY <2>1
    <3> HIDE DEF z
    <3>2. [i \in 0 .. K - 1 |-> z + i] \in Bijection(0 .. K - 1, z .. z + K - 1)
      <4> DEFINE e == [i \in 0 .. K - 1 |-> z + i]
      <4>1. \A i \in 0 .. K - 1 : e[i] \in z .. z + K - 1
        BY <3>1
      <4>2. \A i, j \in 0 .. K - 1 : e[i] = e[j] => i = j
        BY <3>1
      <4>3. \A t \in z .. z + K - 1 : \E i \in 0 .. K - 1 : e[i] = t
        <5> SUFFICES ASSUME NEW t \in z .. z + K - 1 PROVE \E i \in 0 .. K - 1 : e[i] = t
          OBVIOUS
        <5>1. t - z \in 0 .. K - 1 /\ z + (t - z) = t
          BY <3>1
        <5>. QED BY <5>1
      <4>4. e = [i \in 0 .. K - 1 |-> e[i]]
        OBVIOUS
      <4> HIDE DEF e
      <4>5. e \in [0 .. K - 1 -> z .. z + K - 1]
        BY ONLY <4>1, <4>4, SMT
      <4>6. e \in Injection(0 .. K - 1, z .. z + K - 1)
        BY ONLY <4>2, <4>5, Zenon DEF Injection, IsInjective
      <4>7. e \in Surjection(0 .. K - 1, z .. z + K - 1)
        BY ONLY <4>3, <4>5, Zenon DEF Surjection
      <4>. QED BY ONLY <4>6, <4>7, Zenon DEF Bijection, e
    <3>. QED BY <3>2 DEF z
  <2>4. IsFiniteSet(S) /\ IsFiniteSet(T)
    <3> DEFINE z == k * K
    <3>1. z \in Int /\ z + K - 1 \in Int /\ 0 \in Int /\ K - 1 \in Int
      BY <2>1
    <3> HIDE DEF z
    <3>2. IsFiniteSet(z .. z + K - 1) /\ IsFiniteSet(0 .. K - 1)
      BY <3>1, FS_Interval
    <3>. QED BY <3>2 DEF z
  <2>5. \A t \in T : f[t] \in Int
    BY <2>2
  <2>6. \A i \in S : p[i] = f[h[i]]
    OBVIOUS
  <2>7. g[k] = SumFunctionOnSet(p, S)
    BY DEF BlockSums
  <2> HIDE DEF S, T, h, p
  <2>8. SumFunctionOnSet(p, S) = SumFunctionOnSet(f, T)
    BY ONLY <2>3, <2>4, <2>5, <2>6, SumPermuted
  <2>9. SumFunctionOnSet(f, T) \in Int
    BY ONLY <2>4, <2>5, SumType
  <2>. QED BY <2>1, <2>2, <2>7, <2>8, <2>9 DEF T
<1>2. Good(0)
  <2>1. 0 .. 0 - 1 = {} /\ 0 .. 0 * K - 1 = {}
    BY Nothing, SMT
  <2>2. SumFunctionOnSet(g, {}) = 0 /\ SumFunctionOnSet(f, {}) = 0
    BY SumEmpty
  <2>. QED BY <2>1, <2>2
<1>3. ASSUME NEW k \in 0 .. m - 1, Good(k) PROVE Good(k + 1)
  <2> DEFINE A == 0 .. k - 1
             C == 0 .. k * K - 1
             T == Block(k)
  <2>1. k * K \in Nat /\ (k + 1) * K = k * K + K
    BY <1>1, SMT
  <2>2. 0 .. (k + 1) - 1 = A \cup {k} /\ A \cap {k} = {}
    OBVIOUS
  <2>3. 0 .. (k + 1) * K - 1 = C \cup T /\ C \cap T = {}
    <3> DEFINE z == k * K
    <3>1. z \in Nat
      BY <2>1
    <3> HIDE DEF z
    <3>2. 0 .. (z + K) - 1 = (0 .. z - 1) \cup (z .. z + K - 1) /\ (0 .. z - 1) \cap (z .. z + K - 1) = {}
      BY <3>1
    <3>. QED BY <2>1, <3>2 DEF z
  <2>4. /\ \A j \in A \cup {k} : g[j] \in Int
        /\ \A j \in C \cup T : f[j] \in Int
    <3>1. \A j \in A \cup {k} : j \in 0 .. m - 1
      OBVIOUS
    <3>2. C \cup T \subseteq 0 .. m * K - 1
      <4>1. T \subseteq 0 .. m * K - 1
        BY <1>1
      <4>2. k * K <= m * K /\ m * K \in Nat
        BY MulMono
      <4>. QED BY <2>1, <4>1, <4>2
    <3>3. \A j \in A \cup {k} : g[j] \in Int
      BY <1>1, <3>1
    <3> HIDE DEF A, C, T
    <3>. QED BY <3>2, <3>3
  <2>5. IsFiniteSet(A) /\ IsFiniteSet({k}) /\ IsFiniteSet(C) /\ IsFiniteSet(T)
    <3>1. \A x, y \in Int : IsFiniteSet(x .. y)
      BY FS_Interval
    <3>2. k - 1 \in Int /\ k * K - 1 \in Int /\ k * K \in Int /\ k * K + K - 1 \in Int
      BY <2>1
    <3>3. IsFiniteSet({k})
      BY FS_Singleton
    <3>. QED BY ONLY <3>1, <3>2, <3>3
  <2>6. SumFunctionOnSet(g, {k}) = g[k]
    <3> DEFINE S == {k}
    <3>1. IsFiniteSet(S) /\ (\A j \in S : g[j] \in Int) /\ k \in S /\ S \ {k} = {}
      BY <2>4, <2>5
    <3> HIDE DEF S
    <3>2. SumFunctionOnSet(g, S) = g[k] + SumFunctionOnSet(g, S \ {k})
      BY ONLY <3>1, SumRemove
    <3>3. g[k] \in Int /\ SumFunctionOnSet(g, S \ {k}) = 0
      BY <3>1, SumEmpty
    <3>. QED BY <3>2, <3>3 DEF S
  <2>7. g[k] = SumFunctionOnSet(f, T)
    BY <1>1
  <2>8. SumFunctionOnSet(g, A) = SumFunctionOnSet(f, C)
    BY <1>3
  <2> HIDE DEF A, C, T, Block
  <2>9. SumFunctionOnSet(g, A \cup {k}) = SumFunctionOnSet(g, A) + SumFunctionOnSet(g, {k})
    <3> DEFINE B == {k}
    <3>1. IsFiniteSet(A) /\ IsFiniteSet(B) /\ A \cap B = {} /\ \A j \in A \cup B : g[j] \in Int
      BY <2>2, <2>4, <2>5
    <3> HIDE DEF B
    <3>2. SumFunctionOnSet(g, A \cup B) = SumFunctionOnSet(g, A) + SumFunctionOnSet(g, B)
      BY ONLY <3>1, SumUnion
    <3>. QED BY <3>2 DEF B
  <2>10. SumFunctionOnSet(f, C \cup T) = SumFunctionOnSet(f, C) + SumFunctionOnSet(f, T)
    BY ONLY <2>3, <2>4, <2>5, SumUnion
  <2>. QED BY ONLY <2>2, <2>3, <2>6, <2>7, <2>8, <2>9, <2>10, Zenon DEF Good
<1>4. ASSUME Bad # {} PROVE FALSE
  <2>1. Bad \in SUBSET Nat
    OBVIOUS
  <2> HIDE DEF Bad
  <2>2. PICK q \in Bad : \A s \in Bad : q <= s
    BY <1>4, <2>1, LeastNatural
  <2> HIDE DEF Good
  <2>3. q \in 0 .. m /\ ~Good(q)
    BY <2>2 DEF Bad
  <2>4. q # 0
    BY <1>2, <2>3
  <2>5. q - 1 \in 0 .. m - 1 /\ (q - 1) + 1 = q
    BY <2>3, <2>4
  <2>6. q - 1 \notin Bad
    BY <2>2, <2>3
  <2>7. Good(q - 1)
    BY <2>5, <2>6 DEF Bad
  <2>8. \A k \in 0 .. m - 1 : Good(k) => Good(k + 1)
    BY <1>3
  <2>9. Good((q - 1) + 1)
    BY <2>5, <2>7, <2>8
  <2>. QED BY <2>3, <2>5, <2>9
<1>5. Good(m)
  <2>1. m \in 0 .. m
    OBVIOUS
  <2>. QED BY <1>4, <2>1
<1>. QED BY <1>5

\* A sum of equal numbers.
LEMMA SumConstant ==
  ASSUME NEW f, NEW S, IsFiniteSet(S), NEW m \in Int, \A x \in S : f[x] = m
  PROVE  SumFunctionOnSet(f, S) = Cardinality(S) * m
<1> DEFINE F == {T \in SUBSET S : SumFunctionOnSet(f, T) = Cardinality(T) * m}
<1>1. {} \in F
  BY SumEmpty, FS_EmptySet
<1>2. ASSUME NEW T \in SUBSET S, T # {} PROVE \E x \in T : T \ {x} \in F => T \in F
  <2> DEFINE x == Chosen(T)
  <2>1. x \in T /\ IsFiniteSet(T)
    BY <1>2, ChosenIsElement, FS_Subset
  <2>2. SumFunctionOnSet(f, T) = f[x] + SumFunctionOnSet(f, T \ {x})
    BY <1>2, <2>1, SumChosen
  <2>3. Cardinality(T \ {x}) = Cardinality(T) - 1 /\ Cardinality(T) \in Nat \ {0}
    BY <1>2, <2>1, FS_RemoveElement, FS_CardinalityType, FS_EmptySet
  <2>4. f[x] = m
    BY <2>1
  <2> HIDE DEF x
  <2>5. Cardinality(T) * m = (Cardinality(T) - 1) * m + m
    BY <2>3
  <2>6. ASSUME SumFunctionOnSet(f, T \ {x}) = Cardinality(T \ {x}) * m
        PROVE  SumFunctionOnSet(f, T) = Cardinality(T) * m
    <3>1. (Cardinality(T) - 1) * m \in Int
      BY <2>3
    <3>. QED BY <2>2, <2>3, <2>4, <2>5, <2>6, <3>1
  <2>. QED BY <2>1, <2>6
<1>3. F \in SUBSET SUBSET S
  OBVIOUS
<1> HIDE DEF F
<1>4. F = SUBSET S
  BY <1>1, <1>2, <1>3, AllSubsets
<1>5. S \in F
  BY <1>4
<1>. QED BY <1>5 DEF F

=============================================================================
