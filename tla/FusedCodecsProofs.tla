-------------------------- MODULE FusedCodecsProofs ------------------------
(***************************************************************************)
(* What the decoders of the fused codecs rely on, for every width, window  *)
(* and length, and what a session with them gives: the anchors the kernels *)
(* add are those of the word's window, they have been unpacked by then,    *)
(* each packed block is decoded once, the words behind the values are the  *)
(* sum; and what is stored does not depend on what is left in the scratch  *)
(* arrays.                                                                 *)
(***************************************************************************)
EXTENDS FusedCodecs, Foundations

\* What a quotient and its remainder are.
LEMMA DivBounds ==
  ASSUME NEW a \in Nat, NEW p \in Nat \ {0}
  PROVE  a \div p \in Nat /\ (a \div p) * p <= a /\ a < (a \div p) * p + p
BY SMT

\* A quotient is known by a remainder below the divisor.
LEMMA DivUnique ==
  ASSUME NEW p \in Nat \ {0}, NEW q \in Nat, NEW r \in Nat, r < p
  PROVE  (q * p + r) \div p = q
<1> DEFINE a == q * p + r
<1> DEFINE d == a \div p
<1>1. a \in Nat
  BY MulMono, SMT
<1>2. d \in Nat /\ d * p <= a /\ a < d * p + p
  BY <1>1, DivBounds
<1>3. CASE d < q
  <2>1. (d + 1) * p <= q * p /\ (d + 1) * p = d * p + p
    BY <1>2, <1>3, MulMono, SMT
  <2>. QED BY <2>1, <1>2, SMT
<1>4. CASE d > q
  <2>1. (q + 1) * p <= d * p /\ (q + 1) * p = q * p + p
    BY <1>2, <1>4, MulMono, SMT
  <2>. QED BY <2>1, <1>2, SMT
<1>. QED BY <1>2, <1>3, <1>4

\* Division as an operator, which the provers instantiate more readily.
Quot(a, p) == a \div p

LEMMA DivSplit ==
  ASSUME NEW a \in Nat, NEW p \in Nat \ {0}
  PROVE  \E q, r \in Nat : a = q * p + r /\ r < p /\ a \div p = q /\ a % p = r
<1>1. a \div p \in Nat /\ a % p \in Nat /\ a = (a \div p) * p + (a % p) /\ (a % p) < p
  BY SMT
<1>. QED BY <1>1

\* A multiple of the divisor goes into the quotient.
LEMMA DivShift ==
  ASSUME NEW n \in Nat, NEW a \in Nat, NEW p \in Nat \ {0}, NEW b, b = n * p + a
  PROVE  Quot(b, p) = n + Quot(a, p)
<1>1. PICK q \in Nat, r \in Nat : a = q * p + r /\ r < p /\ a \div p = q
  BY DivSplit
<1>2. b = (n + q) * p + r
  BY <1>1, SMT
<1>3. b \div p = n + q
  BY <1>1, <1>2, DivUnique
<1>. QED BY <1>1, <1>3 DEF Quot

\* Dividing by a product is dividing twice.
LEMMA DivNested ==
  ASSUME NEW a \in Nat, NEW p \in Nat \ {0}, NEW g \in Nat \ {0}, NEW w, w = g * p
  PROVE  Quot(a, w) = Quot(Quot(a, p), g)
<1>1. PICK x \in Nat, t \in Nat : a = x * p + t /\ t < p /\ a \div p = x
  BY DivSplit
<1>2. PICK q \in Nat, r \in Nat : x = q * g + r /\ r < g /\ x \div g = q
  BY DivSplit
<1>3. r * p \in Nat /\ r * p + p <= g * p
  <2>1. (r + 1) * p <= g * p /\ r * p \in Nat
    BY <1>2, MulMono
  <2>. QED BY <1>2, <2>1, SMT
<1>4. a = q * (g * p) + (r * p + t) /\ r * p + t \in Nat /\ r * p + t < g * p
  <2>1. x * p = q * (g * p) + r * p
    BY <1>2, SMT
  <2>. QED BY <1>1, <1>3, <2>1, SMT
<1>5. g * p \in Nat \ {0}
  BY <1>3, SMT
<1>6. a \div w = q
  BY <1>4, <1>5, DivUnique
<1>. QED BY <1>1, <1>2, <1>6 DEF Quot

\* Rounding up to whole blocks stays within a whole number of blocks.
LEMMA CeilFits ==
  ASSUME NEW a \in Nat, NEW q \in Nat, NEW p \in Nat \ {0}, a <= q * p
  PROVE  CeilDiv(a, p) \in Nat /\ CeilDiv(a, p) * p <= q * p
<1> DEFINE d == (a + p - 1) \div p
<1>1. a + p - 1 \in Nat
  OBVIOUS
<1>2. d \in Nat /\ d * p <= a + p - 1
  BY <1>1, DivBounds
<1>3. d <= q
  <2>1. CASE d > q
    <3>1. (q + 1) * p <= d * p /\ (q + 1) * p = q * p + p
      BY <1>2, <2>1, MulMono, SMT
    <3>. QED BY <3>1, <1>2, SMT
  <2>. QED BY <1>2, <2>1
<1>. QED BY <1>2, <1>3, MulMono DEF CeilDiv

----------------------------------------------------------------------------
(* The kernels of decode_block *)

\* What the windows of the constructors, all powers of two, are to the packed
\* blocks and registers: whole blocks, whole registers, or parts of a register.
NestedIn(K, L, w) ==
  \/ \E m \in Nat \ {0} : w = m * K
  \/ \E m, g \in Nat \ {0} : K = m * w /\ w = g * L /\ w < K
  \/ \E m, g \in Nat \ {0} : K = m * L /\ L = g * w /\ w < L

Nested(c, w) == NestedIn(c.kBlk, c.lanes, w)

\* A kernel is told the window of the block's first word and picks the anchors
\* of its registers and lanes from there: decode_block adds to each word the
\* anchor of the window that build_corrections subtracted.
THEOREM KernelsAddTheWindowsAnchor ==
  ASSUME NEW c, NEW w \in Nat \ {0}, NEW k \in Nat,
         c.kBlk \in Nat \ {0}, c.lanes \in Nat \ {0}, Nested(c, w),
         NEW i \in 0 .. c.kBlk - 1
  PROVE  AnchorOf(c, w, k, i) = (k * c.kBlk + i) \div w
<1>1. ASSUME NEW K \in Nat \ {0}, NEW L \in Nat \ {0}, K = c.kBlk, L = c.lanes
      PROVE  AnchorOf(c, w, k, i) = (k * K + i) \div w
  <2>0. i \in Nat /\ i < K /\ k * K \in Nat /\ k * K + i \in Nat
    BY <1>1, MulMono, SMT
  <2>i. i \in Nat
    BY <1>1, SMT
  <2>1. ASSUME NEW m \in Nat \ {0}, w = m * K
        PROVE  AnchorOf(c, w, k, i) = (k * K + i) \div w
    <3>1. (k * K + i) \div K = k /\ (k * K + 0) \div K = k
      BY <2>0, DivUnique
    <3>2. (k * K + i) \div w = k \div m /\ (k * K) \div w = k \div m
      <4>1. Quot(k * K + i, w) = Quot(Quot(k * K + i, K), m)
        BY <2>0, <2>1, DivNested
      <4>2. Quot(k * K, w) = Quot(Quot(k * K, K), m)
        BY <2>0, <2>1, DivNested
      <4>3. Quot(k * K, K) = k /\ Quot(k * K + i, K) = k
        BY <2>0, <3>1, SMT DEF Quot
      <4>. QED BY <4>1, <4>2, <4>3, Zenon DEF Quot
    <3>3. w >= K
      <4>1. 1 * K <= m * K
        BY MulMono
      <4>. QED BY <2>1, <4>1
    <3>. QED BY <1>1, <3>2, <3>3 DEF AnchorOf
  <2>2. ASSUME NEW m \in Nat \ {0}, NEW g \in Nat \ {0}, K = m * w, w = g * L, w < K
        PROVE  AnchorOf(c, w, k, i) = (k * K + i) \div w
    <3>1. \E n \in Nat : n = k * m /\ k * K = n * w
      BY <2>2, SMT
    <3>n. PICK n \in Nat : n = k * m /\ k * K = n * w
      BY <3>1
    <3>2. (k * K + i) \div w = n + i \div w
      <4>1. k * K + i = n * w + i
        BY <3>n
      <4>2. \A b : b = n * w + i => Quot(b, w) = n + Quot(i, w)
        BY <2>i, DivShift
      <4>3. Quot(k * K + i, w) = n + Quot(i, w)
        BY <4>1, <4>2, Zenon
      <4>. QED BY <4>3 DEF Quot
    <3>3. (k * K) \div w = n
      <4>1. (n * w + 0) \div w = n
        BY DivUnique
      <4>. QED BY <3>n, <4>1, SMT
    <3>4. i \div w = (i \div L) \div g
      <4>1. Quot(i, w) = Quot(Quot(i, L), g)
        BY <2>0, <2>2, DivNested
      <4>. QED BY <4>1, Zenon DEF Quot
    <3>5. w \div L = g /\ w >= L
      <4>1. (g * L + 0) \div L = g /\ 1 * L <= g * L
        BY DivUnique, MulMono
      <4>. QED BY <2>2, <4>1
    <3>6. ~(w >= K)
      BY <2>2
    <3>. QED BY <1>1, <3>2, <3>3, <3>4, <3>5, <3>6 DEF AnchorOf
  <2>3. ASSUME NEW m \in Nat \ {0}, NEW g \in Nat \ {0}, K = m * L, L = g * w, w < L
        PROVE  AnchorOf(c, w, k, i) = (k * K + i) \div w
    <3>1. PICK x \in Nat, t \in Nat : i = x * L + t /\ i \div L = x /\ i % L = t
      BY <2>0, DivSplit
    <3>2. /\ \E n \in Nat : n = (k * m) * g /\ k * K = n * w
          /\ \E y \in Nat : y = x * g /\ x * L = y * w
      BY <2>3, <3>1, SMT
    <3>t. t \in Nat
      OBVIOUS
    <3>n. PICK n \in Nat : n = (k * m) * g /\ k * K = n * w
      BY <3>2
    <3>y. PICK y \in Nat : y = x * g /\ x * L = y * w
      BY <3>2
    <3>3. (k * K + i) \div w = n + i \div w
      <4>1. k * K + i = n * w + i
        BY <3>n
      <4>2. \A b : b = n * w + i => Quot(b, w) = n + Quot(i, w)
        BY <2>i, DivShift
      <4>3. Quot(k * K + i, w) = n + Quot(i, w)
        BY <4>1, <4>2, Zenon
      <4>. QED BY <4>3 DEF Quot
    <3>4. i \div w = y + t \div w
      <4>1. i = y * w + t
        BY <3>1, <3>y
      <4>2. \A b : b = y * w + t => Quot(b, w) = y + Quot(t, w)
        BY <3>t, DivShift
      <4>3. Quot(i, w) = y + Quot(t, w)
        BY <4>1, <4>2, Zenon
      <4>. QED BY <4>3 DEF Quot
    <3>5. (k * K) \div w = n
      <4>1. (n * w + 0) \div w = n
        BY DivUnique
      <4>. QED BY <3>n, <4>1, SMT
    <3>6. L \div w = g
      <4>1. (g * w + 0) \div w = g
        BY DivUnique
      <4>. QED BY <2>3, <4>1
    <3>7. ~(w >= K) /\ ~(w >= L)
      <4>1. 1 * L <= m * L
        BY MulMono
      <4>. QED BY <2>3, <4>1
    <3>8. t \div w \in Nat
      BY <3>1, DivBounds
    <3>9. AnchorOf(c, w, k, i) = n + y + t \div w
      BY <1>1, <3>1, <3>y, <3>5, <3>6, <3>7 DEF AnchorOf
    <3>. QED BY <3>3, <3>4, <3>8, <3>9
  <2>. QED BY <1>1, <2>1, <2>2, <2>3 DEF Nested, NestedIn
<1>. QED BY <1>1

----------------------------------------------------------------------------
(* What is stored *)

\* The scratch arrays of a thread, whatever is in them.
Shaped(s) ==
  /\ s = [anchor |-> s.anchor, res |-> s.res]
  /\ DOMAIN s.anchor = 0 .. ScratchLen - 1
  /\ DOMAIN s.res = 0 .. ScratchLen - 1

\* A block that is cut out below m is the same of two arrays that agree there.
LEMMA ChunkAgrees ==
  ASSUME NEW f, NEW g, NEW p \in Nat \ {0}, NEW blks \in Nat, NEW ab \in 0 .. blks - 1,
         \A i \in 0 .. blks * p - 1 : f[i] = g[i]
  PROVE  \A i \in 0 .. p - 1 : f[ab * p + i] = g[ab * p + i]
<1>. SUFFICES ASSUME NEW i \in 0 .. p - 1
              PROVE  f[ab * p + i] = g[ab * p + i]
  OBVIOUS
<1>1. (ab + 1) * p <= blks * p /\ ab * p \in Nat /\ blks * p \in Nat
  BY MulMono, SMT
<1>2. (ab + 1) * p = ab * p + p
  BY SMT
<1>3. ab * p + i \in 0 .. blks * p - 1
  BY <1>1, <1>2, SMT
<1>. QED BY <1>3, Zenon

\* The padded anchors of a block have room where the block has.
LEMMA AnchorsHaveRoom ==
  ASSUME NEW c, NEW n \in Nat, Accepts(c, n), n <= ScratchLen,
         c.kBlk \in Nat \ {0}, c.window \in Nat \ {0}
  PROVE  /\ NumAnchors(c, n) \in Nat /\ AnchorBlks(c, n) \in Nat
         /\ AnchorBlks(c, n) * c.kBlk \in Nat
         /\ AnchorBlks(c, n) * c.kBlk <= ScratchLen
<1>1. ASSUME NEW K \in Nat \ {0}, K = c.kBlk, NEW W \in Nat \ {0}, W = Window(c, n)
      PROVE  /\ NumAnchors(c, n) \in Nat /\ AnchorBlks(c, n) \in Nat
             /\ AnchorBlks(c, n) * K \in Nat /\ AnchorBlks(c, n) * K <= ScratchLen
  <2>1. PICK q \in Nat : n = q * K
    <3>1. PICK q, r \in Nat : n = q * K + r /\ n % K = r
      BY DivSplit
    <3>. QED BY <1>1, <3>1, SMT DEF Accepts
  <2>2. n \div W \in Nat /\ n \div W <= n
    <3>1. n \div W \in Nat /\ (n \div W) * W <= n
      BY DivBounds
    <3>2. W * (n \div W) >= 1 * (n \div W)
      BY <3>1, MulMono, SMT
    <3>. QED BY <3>1, <3>2, SMT
  <2>3. NumAnchors(c, n) \in Nat /\ NumAnchors(c, n) <= q * K
    BY <1>1, <2>1, <2>2 DEF NumAnchors
  <2>4. /\ CeilDiv(NumAnchors(c, n), K) \in Nat
        /\ CeilDiv(NumAnchors(c, n), K) * K <= q * K
    BY <2>3, CeilFits
  <2>5. AnchorBlks(c, n) = CeilDiv(NumAnchors(c, n), K)
    BY <1>1 DEF AnchorBlks
  <2>6. AnchorBlks(c, n) * K \in Nat
    BY <2>4, <2>5, MulMono
  <2>. QED BY <2>1, <2>3, <2>4, <2>5, <2>6, ScratchAssumption, SMT
<1>2. Window(c, n) \in Nat \ {0}
  BY DEF Window, Accepts
<1>. QED BY <1>1, <1>2

\* EncodeArray stores the same whatever the call before left in the arrays.
LEMMA CodeOfAnyScratch ==
  ASSUME NEW c, NEW b, NEW s, NEW t, Shaped(s), Shaped(t),
         b.n \in Nat, b.n <= ScratchLen, Accepts(c, b.n),
         c.kBlk \in Nat \ {0}, c.window \in Nat \ {0}
  PROVE  Code(c, b, s) = Code(c, b, t)
<1> DEFINE K == c.kBlk
           blks == AnchorBlks(c, b.n)
<1>1. /\ NumAnchors(c, b.n) \in Nat /\ blks \in Nat
      /\ blks * K \in Nat /\ blks * K <= ScratchLen
  BY AnchorsHaveRoom
<1>0. NumAnchors(c, b.n) \in Nat
  BY <1>1
<1>2. ASSUME c.anchors = "packed", NEW ab \in 0 .. blks - 1
      PROVE  AnchorChunk(c, AnchorsIn(c, b, s.anchor), ab)
             = AnchorChunk(c, AnchorsIn(c, b, t.anchor), ab)
  <2> DEFINE f == AnchorsIn(c, b, s.anchor)
             g == AnchorsIn(c, b, t.anchor)
  <2>1. \A i \in 0 .. blks * K - 1 : f[i] = g[i]
    <3>1. /\ f = Overwrite(s.anchor, LocalAnchors(c, b), NumAnchors(c, b.n), blks * K)
          /\ g = Overwrite(t.anchor, LocalAnchors(c, b), NumAnchors(c, b.n), blks * K)
      BY <1>2, Zenon DEF AnchorsIn
    <3>2. DOMAIN s.anchor = 0 .. ScratchLen - 1 /\ DOMAIN t.anchor = 0 .. ScratchLen - 1
      BY DEF Shaped
    <3>3. \A m \in Nat : m <= ScratchLen => \A i \in 0 .. m - 1 :
            Overwrite(s.anchor, LocalAnchors(c, b), NumAnchors(c, b.n), m)[i]
            = Overwrite(t.anchor, LocalAnchors(c, b), NumAnchors(c, b.n), m)[i]
      BY <1>0, <3>2, ScratchAssumption, SMT DEF Overwrite
    <3>. HIDE DEF f, g, blks, K
    <3>. QED BY <1>1, <3>1, <3>3, Zenon
  <2>. HIDE DEF f, g
  <2>2. \A i \in 0 .. K - 1 : f[ab * K + i] = g[ab * K + i]
    <3>1. K \in Nat \ {0} /\ blks \in Nat /\ ab \in 0 .. blks - 1
      BY <1>1, <1>2
    <3>. HIDE DEF K, blks
    <3>. QED BY ONLY <2>1, <3>1, ChunkAgrees
  <2>. HIDE DEF K
  <2>3. {f[ab * K + i] : i \in 0 .. K - 1} = {g[ab * K + i] : i \in 0 .. K - 1}
    BY <2>2, Zenon
  <2>4. \A bits : [i \in 0 .. K - 1 |-> f[ab * K + i] % 2 ^ bits]
                   = [i \in 0 .. K - 1 |-> g[ab * K + i] % 2 ^ bits]
    BY <2>2, Zenon
  <2>. QED BY <2>3, <2>4, Zenon DEF AnchorChunk, SimdPack, K, f, g
<1>3. ASSUME c.anchors = "hier", NEW ab \in 0 .. blks - 1
      PROVE  DistanceChunk(c, b, s.res, ab) = DistanceChunk(c, b, t.res, ab)
  <2> DEFINE f == DistancesIn(c, b, s.res)
             g == DistancesIn(c, b, t.res)
  <2>1. \A i \in 0 .. blks * K - 1 : f[i] = g[i]
    <3>1. /\ f = Overwrite(s.res, Distances(c, b), NumAnchors(c, b.n), blks * K)
          /\ g = Overwrite(t.res, Distances(c, b), NumAnchors(c, b.n), blks * K)
      BY Zenon DEF DistancesIn
    <3>2. DOMAIN s.res = 0 .. ScratchLen - 1 /\ DOMAIN t.res = 0 .. ScratchLen - 1
      BY DEF Shaped
    <3>3. \A m \in Nat : m <= ScratchLen => \A i \in 0 .. m - 1 :
            Overwrite(s.res, Distances(c, b), NumAnchors(c, b.n), m)[i]
            = Overwrite(t.res, Distances(c, b), NumAnchors(c, b.n), m)[i]
      BY <1>0, <3>2, ScratchAssumption, SMT DEF Overwrite
    <3>. HIDE DEF f, g, blks, K
    <3>. QED BY <1>1, <3>1, <3>3, Zenon
  <2>. HIDE DEF f, g
  <2>2. \A i \in 0 .. K - 1 : f[ab * K + i] = g[ab * K + i]
    <3>1. K \in Nat \ {0} /\ blks \in Nat /\ ab \in 0 .. blks - 1
      BY <1>1, <1>3
    <3>. HIDE DEF K, blks
    <3>. QED BY ONLY <2>1, <3>1, ChunkAgrees
  <2>. HIDE DEF K
  <2>3. \A bits : [i \in 0 .. K - 1 |-> f[ab * K + i] % 2 ^ bits]
                   = [i \in 0 .. K - 1 |-> g[ab * K + i] % 2 ^ bits]
    BY <2>2, Zenon
  <2>. QED BY <2>3, Zenon DEF DistanceChunk, SimdPack, K, f, g
<1>4. AnchorRegion(c, b, s) = AnchorRegion(c, b, t)
  BY <1>2, <1>3, Zenon DEF AnchorRegion
<1>. QED BY <1>4, Zenon DEF Code

----------------------------------------------------------------------------
(* The classes *)

\* What the decoders need of a class.
Sound(c) ==
  /\ {c.kBlk, c.lanes, c.window, c.outer} \subseteq Nat \ {0}
  /\ Nested(c, c.window)
  /\ c.anchors \in {"none", "raw", "packed", "hier"}
  /\ c.scratch \in Areas
  /\ c.delta # "none" => c.anchors = "none" /\ c.agg = "unpack"
  /\ c.gate = "none" /\ c.agg = "madd" => c.anchors = "none"
  /\ c.gate \in {"none", "values"} \/ (c.gate = "residuals" /\ c.nobc /\ c.anchors # "none")
  /\ c.nobc /\ c.pfor => c.ahead

\* A multiple as a product.
LEMMA Factor ==
  ASSUME NEW a \in Nat \ {0}, NEW p \in Nat \ {0}, a % p = 0
  PROVE  \E m \in Nat \ {0} : a = m * p /\ m = a \div p
<1>1. a \div p \in Nat /\ a = (a \div p) * p + 0
  BY Division
<1>2. (a \div p) * p \in Nat
  BY <1>1, MulMono
<1>3. a \div p # 0
  BY <1>1, Nothing, SMT
<1>4. a = (a \div p) * p
  BY <1>1, <1>2
<1>. QED BY <1>1, <1>3, <1>4

\* The windows of WindowsAssumption nest in blocks and registers.
LEMMA NestsIn ==
  ASSUME NEW K \in Nat \ {0}, NEW L \in Nat \ {0}, NEW r \in Nat \ {0}, K = r * L,
         NEW w \in Nat \ {0}, w % K = 0 \/ (K % w = 0 /\ w % L = 0) \/ L % w = 0
  PROVE  NestedIn(K, L, w)
<1>0. L <= K
  <2>1. 1 * L <= r * L
    BY MulMono
  <2>. QED BY <2>1
<1>1. \A m \in Nat \ {0} : w = m * K => NestedIn(K, L, w)
  BY DEF NestedIn
<1>2. \A m, g \in Nat \ {0} : K = m * w /\ w = g * L /\ w < K => NestedIn(K, L, w)
  BY DEF NestedIn
<1>3. \A m, g \in Nat \ {0} : K = m * L /\ L = g * w /\ w < L => NestedIn(K, L, w)
  BY DEF NestedIn
<1>5. w = 1 * w /\ 1 \in Nat \ {0}
  OBVIOUS
<1>6. w = K => NestedIn(K, L, w)
  BY <1>1, <1>5
<1>7. \A m \in Nat \ {0} : K = m * w => w <= K
  <2> SUFFICES ASSUME NEW m \in Nat \ {0}, K = m * w PROVE w <= K
    OBVIOUS
  <2>1. 1 * w <= m * w
    BY MulMono
  <2>. QED BY <2>1
<1>8. \A m \in Nat \ {0} : L = m * w => w <= L
  <2> SUFFICES ASSUME NEW m \in Nat \ {0}, L = m * w PROVE w <= L
    OBVIOUS
  <2>1. 1 * w <= m * w
    BY MulMono
  <2>. QED BY <2>1
<1>10. CASE w % K = 0
  <2>1. \E m \in Nat \ {0} : w = m * K
    BY <1>10, Factor
  <2>. QED BY <1>1, <2>1
<1>11. CASE K % w = 0 /\ w % L = 0
  <2>1. (\E m \in Nat \ {0} : K = m * w) /\ (\E g \in Nat \ {0} : w = g * L)
    BY <1>11, Factor
  <2>2. w <= K
    BY <1>7, <2>1
  <2>3. w < K => NestedIn(K, L, w)
    BY <1>2, <2>1
  <2>. QED BY <1>6, <2>2, <2>3
<1>12. CASE L % w = 0
  <2>1. \E g \in Nat \ {0} : L = g * w
    BY <1>12, Factor
  <2>2. w <= L
    BY <1>8, <2>1
  <2>3. w < L => NestedIn(K, L, w)
    BY <1>3, <2>1
  <2>4. w = L /\ w < K => NestedIn(K, L, w)
    <3>1. w = L => K = r * w /\ w = 1 * L
      BY <1>5
    <3>. QED BY <1>2, <1>5, <3>1
  <2>. QED BY <1>0, <1>6, <2>2, <2>3, <2>4
<1>. QED BY <1>10, <1>11, <1>12

\* A window is what it has to be to the blocks and registers.
LEMMA WindowsNest ==
  ASSUME NEW c, NEW w \in Windows, c.lanes \in {Lanes128, Lanes256}, c.kBlk = OutRegs * c.lanes
  PROVE  /\ c.kBlk \in Nat \ {0} /\ c.lanes \in Nat \ {0} /\ w \in Nat \ {0}
         /\ Nested(c, w)
<1> DEFINE L == c.lanes
           K == c.kBlk
<1>1. L \in Nat \ {0} /\ OutRegs \in Nat \ {0} /\ K = OutRegs * L
  BY LanesAssumption
<1>3. w \in Nat \ {0} /\ (w % (OutRegs * L) = 0 \/ ((OutRegs * L) % w = 0 /\ w % L = 0) \/ L % w = 0)
  BY WindowsAssumption
<1>4. NestedIn(K, L, w) /\ K \in Nat \ {0}
  <2> HIDE DEF K, L
  <2>1. K \in Nat \ {0}
    <3>1. 1 * L <= OutRegs * L
      BY <1>1, MulMono
    <3>. QED BY <1>1, <3>1
  <2>. QED BY <1>1, <1>3, <2>1, NestsIn
<1>. QED BY <1>1, <1>3, <1>4 DEF Nested

\* The fields of a class without anchors.
LEMMA PlainSound ==
  ASSUME NEW lanes \in {Lanes128, Lanes256}
  PROVE  LET c == Plain(lanes)
         IN  /\ c.kBlk \in Nat \ {0} /\ c.lanes = lanes /\ lanes \in Nat \ {0}
             /\ c.kBlk = OutRegs * lanes /\ c.window = c.kBlk /\ c.outer = c.kBlk
             /\ Nested(c, c.kBlk)
<1> DEFINE c == Plain(lanes)
           K == OutRegs * lanes
<1>1. lanes \in Nat \ {0} /\ OutRegs \in Nat \ {0}
  BY LanesAssumption
<1>2. K \in Nat \ {0}
  <2>1. 1 * lanes <= OutRegs * lanes
    BY <1>1, MulMono
  <2>. QED BY <1>1, <2>1
<1>3. c.kBlk = K /\ c.lanes = lanes /\ c.window = K /\ c.outer = K
  BY DEF Plain
<1> HIDE DEF K, c
<1>4. K = 1 * K /\ 1 \in Nat \ {0}
  BY <1>2
<1>5. NestedIn(K, lanes, K)
  BY <1>4 DEF NestedIn
<1>6. Nested(c, c.kBlk)
  BY <1>3, <1>5 DEF Nested
<1>. QED BY <1>1, <1>2, <1>3, <1>6 DEF K, c

\* Frame of reference, by simdcomp or TurboPFor.
LEMMA ForSound ==
  ASSUME NEW lanes \in {Lanes128, Lanes256}, NEW w \in Windows, NEW sep \in BOOLEAN,
         NEW agg \in Aggs, NEW nobc \in BOOLEAN, NEW area \in Areas
  PROVE  /\ Sound(FusedFor(lanes, w, sep, agg, nobc, area))
         /\ \A k \in BOOLEAN : Sound(Turbo(FusedFor(lanes, w, sep, agg, nobc, area), k))
<1> DEFINE p == Plain(lanes)
           c == FusedFor(lanes, w, sep, agg, nobc, area)
<1>1. /\ p.kBlk \in Nat \ {0} /\ p.lanes = lanes /\ lanes \in Nat \ {0}
      /\ p.kBlk = OutRegs * lanes /\ p.outer = p.kBlk
  BY PlainSound
<1>2. w \in Nat \ {0} /\ Nested(p, w)
  BY <1>1, WindowsNest
<1>3. c.kBlk = p.kBlk /\ c.lanes = p.lanes /\ c.window = w /\ c.outer = p.outer
      /\ c.anchors \in {"raw", "packed"} /\ c.delta = "none" /\ c.gate = "values" /\ c.scratch = area
      /\ c.pfor = FALSE
  BY DEF FusedFor, Plain
<1>4. ASSUME NEW k \in BOOLEAN
      PROVE  LET t == Turbo(c, k)
             IN  t.kBlk = c.kBlk /\ t.lanes = c.lanes /\ t.window = c.window /\ t.outer = c.outer
                 /\ t.anchors = c.anchors /\ t.delta = c.delta /\ t.scratch = area
                 /\ t.ahead = TRUE /\ t.nobc = k
                 /\ t.gate = IF k THEN "residuals" ELSE "values"
  BY <1>3 DEF Turbo, FusedFor, Plain
<1> HIDE DEF c, p
<1>5. Nested(c, c.window)
  BY <1>2, <1>3 DEF Nested
<1>6. Sound(c)
  BY <1>1, <1>2, <1>3, <1>5 DEF Sound
<1>7. ASSUME NEW k \in BOOLEAN PROVE Sound(Turbo(c, k))
  <2>1. Nested(Turbo(c, k), Turbo(c, k).window)
    BY <1>4, <1>5 DEF Nested
  <2>2. {c.kBlk, c.lanes, c.window, c.outer} \subseteq Nat \ {0}
    BY <1>6 DEF Sound
  <2> DEFINE t == Turbo(c, k)
  <2>3. t.kBlk = c.kBlk /\ t.lanes = c.lanes /\ t.window = c.window /\ t.outer = c.outer
        /\ t.anchors = c.anchors /\ t.delta = c.delta /\ t.scratch = area
    BY <1>4
  <2>4. t.ahead = TRUE /\ t.nobc = k /\ t.gate = IF k THEN "residuals" ELSE "values"
    BY <1>4
  <2> HIDE DEF t
  <2>5. t.gate # "none" /\ (t.gate \in {"none", "values"} \/ (t.gate = "residuals" /\ t.nobc))
    <3>1. CASE k = TRUE
      BY <2>4, <3>1
    <3>2. CASE k = FALSE
      BY <2>4, <3>2
    <3>. QED BY <3>1, <3>2
  <2>6. t.ahead
    BY <2>4
  <2>7. /\ {t.kBlk, t.lanes, t.window, t.outer} \subseteq Nat \ {0}
        /\ t.anchors \in {"none", "raw", "packed", "hier"} /\ t.anchors # "none"
        /\ t.scratch \in Areas /\ t.delta = "none"
    BY <1>3, <2>2, <2>3
  <2>8. Nested(t, t.window)
    BY <2>1 DEF t
  <2>9. Sound(t)
    BY ONLY <2>5, <2>6, <2>7, <2>8, Zenon DEF Sound
  <2>. QED BY <2>9 DEF t
<1>. QED BY <1>6, <1>7 DEF c

\* Hierarchical frame of reference, by both.
LEMMA HierSound ==
  ASSUME NEW lanes \in {Lanes128, Lanes256}, NEW p \in Nestings,
         NEW agg \in Aggs, NEW area \in Areas
  PROVE  /\ Sound(Hierarchical(lanes, p[1], p[2], agg, area))
         /\ \A k \in BOOLEAN : Sound(Turbo(Hierarchical(lanes, p[1], p[2], agg, area), k))
<1> DEFINE W == p[1]
           w == p[2]
           b == FusedFor(lanes, w, FALSE, agg, FALSE, area)
           c == Hierarchical(lanes, W, w, agg, area)
<1>1. W \in Nat \ {0} /\ w \in Windows
  BY WindowsAssumption DEF Nestings
<1>2. Sound(b)
  BY <1>1, ForSound
<1>3. c.kBlk = b.kBlk /\ c.lanes = b.lanes /\ c.window = b.window /\ c.outer = W
      /\ c.anchors = "hier" /\ c.delta = "none" /\ c.gate = "values" /\ c.scratch = area
      /\ c.pfor = FALSE
  BY DEF Hierarchical, FusedFor, Plain
<1>4. ASSUME NEW k \in BOOLEAN
      PROVE  LET t == Turbo(c, k)
             IN  t.kBlk = c.kBlk /\ t.lanes = c.lanes /\ t.window = c.window /\ t.outer = c.outer
                 /\ t.anchors = c.anchors /\ t.delta = c.delta /\ t.scratch = area
                 /\ t.ahead = TRUE /\ t.nobc = k
                 /\ t.gate = IF k THEN "residuals" ELSE "values"
  BY <1>3 DEF Turbo, Hierarchical, FusedFor, Plain
<1> HIDE DEF b, c, W
<1>5. Nested(c, c.window)
  BY <1>2, <1>3 DEF Nested, Sound
<1>6. Sound(c)
  BY <1>1, <1>2, <1>3, <1>5 DEF Sound
<1>7. ASSUME NEW k \in BOOLEAN PROVE Sound(Turbo(c, k))
  <2>1. Nested(Turbo(c, k), Turbo(c, k).window)
    BY <1>4, <1>5 DEF Nested
  <2>2. {c.kBlk, c.lanes, c.window, c.outer} \subseteq Nat \ {0}
    BY <1>6 DEF Sound
  <2>. QED BY <1>3, <1>4, <2>1, <2>2 DEF Sound
<1>. QED BY <1>6, <1>7 DEF c, W

\* Every class that the program builds, or keeps for experiments, is sound.
LEMMA ClassesAreSound ==
  ASSUME NEW c \in Collection \cup Experiments
  PROVE  Sound(c)
<1>1. ASSUME NEW lanes \in {Lanes128, Lanes256}, NEW d,
             d.kBlk = OutRegs * lanes, d.lanes = lanes, d.window = OutRegs * lanes,
             d.outer = OutRegs * lanes, d.anchors = "none", d.scratch = "none",
             d.delta # "none" => d.agg = "unpack", d.gate \in {"none", "values"}, d.nobc = FALSE
      PROVE  Sound(d)
  <2>1. LET p == Plain(lanes)
        IN  /\ p.kBlk \in Nat \ {0} /\ p.lanes = lanes /\ lanes \in Nat \ {0}
            /\ p.kBlk = OutRegs * lanes /\ Nested(p, p.kBlk)
    BY PlainSound
  <2>2. Nested(d, d.window)
    BY <1>1, <2>1 DEF Nested
  <2>. QED BY <1>1, <2>1, <2>2 DEF Sound, Areas
<1>2. ASSUME NEW d, NEW w \in Windows,
             d.kBlk = w, d.window = w, d.lanes = Lanes256,
             d.outer \in {w, OutRegs * Lanes256}, d.anchors \in {"none", "raw"}, d.scratch = "none",
             d.delta = "none", d.gate = "none", d.agg = "unpack", d.nobc = FALSE
      PROVE  Sound(d)
  <2>1. w \in Nat \ {0} /\ Lanes256 \in Nat \ {0}
    BY WindowsAssumption, LanesAssumption
  <2>2. OutRegs * Lanes256 \in Nat \ {0}
    <3>1. Lanes256 \in {Lanes128, Lanes256}
      OBVIOUS
    <3>2. LET p == Plain(Lanes256)
          IN  p.kBlk \in Nat \ {0} /\ p.kBlk = OutRegs * Lanes256
      BY <3>1, PlainSound
    <3>. QED BY <3>2
  <2>3. NestedIn(w, Lanes256, w)
    <3>1. w = 1 * w /\ 1 \in Nat \ {0}
      BY <2>1
    <3>. QED BY <3>1 DEF NestedIn
  <2>4. Nested(d, d.window)
    BY <1>2, <2>3 DEF Nested
  <2>. QED BY <1>2, <2>1, <2>2, <2>4 DEF Sound, Areas
<1>3. CASE c \in {SimdCompFusedCodecU16, SimdCompFusedCodecU16_128, TurboPForFusedCodecU16,
                  TurboPForFused256CodecU16, SimdCompFusedDeltaLocalCodecU16,
                  SimdCompFusedDeltaCarryCodecU16, FastPForFusedCodecU16,
                  FastPForFusedCorrectedDeltaLocalCodecU16,
                  FastPForFusedCorrectedDeltaCarryCodecU16}
  <2>1. ASSUME NEW lanes \in {Lanes128, Lanes256},
               \/ c = [Plain(lanes) EXCEPT !.agg = "madd", !.gate = "values"]
               \/ c = [Plain(lanes) EXCEPT !.pfor = TRUE]
               \/ c = [Plain(lanes) EXCEPT !.delta = "local"]
               \/ c = [Plain(lanes) EXCEPT !.delta = "carry"]
               \/ c = [[Plain(lanes) EXCEPT !.pfor = TRUE] EXCEPT !.delta = "local"]
               \/ c = [[Plain(lanes) EXCEPT !.pfor = TRUE] EXCEPT !.delta = "carry"]
        PROVE  Sound(c)
    <3>1. /\ c.kBlk = OutRegs * lanes /\ c.lanes = lanes /\ c.window = OutRegs * lanes
          /\ c.outer = OutRegs * lanes /\ c.anchors = "none" /\ c.scratch = "none"
          /\ c.nobc = FALSE
      BY <2>1 DEF Plain
    <3>2. (c.delta # "none" => c.agg = "unpack") /\ c.gate \in {"none", "values"}
      BY <2>1 DEF Plain
    <3>. QED BY <1>1, <3>1, <3>2
  <2>2. Lanes128 \in {Lanes128, Lanes256} /\ Lanes256 \in {Lanes128, Lanes256}
    OBVIOUS
  <2>. QED BY <1>3, <2>1, <2>2, Zenon
           DEF SimdCompFusedCodecU16, SimdCompFusedCodecU16_128, TurboPForFusedCodecU16,
               TurboPForFused256CodecU16, SimdCompFusedDeltaLocalCodecU16,
               SimdCompFusedDeltaCarryCodecU16, FastPForFusedCodecU16,
               FastPForFusedCorrectedDeltaLocalCodecU16,
               FastPForFusedCorrectedDeltaCarryCodecU16
<1>4. ASSUME NEW agg \in Aggs, c = TurboPForFused256VariantCodecU16(agg) PROVE Sound(c)
  <2>1. /\ c.kBlk = OutRegs * Lanes256 /\ c.lanes = Lanes256 /\ c.window = OutRegs * Lanes256
        /\ c.outer = OutRegs * Lanes256 /\ c.anchors = "none" /\ c.scratch = "none"
        /\ c.delta = "none" /\ c.gate = "none" /\ c.nobc = FALSE
    BY <1>4 DEF TurboPForFused256VariantCodecU16, TurboPForFused256CodecU16, Plain
  <2>. QED BY <1>1, <2>1
<1>5. ASSUME NEW w \in Windows,
             \/ c = SimdCompFusedForGlobalCodecU16(w)
             \/ c = FastPForFusedCorrectedCodecU16(w)
             \/ c = FastPForFusedCorrectedForGlobalCodecU16(w)
      PROVE  Sound(c)
  <2>1. /\ c.kBlk = w /\ c.window = w /\ c.lanes = Lanes256
        /\ c.outer \in {w, OutRegs * Lanes256} /\ c.anchors \in {"none", "raw"} /\ c.scratch = "none"
        /\ c.delta = "none" /\ c.gate = "none" /\ c.agg = "unpack" /\ c.nobc = FALSE
    BY <1>5 DEF SimdCompFusedForGlobalCodecU16, FastPForFusedCorrectedCodecU16,
                FastPForFusedCorrectedForGlobalCodecU16, FastPForFusedCodecU16, Plain
  <2>. QED BY <1>2, <2>1
<1>6. CASE c \in {SimdCompFusedForLocalCodecU16, SimdCompFusedForHierarchicalCodecU16}
  <2> DEFINE K == OutRegs * Lanes256
  <2>1. /\ c.kBlk = K /\ c.lanes = Lanes256 /\ c.window = Lanes256 /\ c.outer = K
        /\ c.anchors \in {"raw", "hier"} /\ c.scratch = "none" /\ c.delta = "none"
        /\ c.gate = "none" /\ c.agg = "unpack" /\ c.nobc = FALSE
    BY <1>6 DEF SimdCompFusedForLocalCodecU16, SimdCompFusedForHierarchicalCodecU16, Plain
  <2>2. K \in Nat \ {0} /\ Lanes256 \in Nat \ {0} /\ OutRegs \in Nat \ {0}
    <3>1. Lanes256 \in {Lanes128, Lanes256}
      OBVIOUS
    <3>2. LET p == Plain(Lanes256)
          IN  p.kBlk \in Nat \ {0} /\ p.kBlk = OutRegs * Lanes256
      BY <3>1, PlainSound
    <3>. QED BY <3>2, LanesAssumption
  <2>3. Lanes256 % Lanes256 = 0
    <3>1. Lanes256 = 1 * Lanes256 + 0
      BY <2>2
    <3>. QED BY <2>2, <3>1, QuotientOf
  <2>4. NestedIn(K, Lanes256, Lanes256)
    BY <2>2, <2>3, NestsIn
  <2> HIDE DEF K
  <2>5. Nested(c, c.window)
    BY <2>1, <2>4 DEF Nested
  <2>. QED BY <2>1, <2>2, <2>5 DEF Sound, Areas
<1>7. ASSUME NEW w \in Windows, NEW sep \in BOOLEAN, NEW agg \in Aggs, NEW nobc \in BOOLEAN,
             \/ c = SimdCompFusedForCodecU16_128(w, sep, agg, nobc)
             \/ c = SimdCompFusedForCodecU16_256(w, sep, agg, nobc)
             \/ c = TurboPForFusedForCodecU16(w, sep, agg, nobc)
      PROVE  Sound(c)
  BY <1>7, ForSound DEF SimdCompFusedForCodecU16_128, SimdCompFusedForCodecU16_256,
                        TurboPForFusedForCodecU16, Areas
<1>8. ASSUME NEW p \in Nestings, NEW agg \in Aggs,
             \/ c = SimdCompFusedForHierarchicalCodecU16_128(p[1], p[2], agg)
             \/ c = SimdCompFusedForHierarchicalCodecU16_256(p[1], p[2], agg)
             \/ \E nobc \in BOOLEAN :
                  c = TurboPForFusedForHierarchicalCodecU16(p[1], p[2], agg, nobc)
      PROVE  Sound(c)
  BY <1>8, HierSound DEF SimdCompFusedForHierarchicalCodecU16_128,
                         SimdCompFusedForHierarchicalCodecU16_256,
                         TurboPForFusedForHierarchicalCodecU16, Areas
<1>9. c \in Collection => Sound(c)
  <2>1. c \in {SimdCompFusedCodecU16, SimdCompFusedCodecU16_128,
               TurboPForFusedCodecU16, TurboPForFused256CodecU16} => Sound(c)
    BY <1>3
  <2>2. c \in {TurboPForFused256VariantCodecU16(agg) : agg \in Aggs} => Sound(c)
    BY <1>4
  <2>3. /\ c \in {SimdCompFusedForCodecU16_128(w, sep, agg, nobc) :
                  w \in Windows, sep \in BOOLEAN, agg \in Aggs, nobc \in BOOLEAN} => Sound(c)
        /\ c \in {SimdCompFusedForCodecU16_256(w, sep, agg, nobc) :
                  w \in Windows, sep \in BOOLEAN, agg \in Aggs, nobc \in BOOLEAN} => Sound(c)
        /\ c \in {TurboPForFusedForCodecU16(w, sep, agg, nobc) :
                  w \in Windows, sep \in BOOLEAN, agg \in Aggs, nobc \in BOOLEAN} => Sound(c)
    BY <1>7
  <2>4. /\ c \in {SimdCompFusedForHierarchicalCodecU16_128(p[1], p[2], agg) :
                  p \in Nestings, agg \in Aggs} => Sound(c)
        /\ c \in {SimdCompFusedForHierarchicalCodecU16_256(p[1], p[2], agg) :
                  p \in Nestings, agg \in Aggs} => Sound(c)
        /\ c \in {TurboPForFusedForHierarchicalCodecU16(p[1], p[2], agg, nobc) :
                  p \in Nestings, agg \in Aggs, nobc \in BOOLEAN} => Sound(c)
    BY <1>8
  <2>. HIDE DEF Sound
  <2>. QED BY ONLY <2>1, <2>2, <2>3, <2>4, SMT DEF Collection
<1>10. c \in Experiments => Sound(c)
  <2>1. c \in {SimdCompFusedDeltaLocalCodecU16, SimdCompFusedDeltaCarryCodecU16,
               SimdCompFusedForLocalCodecU16, SimdCompFusedForHierarchicalCodecU16,
               FastPForFusedCodecU16, FastPForFusedCorrectedDeltaLocalCodecU16,
               FastPForFusedCorrectedDeltaCarryCodecU16} => Sound(c)
    BY <1>3, <1>6
  <2>. QED BY <1>5, <2>1, Zenon DEF Experiments
<1>. QED BY <1>9, <1>10

----------------------------------------------------------------------------
(* Words *)

LEMMA WordSizeType == WordSize \in Nat \ {0} /\ WordSize = 2 * Half /\ Half \in Nat \ {0}
BY HalfAssumption DEF WordSize

LEMMA Remainder ==
  ASSUME NEW x \in Nat, NEW p \in Nat \ {0}, x < p
  PROVE  x % p = x
<1>1. x = 0 * p + x /\ x \in 0 .. p - 1
  OBVIOUS
<1>. QED BY <1>1, QuotientOf

\* Wrapped sums and differences are words.
LEMMA MinusType ==
  ASSUME NEW x \in Int, NEW y \in Int
  PROVE  Minus(x, y) \in Word /\ Plus(x, y) \in Word
<1>1. \A z \in Int : z % WordSize \in 0 .. WordSize - 1
  BY WordSizeType, QuotientRemainder
<1>. QED BY <1>1 DEF Minus, Plus, Word

LEMMA MinusOfLess ==
  ASSUME NEW x \in Word, NEW y \in Word, y <= x
  PROVE  Minus(x, y) = x - y
<1>1. x - y \in Nat /\ x - y < WordSize
  BY WordSizeType DEF Word
<1>2. (x - y) % WordSize = x - y
  BY <1>1, WordSizeType, Remainder
<1>. QED BY <1>2 DEF Minus

\* What is added again was subtracted.
LEMMA PlusMinus ==
  ASSUME NEW x \in Word, NEW y \in Int
  PROVE  Plus(Minus(x, y), y) = x
<1> DEFINE M == WordSize
           d == x - y
           q == d \div M
           r == d % M
<1>1. M \in Nat \ {0} /\ d \in Int /\ x \in 0 .. M - 1
  BY WordSizeType DEF Word
<1> HIDE DEF M
<1>2. q \in Int /\ r \in 0 .. M - 1 /\ d = M * q + r
  BY <1>1, QuotientRemainder
<1> HIDE DEF q, r
<1>3. r + y = M * (-q) + x
  BY <1>1, <1>2
<1>4. (M * (-q) + x) % M = x
  <2>1. -q \in Int
    BY <1>2
  <2>. QED BY <1>1, <2>1, QuotientUnique
<1>5. (r + y) % M = x
  BY <1>3, <1>4
<1>. QED BY <1>5 DEF Plus, Minus, M, r

\* A zigzag difference is a word, and comes back.
LEMMA Zigzag ==
  ASSUME NEW d \in Word
  PROVE  ZigzagEnc16(d) \in Word /\ ZigzagDec16(ZigzagEnc16(d)) = d
<1> DEFINE e == ZigzagEnc16(d)
<1>0. WordSize = 2 * Half /\ Half \in Nat \ {0} /\ d \in 0 .. 2 * Half - 1
  BY WordSizeType DEF Word
<1>1. CASE d < Half
  <2>1. e = 2 * d
    BY <1>1 DEF ZigzagEnc16
  <2>2. e = d * 2 + 0 /\ 0 \in 0 .. 2 - 1
    BY <1>0, <2>1
  <2>3. e \div 2 = d /\ e % 2 = 0
    BY <1>0, <2>2, QuotientOf
  <2>4. e \in 0 .. 2 * Half - 1
    BY <1>0, <1>1, <2>1
  <2> HIDE DEF e
  <2>5. ZigzagDec16(e) = d
    BY <2>3 DEF ZigzagDec16
  <2>. QED BY <1>0, <2>4, <2>5 DEF e, Word
<1>2. CASE ~(d < Half)
  <2>1. e = 2 * (2 * Half - d) - 1
    BY <1>0, <1>2 DEF ZigzagEnc16
  <2> DEFINE k == 2 * Half - d - 1
  <2>2. e = k * 2 + 1 /\ 1 \in 0 .. 2 - 1 /\ k \in Nat /\ k < Half
    BY <1>0, <1>2, <2>1
  <2>3. e \div 2 = k /\ e % 2 = 1
    BY <2>2, QuotientOf
  <2>4. e \in 0 .. 2 * Half - 1
    BY <1>0, <2>2
  <2>5. 2 * Half - 1 - k = d
    BY <1>0
  <2> HIDE DEF e, k
  <2>6. ZigzagDec16(e) = d
    BY <1>0, <2>3, <2>5 DEF ZigzagDec16
  <2>. QED BY <1>0, <2>4, <2>6 DEF e, Word
<1>. QED BY <1>1, <1>2

----------------------------------------------------------------------------
(* Packing *)

\* A word is below the power of two that bits_u16 finds.
LEMMA BitsSuffice ==
  ASSUME NEW v \in Word
  PROVE  BitsU16(v) \in 0 .. WordBits /\ v < 2 ^ BitsU16(v)
<1> DEFINE T == {k \in 0 .. WordBits : v < 2 ^ k}
<1>0. v \in Nat /\ v < WordSize
  BY WordSizeType DEF Word
<1>1. WordBits \in T /\ T \in SUBSET Nat
  BY <1>0, BitsAssumption
<1>2. PICK k \in T : \A j \in T : k <= j
  <2> HIDE DEF T
  <2>1. T # {}
    BY <1>1
  <2>. QED BY <1>1, <2>1, LeastNatural
<1>3. \A j \in 0 .. k - 1 : v >= 2 ^ j
  <2> SUFFICES ASSUME NEW j \in 0 .. k - 1 PROVE v >= 2 ^ j
    OBVIOUS
  <2>1. j \in 0 .. WordBits /\ j < k
    BY BitsAssumption
  <2>2. j \notin T
    BY <1>2, <2>1
  <2>3. ~(v < 2 ^ j)
    BY <2>1, <2>2
  <2>4. 2 ^ j \in Nat
    BY <2>1, BitsAssumption
  <2>. QED BY <1>0, <2>3, <2>4
<1>4. \E m \in 0 .. WordBits : v < 2 ^ m /\ \A j \in 0 .. m - 1 : v >= 2 ^ j
  BY <1>2, <1>3
<1>. QED BY <1>4 DEF BitsU16

\* No bit is lost of words that are packed in as many bits as the largest has.
LEMMA PackedKept ==
  ASSUME NEW vs \in SUBSET Word, IsFiniteSet(vs), NEW x \in vs
  PROVE  x % 2 ^ MaxBits(vs) = x
<1> DEFINE m == Max(vs)
           k == BitsU16(m)
<1>1. vs \in SUBSET Int /\ vs # {}
  BY WordSizeType DEF Word
<1>2. m \in vs /\ x <= m
  BY <1>1, MaxIsGreatest
<1>3. m \in Word
  BY <1>2
<1>4. k \in 0 .. WordBits /\ m < 2 ^ k
  BY <1>3, BitsSuffice
<1>5. 2 ^ k \in Nat \ {0}
  BY <1>4, BitsAssumption
<1>6. x \in Nat /\ m \in Nat
  BY <1>3, WordSizeType DEF Word
<1> HIDE DEF m, k
<1>7. x < 2 ^ k
  BY <1>2, <1>4, <1>5, <1>6
<1>8. x % 2 ^ k = x
  BY <1>5, <1>6, <1>7, Remainder
<1>. QED BY <1>8 DEF MaxBits, k, m

\* A PFor library keeps whole words.
LEMMA WholeWordsKept == ASSUME NEW x \in Word PROVE x % 2 ^ WordBits = x
<1>1. x \in Nat /\ x < WordSize /\ WordSize \in Nat \ {0}
  BY WordSizeType DEF Word
<1>2. x % WordSize = x
  BY <1>1, Remainder
<1>. QED BY <1>2, BitsAssumption

----------------------------------------------------------------------------
(* Where a word is *)

\* A block that an object may be given.
Fits(c, b) ==
  /\ Sound(c)
  /\ b.n \in Nat /\ b.n <= ScratchLen
  /\ b.v \in [0 .. b.n - 1 -> Word]
  /\ Accepts(c, b.n)

\* Where j is when n places are cut into pieces of p.
LEMMA Cut ==
  ASSUME NEW n \in Nat, NEW p \in Nat \ {0}, n % p = 0, NEW j \in 0 .. n - 1
  PROVE  /\ n \div p \in Nat /\ n = (n \div p) * p
         /\ j \div p \in 0 .. (n \div p) - 1 /\ (j % p) \in 0 .. p - 1
         /\ j = (j \div p) * p + (j % p)
         /\ (j \div p) * p \in Nat /\ (j \div p) * p + p <= n
<1>1. n \div p \in Nat /\ n = (n \div p) * p
  <2>1. n \div p \in Nat /\ n = (n \div p) * p + (n % p)
    BY Division
  <2>2. (n \div p) * p \in Nat
    BY <2>1, MulMono
  <2>. QED BY <2>1, <2>2
<1>2. j \in Nat /\ j \div p \in Nat /\ (j % p) \in 0 .. p - 1 /\ j = (j \div p) * p + (j % p)
  <2>1. j \in Nat
    OBVIOUS
  <2>. QED BY <2>1, Division
<1> DEFINE q == j \div p
           N == n \div p
<1>3. q \in Nat /\ N \in Nat /\ n = N * p /\ (j % p) \in 0 .. p - 1 /\ j = q * p + (j % p)
  BY <1>1, <1>2
<1> HIDE DEF q, N
<1>4. q * p \in Nat /\ N * p \in Nat
  BY <1>3, MulMono
<1>5. q < N
  <2>1. q * p < N * p
    <3>1. q * p <= j /\ j < n
      BY <1>3, <1>4
    <3>. QED BY <1>3, <1>4, <3>1
  <2>. QED BY <1>3, <2>1, MulCancel
<1>6. q * p + p <= n
  <2>1. (q + 1) * p <= N * p
    BY <1>3, <1>5, MulMono
  <2>2. (q + 1) * p = q * p + p
    BY <1>3
  <2>. QED BY <1>3, <2>1, <2>2
<1>. QED BY <1>1, <1>2, <1>3, <1>4, <1>5, <1>6 DEF q, N

\* The windows of a call, shrunk to the length of a shorter block, still nest.
LEMMA WindowOf ==
  ASSUME NEW c, NEW n \in Nat, Sound(c), Accepts(c, n)
  PROVE  /\ n > 0 /\ n % c.kBlk = 0 /\ c.kBlk \in Nat \ {0} /\ c.lanes \in Nat \ {0}
         /\ Window(c, n) \in Nat \ {0} /\ Window(c, n) <= n
         /\ Outer(c, n) \in Nat \ {0} /\ Outer(c, n) <= n
         /\ Nested(c, Window(c, n))
<1> DEFINE K == c.kBlk
<1>1. c.kBlk \in Nat \ {0} /\ c.lanes \in Nat \ {0} /\ c.window \in Nat \ {0} /\ c.outer \in Nat \ {0}
      /\ Nested(c, c.window)
  BY DEF Sound
<1>2. n > 0 /\ n % c.kBlk = 0
  BY DEF Accepts
<1>3. /\ Window(c, n) \in Nat \ {0} /\ Window(c, n) <= n
      /\ Outer(c, n) \in Nat \ {0} /\ Outer(c, n) <= n
  BY <1>1, <1>2 DEF Window, Outer
<1>4. Nested(c, n)
  <2>1. \E m \in Nat \ {0} : n = m * K
    <3>1. K \in Nat \ {0} /\ n \in Nat \ {0} /\ n % K = 0
      BY <1>1, <1>2
    <3> HIDE DEF K
    <3>2. \A a, p \in Nat \ {0} : a % p = 0 => \E m \in Nat \ {0} : a = m * p
      BY Factor
    <3>. QED BY ONLY <3>1, <3>2
  <2>. QED BY <2>1 DEF Nested, NestedIn
<1>5. Nested(c, Window(c, n))
  BY <1>1, <1>4 DEF Window
<1>. QED BY <1>1, <1>2, <1>3, <1>5

\* A block is whole windows, and an outer window whole inner ones.
LEMMA WindowCuts ==
  ASSUME NEW c, NEW n \in Nat, Sound(c), Accepts(c, n), HasAnchors(c)
  PROVE  n % Window(c, n) = 0
BY DEF Accepts

LEMMA OuterCuts ==
  ASSUME NEW c, NEW n \in Nat, Sound(c), Accepts(c, n), c.anchors = "hier"
  PROVE  /\ n % Outer(c, n) = 0 /\ Ratio(c, n) \in Nat \ {0}
         /\ Outer(c, n) = Ratio(c, n) * Window(c, n)
<1>1. n % Outer(c, n) = 0 /\ Outer(c, n) % Window(c, n) = 0
  BY DEF Accepts
<1>2. Outer(c, n) \in Nat \ {0} /\ Window(c, n) \in Nat \ {0}
  BY WindowOf
<1>3. \E m \in Nat \ {0} : Outer(c, n) = m * Window(c, n) /\ m = Outer(c, n) \div Window(c, n)
  BY <1>1, <1>2, Factor
<1>. QED BY <1>1, <1>3 DEF Ratio

\* The least of a part of the block is one of its words.
LEMMA LeastOfPart ==
  ASSUME NEW b, b.n \in Nat, b.v \in [0 .. b.n - 1 -> Word],
         NEW lo \in Nat, NEW w \in Nat \ {0}, lo + w <= b.n
  PROVE  /\ MinIn(b, lo, w) \in Word
         /\ \A i \in lo .. lo + w - 1 : MinIn(b, lo, w) <= b.v[i]
<1> DEFINE I == lo .. lo + w - 1
           S == {b.v[i] : i \in I}
<1>1. I \subseteq 0 .. b.n - 1 /\ lo \in I
  OBVIOUS
<1>2. S \subseteq Word /\ S \in SUBSET Int /\ S # {}
  <2>1. \A i \in I : b.v[i] \in Word
    BY <1>1
  <2>2. Word \subseteq Int
    BY WordSizeType DEF Word
  <2>. QED BY <1>1, <2>1, <2>2
<1>3. IsFiniteSet(S)
  <2>1. IsFiniteSet(I)
    <3>1. lo \in Int /\ lo + w - 1 \in Int
      OBVIOUS
    <3>. QED BY <3>1, FS_Interval
  <2> HIDE DEF I
  <2>. QED BY <2>1, FiniteImage
<1>4. \A i \in I : b.v[i] \in S
  OBVIOUS
<1>5. MinIn(b, lo, w) = Min(S)
  BY DEF MinIn
<1> HIDE DEF S, I
<1>6. Min(S) \in S /\ \A y \in S : Min(S) <= y
  BY <1>2, <1>3, MinIsLeast
<1>. QED BY <1>2, <1>4, <1>5, <1>6 DEF I

\* The anchor of a window is a word of it, and the window is in the block.
LEMMA AnchorOfWindow ==
  ASSUME NEW c, NEW b, Fits(c, b), HasAnchors(c)
  PROVE  /\ NumAnchors(c, b.n) \in Nat \ {0} /\ b.n = NumAnchors(c, b.n) * Window(c, b.n)
         /\ \A a \in 0 .. NumAnchors(c, b.n) - 1 : Anchor(c, b, a) \in Word
         /\ \A j \in 0 .. b.n - 1 :
              /\ j \div Window(c, b.n) \in 0 .. NumAnchors(c, b.n) - 1
              /\ Anchor(c, b, j \div Window(c, b.n)) <= b.v[j]
<1> DEFINE n == b.n
           w == Window(c, b.n)
           N == NumAnchors(c, b.n)
<1>1. n \in Nat /\ n > 0 /\ w \in Nat \ {0} /\ n % w = 0
  BY WindowOf, WindowCuts DEF Fits
<1>2. N = n \div w
  BY DEF NumAnchors
<1>3. b.v \in [0 .. n - 1 -> Word]
  BY DEF Fits
<1>4. \A a : Anchor(c, b, a) = MinIn(b, a * w, w)
  BY DEF Anchor
<1>5. b.n = n
  OBVIOUS
<1> HIDE DEF n, w, N
<1>6. 0 \in 0 .. n - 1
  BY <1>1
<1>7. N \in Nat /\ n = N * w
  BY <1>1, <1>2, <1>6, Cut
<1>8. N # 0
  BY <1>1, <1>7, Nothing
<1>9. ASSUME NEW a \in 0 .. N - 1
      PROVE  /\ a * w \in Nat /\ a * w + w <= n
             /\ Anchor(c, b, a) \in Word
             /\ \A i \in a * w .. a * w + w - 1 : Anchor(c, b, a) <= b.v[i]
  <2>1. a * w \in Nat /\ (a + 1) * w <= N * w /\ (a + 1) * w = a * w + w
    BY <1>1, <1>7, MulMono, SMT
  <2>2. a * w + w <= n
    BY <1>7, <2>1
  <2>3. /\ MinIn(b, a * w, w) \in Word
        /\ \A i \in a * w .. a * w + w - 1 : MinIn(b, a * w, w) <= b.v[i]
    BY <1>1, <1>3, <1>5, <2>1, <2>2, LeastOfPart
  <2>. QED BY <1>4, <2>1, <2>2, <2>3
<1>10. ASSUME NEW j \in 0 .. n - 1
       PROVE  j \div w \in 0 .. N - 1 /\ Anchor(c, b, j \div w) <= b.v[j]
  <2> DEFINE q == j \div w
             r == j % w
  <2>1. q \in 0 .. N - 1 /\ r \in 0 .. w - 1 /\ j = q * w + r /\ q * w \in Nat
    BY <1>1, <1>2, Cut
  <2> HIDE DEF q, r
  <2>2. j \in q * w .. q * w + w - 1
    BY <1>1, <2>1
  <2>3. Anchor(c, b, q) <= b.v[j]
    BY <1>9, <2>1, <2>2
  <2>. QED BY <2>1, <2>3 DEF q
<1>. QED BY <1>5, <1>7, <1>8, <1>9, <1>10 DEF w, N

----------------------------------------------------------------------------
(* The anchors come back *)

\* Each local anchor lies in an outer window of the block.
LEMMA GlobalOfAnchor ==
  ASSUME NEW c, NEW b, Fits(c, b), c.anchors = "hier", NEW a \in 0 .. NumAnchors(c, b.n) - 1
  PROVE  /\ a \div Ratio(c, b.n) \in 0 .. NumOuter(c, b.n) - 1
         /\ Global(c, b, a \div Ratio(c, b.n)) \in Word
<1> DEFINE n == b.n
           w == Window(c, b.n)
           W == Outer(c, b.n)
           r == Ratio(c, b.n)
           g == a \div Ratio(c, b.n)
           G == NumOuter(c, b.n)
           N == NumAnchors(c, b.n)
<1>1. HasAnchors(c) /\ Sound(c) /\ Accepts(c, b.n) /\ n \in Nat
  BY DEF HasAnchors, Fits
<1>2. n \in Nat /\ n > 0 /\ w \in Nat \ {0} /\ W \in Nat \ {0}
  BY <1>1, WindowOf
<1>3. n % W = 0 /\ r \in Nat \ {0} /\ W = r * w
  BY <1>1, OuterCuts
<1>4. N \in Nat \ {0} /\ n = N * w
  BY <1>1, AnchorOfWindow
<1>5. G = n \div W
  BY DEF NumOuter
<1>6. Global(c, b, g) = MinIn(b, g * W, W)
  BY DEF Global
<1>7. b.v \in [0 .. n - 1 -> Word] /\ b.n = n
  BY DEF Fits
<1>8. a \in 0 .. N - 1 /\ g = a \div r
  OBVIOUS
<1> HIDE DEF n, w, W, r, g, G, N
<1>9. a \in Nat /\ a * w \in Nat /\ a * w + w <= n
  <2>1. a \in Nat /\ a + 1 <= N
    BY <1>4, <1>8
  <2>2. (a + 1) * w <= N * w /\ (a + 1) * w = a * w + w /\ a * w \in Nat
    BY <1>2, <1>4, <2>1, MulMono, SMT
  <2>. QED BY <1>4, <2>1, <2>2
<1>10. 0 \in 0 .. n - 1
  BY <1>2
<1>11. a \in Nat /\ g \in Nat /\ a % r \in 0 .. r - 1 /\ a = g * r + (a % r)
  <2>1. a \div r \in Nat /\ a % r \in 0 .. r - 1 /\ a = (a \div r) * r + (a % r)
    BY <1>3, <1>9, Division
  <2>. QED BY <1>8, <1>9, <2>1
<1>12. G \in Nat /\ n = G * W
  <2>1. ASSUME NEW x \in Nat, NEW y \in 0 .. x - 1, NEW p \in Nat \ {0}, x % p = 0
        PROVE  x \div p \in Nat /\ x = (x \div p) * p
    BY <2>1, Cut
  <2>. QED BY <1>2, <1>3, <1>5, <1>10, <2>1, Zenon
<1>13. g < G
  <2>1. g * r <= a
    <3>1. g * r \in Nat
      BY <1>3, <1>11, MulMono
    <3>. QED BY <1>3, <1>11, <3>1
  <2>2. (g * r) * w <= a * w
    <3>1. g * r \in Nat
      BY <1>3, <1>11, MulMono
    <3>. QED BY <1>2, <1>9, <2>1, <3>1, MulMono
  <2>3. (g * r) * w = g * W
    BY <1>2, <1>3, <1>11, SMT
  <2>4. g * W < G * W
    <3>1. g * W \in Nat /\ G * W \in Nat
      BY <1>2, <1>11, <1>12, MulMono
    <3>. QED BY <1>2, <1>9, <1>12, <2>2, <2>3, <3>1
  <2>. QED BY <1>2, <1>11, <1>12, <2>4, MulCancel
<1>14. g * W \in Nat /\ g * W + W <= n
  <2>1. (g + 1) * W <= G * W /\ (g + 1) * W = g * W + W /\ g * W \in Nat
    BY <1>2, <1>11, <1>12, <1>13, MulMono, SMT
  <2>. QED BY <1>12, <2>1
<1>15. MinIn(b, g * W, W) \in Word
  BY <1>2, <1>7, <1>14, LeastOfPart
<1>16. g \in 0 .. G - 1
  BY <1>11, <1>12, <1>13
<1>. QED BY <1>6, <1>15, <1>16 DEF g, G

LEMMA Multiple ==
  ASSUME NEW m \in Nat, NEW K \in Nat \ {0}
  PROVE  m * K \in Nat /\ (m * K) % K = 0 /\ (m * K) \div K = m
<1>1. m * K \in Nat
  BY MulMono
<1>2. m * K = m * K + 0 /\ 0 \in 0 .. K - 1
  BY <1>1
<1>3. (m * K) \div K = m /\ (m * K) % K = 0
  BY <1>2, QuotientOf
<1>. QED BY <1>1, <1>3

\* Word a of f when K words at a time are packed in so many bits: its low bits.
ComesBack(K, f, bits, a) ==
  SimdPack(f, (a \div K) * K, K, bits).v[a % K] = f[a] % 2 ^ bits

LEMMA ChunkKept ==
  ASSUME NEW f, NEW n \in Nat, NEW K \in Nat \ {0}, n % K = 0, NEW a \in 0 .. n - 1,
         NEW bits
  PROVE  ComesBack(K, f, bits, a)
<1> DEFINE ab == a \div K
           i  == a % K
<1>1. i \in 0 .. K - 1 /\ ab * K + i = a
  BY Cut
<1>2. ComesBack(K, f, bits, a) <=> SimdPack(f, ab * K, K, bits).v[i] = f[a] % 2 ^ bits
  BY DEF ComesBack
<1> HIDE DEF ab, i
<1>3. SimdPack(f, ab * K, K, bits).v[i] = f[ab * K + i] % 2 ^ bits
  BY <1>1 DEF SimdPack
<1>. QED BY <1>1, <1>2, <1>3

\* What is packed in chunks with a width of their own.
Chunk(K, f, ab) == SimdPack(f, ab * K, K, MaxBits({f[ab * K + i] : i \in 0 .. K - 1}))

\* It loses nothing of word a.
Kept(K, f, a) == Chunk(K, f, a \div K).v[a % K] = f[a]

LEMMA ChunkLosesNothing ==
  ASSUME NEW f, NEW K \in Nat \ {0}, NEW n \in Nat, n % K = 0,
         \A j \in 0 .. n - 1 : f[j] \in Word, NEW a \in 0 .. n - 1
  PROVE  Kept(K, f, a)
<1> DEFINE ab == a \div K
           i == a % K
           vs == {f[ab * K + k] : k \in 0 .. K - 1}
           m == n \div K
<1>1. ab \in 0 .. m - 1 /\ i \in 0 .. K - 1 /\ ab * K + i = a
  BY Cut
<1>2. SimdPack(f, ab * K, K, MaxBits(vs)).v[i] = f[a] % 2 ^ MaxBits(vs)
  <2> DEFINE bits == MaxBits(vs)
  <2> HIDE DEF bits
  <2>1. ComesBack(K, f, bits, a)
    BY ChunkKept, Zenon
  <2> HIDE DEF vs
  <2>. QED BY ONLY <2>1, Zenon DEF ComesBack, ab, i, bits
<1>3. Chunk(K, f, ab) = SimdPack(f, ab * K, K, MaxBits(vs))
  BY DEF Chunk
<1>4. vs \in SUBSET Word
  <2> SUFFICES ASSUME NEW k \in 0 .. K - 1 PROVE f[ab * K + k] \in Word
    OBVIOUS
  <2>1. m \in Nat /\ n = m * K
    BY Cut
  <2> HIDE DEF ab, m
  <2>2. ab \in Nat /\ ab + 1 \in Nat /\ ab + 1 <= m
    BY <1>1, <2>1
  <2>3. ab * K \in Nat /\ (ab + 1) * K <= m * K /\ (ab + 1) * K = ab * K + K
    BY <2>1, <2>2, MulMono, SMT
  <2>4. ab * K + k \in 0 .. n - 1
    BY <2>1, <2>3
  <2>. QED BY <2>4
<1>5. f[a] \in vs
  BY <1>1
<1>6. IsFiniteSet(vs)
  <2> DEFINE h == [k \in 0 .. K - 1 |-> f[ab * K + k]]
             I == 0 .. K - 1
  <2>1. vs = {h[k] : k \in I}
    OBVIOUS
  <2>2. IsFiniteSet(I)
    <3>1. 0 \in Int /\ K - 1 \in Int
      OBVIOUS
    <3>. QED BY <3>1, FS_Interval
  <2> HIDE DEF h, I, vs
  <2>3. IsFiniteSet({h[k] : k \in I})
    BY <2>2, FiniteImage
  <2>. QED BY <2>1, <2>3
<1> HIDE DEF vs
<1>7. f[a] % 2 ^ MaxBits(vs) = f[a]
  BY <1>4, <1>5, <1>6, PackedKept
<1>8. Kept(K, f, a) <=> Chunk(K, f, ab).v[i] = f[a]
  BY DEF Kept
<1> HIDE DEF ab, i
<1>. QED BY <1>2, <1>3, <1>7, <1>8

\* The anchors as they are stored of a block are the anchors.
LEMMA AnchorsComeBack ==
  ASSUME NEW c, NEW b, Fits(c, b), HasAnchors(c), NEW s, Shaped(s), NEW t, Shaped(t),
         NEW ab \in Nat, NEW a \in 0 .. NumAnchors(c, b.n) - 1,
         Interleaved(c) => a < (ab + 1) * c.kBlk
  PROVE  AnchorsAt(c, Code(c, b, s), b.n, t.anchor, ab)[a] = Anchor(c, b, a)
<1> DEFINE K == c.kBlk
           N == NumAnchors(c, b.n)
           A == AnchorBlks(c, b.n)
           cd == Code(c, b, s)
           top == IF c.ahead THEN A - 1 ELSE ab
<1>1. Sound(c) /\ Accepts(c, b.n) /\ b.n \in Nat /\ b.n <= ScratchLen /\ K \in Nat \ {0}
  BY DEF Fits, Sound
<1>2. N \in Nat /\ A \in Nat /\ A * K \in Nat /\ A * K <= ScratchLen
  <2>1. c.window \in Nat \ {0}
    BY <1>1 DEF Sound
  <2>. QED BY <1>1, <2>1, AnchorsHaveRoom
<1>3. N <= A * K
  <2>1. A = CeilDiv(N, K)
    BY DEF AnchorBlks
  <2> HIDE DEF K, N, A
  <2>2. CeilDiv(N, K) = (N + K - 1) \div K
    BY DEF CeilDiv
  <2> DEFINE x == N + K - 1
  <2>3. x \in Nat
    BY <1>1, <1>2
  <2> HIDE DEF x
  <2>4. x \div K \in Nat /\ x < (x \div K) * K + K
    BY <1>1, <2>3, DivBounds
  <2>. QED BY <1>1, <1>2, <2>1, <2>2, <2>4 DEF x
<1>4. a \in 0 .. A * K - 1 /\ a \in 0 .. ScratchLen - 1 /\ a \in Nat
  BY <1>2, <1>3, ScratchAssumption
<1>5. (A * K) % K = 0 /\ (A * K) \div K = A
  BY <1>1, <1>2, Multiple
<1>6. CASE c.anchors = "raw"
  <2>1. AnchorsAt(c, cd, b.n, t.anchor, ab) = cd.anchors
    BY <1>6 DEF AnchorsAt
  <2>2. cd.anchors = LocalAnchors(c, b)
    BY <1>6 DEF Code, AnchorRegion
  <2>3. LocalAnchors(c, b)[a] = Anchor(c, b, a)
    BY DEF LocalAnchors
  <2>. QED BY <2>1, <2>2, <2>3
<1>7. CASE c.anchors \in {"packed", "hier"}
  <2>1. AnchorsAt(c, cd, b.n, t.anchor, ab) = Unpacked(c, cd, b.n, t.anchor, top)
    BY <1>7 DEF AnchorsAt
  <2>2. a \in DOMAIN t.anchor
    BY <1>4 DEF Shaped
  <2>3. a < (top + 1) * K
    <3>1. CASE c.ahead
      <4>1. top + 1 = A
        BY <1>2, <3>1
      <4>2. (top + 1) * K = A * K
        BY <4>1, Zenon
      <4>. QED BY <1>2, <1>4, <4>2
    <3>2. CASE ~c.ahead
      BY <1>7, <3>2 DEF Interleaved, PackedAnchors
    <3>. QED BY <3>1, <3>2
  <2>4. Unpacked(c, cd, b.n, t.anchor, top)[a] = UnpackedAnchor(c, cd, b.n, a)
    BY <2>2, <2>3 DEF Unpacked
  <2>5. \A j \in 0 .. N - 1 : Anchor(c, b, j) \in Word
    BY AnchorOfWindow
  <2>6. 0 \in Word
    BY WordSizeType DEF Word
  <2>7. DOMAIN s.anchor = 0 .. ScratchLen - 1 /\ DOMAIN s.res = 0 .. ScratchLen - 1
    BY DEF Shaped
  <2>8. a \div K \in 0 .. A - 1
    <3> HIDE DEF K, A
    <3> DEFINE n == A * K
    <3>1. n \in Nat /\ n % K = 0 /\ n \div K = A /\ a \in 0 .. n - 1
      BY <1>2, <1>4, <1>5
    <3> HIDE DEF n
    <3>2. a \div K \in 0 .. (n \div K) - 1
      BY ONLY <1>1, <3>1, Cut, Zenon
    <3>. QED BY <3>1, <3>2
  <2>9. CASE c.anchors = "packed"
    <3> DEFINE f == AnchorsIn(c, b, s.anchor)
    <3>1. f = Overwrite(s.anchor, LocalAnchors(c, b), N, A * K)
      BY <2>9 DEF AnchorsIn
    <3>2. \A j \in 0 .. A * K - 1 : f[j] = IF j < N THEN Anchor(c, b, j) ELSE 0
      <4> SUFFICES ASSUME NEW j \in 0 .. A * K - 1
                   PROVE  f[j] = IF j < N THEN Anchor(c, b, j) ELSE 0
        OBVIOUS
      <4>1. j \in DOMAIN s.anchor /\ j < A * K /\ (j < N => j \in 0 .. N - 1)
        BY <1>2, <2>7, ScratchAssumption
      <4>2. f[j] = IF j < N THEN LocalAnchors(c, b)[j] ELSE 0
        BY <3>1, <4>1 DEF Overwrite
      <4>. QED BY <4>1, <4>2 DEF LocalAnchors
    <3> HIDE DEF f
    <3>3. \A j \in 0 .. A * K - 1 : f[j] \in Word
      BY <1>2, <2>5, <2>6, <3>2
    <3>4. Chunk(K, f, a \div K).v[a % K] = f[a]
      <4> HIDE DEF K, A
      <4> DEFINE n == A * K
      <4>1. n \in Nat /\ n % K = 0 /\ a \in 0 .. n - 1 /\ \A j \in 0 .. n - 1 : f[j] \in Word
        BY <1>2, <1>4, <1>5, <3>3
      <4> HIDE DEF n
      <4>2. Kept(K, f, a)
        BY ONLY <1>1, <4>1, ChunkLosesNothing, Zenon
      <4>. QED BY ONLY <4>2, Zenon DEF Kept
    <3>5. AnchorChunk(c, f, a \div K) = Chunk(K, f, a \div K)
      BY DEF AnchorChunk, Chunk
    <3>6. cd.anchors[a \div K] = AnchorChunk(c, f, a \div K)
      BY <2>8, <2>9 DEF Code, AnchorRegion, f
    <3>7. UnpackedAnchor(c, cd, b.n, a) = cd.anchors[a \div K].v[a % K]
      BY <2>9 DEF UnpackedAnchor
    <3>8. f[a] = Anchor(c, b, a)
      <4>1. a < N
        BY <1>2
      <4>. QED BY <1>4, <3>2, <4>1
    <3>. QED BY <2>1, <2>4, <3>4, <3>5, <3>6, <3>7, <3>8
  <2>10. CASE c.anchors = "hier"
    <3> DEFINE f == DistancesIn(c, b, s.res)
               d == Distances(c, b)
               vs == {d[j] : j \in DOMAIN d}
               g == a \div Ratio(c, b.n)
    <3>1. f[a] = d[a]
      <4>1. a \in DOMAIN s.res /\ a < N
        BY <1>2, <1>4, <2>7
      <4>. QED BY <4>1 DEF DistancesIn, Overwrite
    <3>2. g \in 0 .. NumOuter(c, b.n) - 1 /\ Global(c, b, g) \in Word
      BY <2>10, GlobalOfAnchor
    <3>3. d[a] = Minus(Anchor(c, b, a), Global(c, b, g)) /\ DOMAIN d = 0 .. N - 1
      BY DEF Distances
    <3>4. vs \in SUBSET Word
      <4> SUFFICES ASSUME NEW j \in 0 .. N - 1 PROVE d[j] \in Word
        BY <3>3
      <4>1. Anchor(c, b, j) \in Int /\ Global(c, b, j \div Ratio(c, b.n)) \in Int
        BY <2>5, <2>10, GlobalOfAnchor, WordSizeType DEF Word
      <4>2. d[j] = Minus(Anchor(c, b, j), Global(c, b, j \div Ratio(c, b.n)))
        BY DEF Distances
      <4>. QED BY <4>1, <4>2, MinusType
    <3>5. IsFiniteSet(vs)
      <4> DEFINE D == DOMAIN d
      <4>1. IsFiniteSet(D)
        <5>1. N - 1 \in Int /\ 0 \in Int
          BY <1>2
        <5>2. IsFiniteSet(0 .. N - 1)
          BY <5>1, FS_Interval
        <5>. QED BY <3>3, <5>2
      <4> HIDE DEF D, d
      <4>2. IsFiniteSet({d[j] : j \in D})
        BY <4>1, FiniteImage
      <4>. QED BY <4>2 DEF D
    <3>6. d[a] \in vs
      BY <3>3
    <3> HIDE DEF f, d, vs, g
    <3>7. d[a] % 2 ^ MaxBits(vs) = d[a]
      BY <3>4, <3>5, <3>6, PackedKept
    <3>8. DistanceChunk(c, b, s.res, a \div K) = SimdPack(f, (a \div K) * K, K, MaxBits(vs))
      BY DEF DistanceChunk, f, vs, d
    <3>9. SimdPack(f, (a \div K) * K, K, MaxBits(vs)).v[a % K] = f[a] % 2 ^ MaxBits(vs)
      <4> HIDE DEF K, A
      <4> DEFINE n == A * K
                 bits == MaxBits(vs)
      <4>1. n \in Nat /\ n % K = 0 /\ a \in 0 .. n - 1
        BY <1>2, <1>4, <1>5
      <4> HIDE DEF n, bits
      <4>2. ComesBack(K, f, bits, a)
        BY ONLY <1>1, <4>1, ChunkKept, Zenon
      <4>. QED BY ONLY <4>2, Zenon DEF ComesBack, bits
    <3>10. cd.anchors.blks[a \div K] = DistanceChunk(c, b, s.res, a \div K)
      BY <2>8, <2>10 DEF Code, AnchorRegion
    <3>11. cd.anchors.globals[g] = Global(c, b, g)
      BY <2>10, <3>2 DEF Code, AnchorRegion
    <3>12. a < NumAnchors(c, b.n)
      BY <1>2
    <3>13. UnpackedAnchor(c, cd, b.n, a)
           = Plus(cd.anchors.blks[a \div K].v[a % K], cd.anchors.globals[g])
      BY <2>10, <3>12 DEF UnpackedAnchor, g
    <3>14. UnpackedAnchor(c, cd, b.n, a) = Plus(d[a], Global(c, b, g))
      BY <3>1, <3>7, <3>8, <3>9, <3>10, <3>11, <3>13
    <3>15. Plus(Minus(Anchor(c, b, a), Global(c, b, g)), Global(c, b, g)) = Anchor(c, b, a)
      <4>1. Anchor(c, b, a) \in Word /\ Global(c, b, g) \in Int
        BY <2>5, <3>2, WordSizeType DEF Word
      <4>. QED BY <4>1, PlusMinus
    <3>. QED BY <2>1, <2>4, <3>3, <3>14, <3>15
  <2>. QED BY <1>7, <2>9, <2>10
<1>. QED BY <1>1, <1>6, <1>7 DEF HasAnchors, Sound

----------------------------------------------------------------------------
(* The words come back *)

\* What is packed for a word is a word.
LEMMA ResidualType ==
  ASSUME NEW c, NEW b, Fits(c, b), NEW j \in 0 .. b.n - 1
  PROVE  Residual(c, b, j) \in Word
<1>1. Word \subseteq Int /\ 0 \in Int
  BY WordSizeType DEF Word
<1>2. b.n \in Nat /\ b.v \in [0 .. b.n - 1 -> Word]
  BY DEF Fits
<1>3. b.v[j] \in Word /\ b.v[j] \in Int
  BY <1>1, <1>2
<1>4. CASE c.delta # "none"
  <2>0. ~HasAnchors(c)
    BY <1>4 DEF Fits, Sound, HasAnchors
  <2>1. ~StartsChain(c, j) => b.v[j - 1] \in Int
    <3>1. ~StartsChain(c, j) => j - 1 \in 0 .. b.n - 1
      BY <1>2 DEF StartsChain
    <3>2. \A i \in 0 .. b.n - 1 : b.v[i] \in Int
      BY <1>1, <1>2
    <3>. QED BY <3>1, <3>2, Zenon
  <2>2. Minus(b.v[j], IF StartsChain(c, j) THEN 0 ELSE b.v[j - 1]) \in Word
    BY <1>1, <1>3, <2>1, MinusType
  <2>3. Residual(c, b, j) = ZigzagEnc16(Minus(b.v[j], IF StartsChain(c, j) THEN 0 ELSE b.v[j - 1]))
    BY <1>4, <2>0, Zenon DEF Residual
  <2>. QED BY <2>2, <2>3, Zigzag
<1>5. CASE c.delta = "none" /\ HasAnchors(c)
  <2>1. Anchor(c, b, j \div Window(c, b.n)) \in Int
    BY <1>1, <1>5, AnchorOfWindow
  <2>2. Residual(c, b, j) = Minus(b.v[j], Anchor(c, b, j \div Window(c, b.n)))
    BY <1>5 DEF Residual
  <2>. QED BY <1>3, <2>1, <2>2, MinusType
<1>6. CASE c.delta = "none" /\ ~HasAnchors(c)
  BY <1>3, <1>6 DEF Residual
<1>. QED BY <1>4, <1>5, <1>6

\* Word by word, what is unpacked is what was packed.
LEMMA StoredIsResidual ==
  ASSUME NEW c, NEW b, Fits(c, b), NEW s, NEW j \in 0 .. b.n - 1
  PROVE  Stored(c, Code(c, b, s), b.n)[j] = Residual(c, b, j)
<1> DEFINE n == b.n
           K == c.kBlk
           r == Residuals(c, b)
           cd == Code(c, b, s)
           q == j \div c.kBlk
<1>1. n \in Nat /\ K \in Nat \ {0} /\ n % K = 0 /\ j \in 0 .. n - 1
  BY WindowOf DEF Fits
<1>2. \A i \in 0 .. n - 1 : r[i] \in Word /\ r[i] = Residual(c, b, i)
  BY ResidualType DEF Residuals
<1>3. q \in 0 .. NumBlk(c, n) - 1
  <2> DEFINE m == n \div K
  <2>1. NumBlk(c, n) = m /\ q = j \div K
    BY DEF NumBlk
  <2> HIDE DEF K, n, q
  <2>2. j \div K \in 0 .. m - 1
    BY ONLY <1>1, Cut, Zenon DEF m
  <2>. QED BY <2>1, <2>2
<1>4. Stored(c, cd, n)[j] = cd.blks[q].v[j % K]
  BY DEF Stored
<1>5. cd.blks[q] = Payload(c, r, q)
  BY <1>3 DEF Code
<1>6. CASE c.pfor
  <2>1. Payload(c, r, q) = SimdPack(r, (j \div K) * K, K, WordBits)
    BY <1>6 DEF Payload
  <2> HIDE DEF n, K, r, cd, q
  <2>2. ComesBack(K, r, WordBits, j)
    BY ONLY <1>1, ChunkKept, Zenon
  <2>3. Stored(c, cd, n)[j] = r[j] % 2 ^ WordBits
    BY ONLY <1>4, <1>5, <2>1, <2>2, Zenon DEF ComesBack
  <2>4. r[j] % 2 ^ WordBits = r[j]
    BY <1>1, <1>2, WholeWordsKept
  <2>5. Stored(c, cd, n)[j] = Residual(c, b, j)
    BY <1>1, <1>2, <2>3, <2>4
  <2>. QED BY <2>5 DEF n, cd
<1>7. CASE ~c.pfor
  <2>1. Payload(c, r, q) = Chunk(K, r, j \div K)
    BY <1>7 DEF Payload, Chunk
  <2> HIDE DEF n, K, r, cd, q
  <2>2. Kept(K, r, j)
    BY ONLY <1>1, <1>2, ChunkLosesNothing, Zenon
  <2>3. Stored(c, cd, n)[j] = r[j]
    BY ONLY <1>4, <1>5, <2>1, <2>2, Zenon DEF Kept
  <2>4. Stored(c, cd, n)[j] = Residual(c, b, j)
    BY <1>1, <1>2, <2>3
  <2>. QED BY <2>4 DEF n, cd
<1>. QED BY <1>6, <1>7

\* The prefix sums of the differences are the words.
Differences(c, n, v, z) ==
  \A i \in 0 .. n - 1 :
    z[i] = ZigzagEnc16(Minus(v[i], IF StartsChain(c, i) THEN 0 ELSE v[i - 1]))

LEMMA ChainComesBack ==
  ASSUME NEW c, NEW n \in Nat, NEW v \in [0 .. n - 1 -> Word], NEW z, Differences(c, n, v, z)
  PROVE  Undelta(c, z, n) = v
<1> DEFINE I == 0 .. n - 1
           Step(d, i) == IF StartsChain(c, i) THEN ZigzagDec16(z[i])
                         ELSE Plus(d[i - 1], ZigzagDec16(z[i]))
           Chain(d) == d = [i \in I |-> Step(d, i)]
<1>1. Word \subseteq Int /\ 0 \in Int /\ I \subseteq Nat
  BY WordSizeType DEF Word
<1>2. \A i \in I : ~StartsChain(c, i) => i - 1 \in I
  BY DEF StartsChain
<1>3. \A i \in I : v[i] = Step(v, i)
  <2> SUFFICES ASSUME NEW i \in I PROVE v[i] = Step(v, i)
    OBVIOUS
  <2> DEFINE y == IF StartsChain(c, i) THEN 0 ELSE v[i - 1]
  <2>1. y \in Int /\ v[i] \in Word /\ v[i] \in Int
    BY <1>1, <1>2
  <2>2. z[i] = ZigzagEnc16(Minus(v[i], y))
    BY DEF Differences
  <2>3. Step(v, i) = IF StartsChain(c, i) THEN ZigzagDec16(z[i]) ELSE Plus(y, ZigzagDec16(z[i]))
    OBVIOUS
  <2> HIDE DEF Step, y
  <2>4. ZigzagDec16(z[i]) = Minus(v[i], y) /\ Minus(v[i], y) \in Word
    <3>1. Minus(v[i], y) \in Word
      BY <2>1, MinusType
    <3>. QED BY <2>2, <3>1, Zigzag
  <2>5. Plus(Minus(v[i], y), y) = v[i]
    BY <2>1, PlusMinus
  <2>6. Plus(y, Minus(v[i], y)) = v[i]
    <3> DEFINE m == Minus(v[i], y)
    <3>0. m \in Int /\ y \in Int
      BY <1>1, <2>1, <2>4
    <3> HIDE DEF m
    <3>a. m + y = y + m
      BY <3>0
    <3>1. Minus(v[i], y) + y = y + Minus(v[i], y)
      BY <3>a DEF m
    <3>. QED BY <2>5, <3>1 DEF Plus
  <2>7. CASE StartsChain(c, i)
    <3>1. y = 0
      BY <2>7 DEF y
    <3>2. Plus(0, Minus(v[i], y)) = Minus(v[i], y)
      <4>1. Minus(v[i], y) \in Nat /\ Minus(v[i], y) < WordSize
        BY <2>4, WordSizeType DEF Word
      <4>2. (0 + Minus(v[i], y)) = Minus(v[i], y)
        BY <4>1
      <4>3. Minus(v[i], y) % WordSize = Minus(v[i], y)
        BY <4>1, WordSizeType, Remainder
      <4>. QED BY <4>2, <4>3 DEF Plus
    <3>. QED BY <2>3, <2>4, <2>6, <2>7, <3>1, <3>2
  <2>8. CASE ~StartsChain(c, i)
    BY <2>3, <2>4, <2>6, <2>8
  <2>. QED BY <2>7, <2>8
<1>4. Chain(v)
  <2> HIDE DEF Step
  <2>. QED BY <1>3
<1>5. ASSUME NEW d, Chain(d) PROVE d = v
  <2> DEFINE Bad == {i \in I : d[i] # v[i]}
  <2>1. DOMAIN d = I /\ d = [i \in I |-> d[i]]
    <3> DEFINE e == [i \in I |-> Step(d, i)]
    <3>1. d = e /\ e = [i \in I |-> e[i]] /\ DOMAIN e = I
      BY <1>5
    <3> HIDE DEF e
    <3>. QED BY <3>1
  <2>2. \A i \in I : d[i] = Step(d, i)
    <3> DEFINE e == [i \in I |-> Step(d, i)]
    <3>1. d = e
      BY <1>5
    <3>2. \A i \in I : e[i] = Step(d, i)
      OBVIOUS
    <3> HIDE DEF e, Step
    <3>. QED BY <3>1, <3>2
  <2>3. Bad = {}
    <3> SUFFICES ASSUME Bad # {} PROVE FALSE
      OBVIOUS
    <3>1. Bad \in SUBSET Nat
      BY <1>1
    <3>2. PICK i \in Bad : \A k \in Bad : i <= k
      <4> HIDE DEF Bad
      <4>. QED BY <3>1, LeastNatural
    <3>3. i \in I /\ d[i] # v[i]
      OBVIOUS
    <3>4. CASE StartsChain(c, i)
      <4>1. Step(d, i) = Step(v, i)
        BY <3>4
      <4> HIDE DEF Step
      <4>. QED BY <1>3, <2>2, <3>3, <4>1
    <3>5. CASE ~StartsChain(c, i)
      <4>1. i - 1 \in I /\ i - 1 < i
        BY <1>2, <3>3, <3>5
      <4>2. i - 1 \notin Bad
        BY <1>1, <3>2, <3>3, <4>1
      <4>3. d[i - 1] = v[i - 1]
        BY <4>1, <4>2
      <4>4. Step(d, i) = Step(v, i)
        BY <4>3
      <4> HIDE DEF Step
      <4>. QED BY <1>3, <2>2, <3>3, <4>4
    <3>. QED BY <3>4, <3>5
  <2> HIDE DEF Step
  <2>4. \A i \in I : d[i] = v[i]
    BY <2>3
  <2>5. v = [i \in I |-> v[i]]
    OBVIOUS
  <2>. QED BY <2>1, <2>4, <2>5
<1>6. Undelta(c, z, n) = CHOOSE d : Chain(d)
  BY DEF Undelta
<1> HIDE DEF Chain
<1>. QED BY <1>4, <1>5, <1>6

\* The words behind the decoder's kernels: those of the block under a delta,
\* elsewhere the residuals.
LEMMA WordsComeBack ==
  ASSUME NEW c, NEW b, Fits(c, b), NEW s, NEW j \in 0 .. b.n - 1
  PROVE  Words0(c, Code(c, b, s), b.n)[j]
         = IF c.delta # "none" THEN b.v[j] ELSE Residual(c, b, j)
<1> DEFINE z == Stored(c, Code(c, b, s), b.n)
<1>1. \A i \in 0 .. b.n - 1 : z[i] = Residual(c, b, i)
  BY StoredIsResidual
<1> HIDE DEF z
<1>2. CASE c.delta # "none"
  <2>0. ~HasAnchors(c)
    BY <1>2 DEF Fits, Sound, HasAnchors
  <2>1. Differences(c, b.n, b.v, z)
    BY <1>1, <1>2, <2>0, Zenon DEF Residual, Differences
  <2>2. b.n \in Nat /\ b.v \in [0 .. b.n - 1 -> Word]
    BY DEF Fits
  <2>3. Undelta(c, z, b.n) = b.v
    BY ONLY <2>1, <2>2, ChainComesBack, Zenon
  <2>. QED BY <1>2, <2>3 DEF Words0, z
<1>3. CASE ~(c.delta # "none")
  BY <1>1, <1>3 DEF Words0, z
<1>. QED BY <1>2, <1>3

----------------------------------------------------------------------------
(* The rounds *)

\* The round in which block k is decoded.
RoundOf(c, n, k) == IF Interleaved(c) THEN k \div Window(c, n) ELSE 0

\* Within a window of blocks, and its anchors before the next block of anchors.
LEMMA RoundBounds ==
  ASSUME NEW c, NEW n \in Nat, Sound(c), Accepts(c, n), HasAnchors(c), n <= ScratchLen,
         NEW k \in 0 .. NumBlk(c, n) - 1
  PROVE  /\ k \div Window(c, n) \in 0 .. AnchorBlks(c, n) - 1 
         /\ \A ab \in Nat : k \in Fed(c, n, ab) <=> ab = k \div Window(c, n)
         /\ \A i \in 0 .. c.kBlk - 1 :
              (k * c.kBlk + i) \div Window(c, n) < (k \div Window(c, n) + 1) * c.kBlk
<1> DEFINE K == c.kBlk
           w == Window(c, n)
           B == NumBlk(c, n)
           N == NumAnchors(c, n)
           A == AnchorBlks(c, n)
           q == k \div w
           r == k % w
<1>1. K \in Nat \ {0} /\ w \in Nat \ {0} /\ n \in Nat \ {0} /\ n % K = 0 /\ n % w = 0
  BY WindowOf, WindowCuts
<1>2. B = n \div K /\ N = n \div w /\ A = CeilDiv(N, K) /\ k \in 0 .. B - 1
  BY DEF NumBlk, NumAnchors, AnchorBlks
<1>f. \A ab : k \in Fed(c, n, ab) <=> ab * w <= k /\ k < (ab + 1) * w
  BY DEF Fed
<1>g. n \in Nat /\ Accepts(c, n) /\ n <= ScratchLen /\ c.kBlk \in Nat \ {0} /\ c.window \in Nat \ {0}
  BY DEF Sound
<1>h. N \in Nat /\ A \in Nat
  BY <1>g, AnchorsHaveRoom
<1> HIDE DEF K, w, B, N, A
<1>3. B \in Nat /\ n = B * K /\ N \in Nat /\ n = N * w
  <2>1. 0 \in 0 .. n - 1
    BY <1>1
  <2>2. ASSUME NEW p \in Nat \ {0}, n % p = 0
        PROVE  n \div p \in Nat /\ n = (n \div p) * p
    BY <2>1, <2>2, Cut, Zenon
  <2>. QED BY <1>1, <1>2, <2>2
<1>4. q \in Nat /\ r \in 0 .. w - 1 /\ k = q * w + r /\ k \in Nat /\ k < B
  <2>1. k \in Nat /\ k < B
    BY <1>2, <1>3
  <2>. QED BY <1>1, <2>1, Division
<1> HIDE DEF q, r
<1>5. q * w \in Nat /\ (q + 1) * w = q * w + w /\ q * w <= k /\ k < (q + 1) * w
  <2>1. q * w \in Nat /\ (q + 1) * w = q * w + w
    BY <1>1, <1>4, MulMono, SMT
  <2>. QED BY <1>1, <1>4, <2>1
<1>6. N <= A * K
  <2>1. A = (N + K - 1) \div K
    BY <1>2 DEF CeilDiv
  <2> DEFINE x == N + K - 1
  <2>2. x \in Nat
    BY <1>1, <1>h
  <2> HIDE DEF x
  <2>3. x \div K \in Nat /\ x < (x \div K) * K + K
    BY <1>1, <2>2, DivBounds
  <2>4. A = x \div K /\ A * K \in Nat /\ x = N + K - 1
    BY <1>1, <1>h, <2>1, MulMono DEF x
  <2>. QED BY <1>1, <1>h, <2>3, <2>4
<1>7. q < A
  <2>1. A * K \in Nat /\ A * w \in Nat
    BY <1>1, <1>h, MulMono
  <2>2. N * w <= (A * K) * w
    BY <1>1, <1>6, <1>h, <2>1, MulMono
  <2>3. (A * K) * w = (A * w) * K
    BY <1>1, <1>h, SMT
  <2>4. B * K <= (A * w) * K
    BY <1>3, <2>2, <2>3
  <2>5. ~(A * w < B)
    <3> SUFFICES ASSUME A * w < B PROVE FALSE
      OBVIOUS
    <3>1. (A * w + 1) * K <= B * K /\ (A * w + 1) * K = (A * w) * K + K /\ (A * w) * K \in Nat
      BY <1>1, <1>3, <2>1, MulMono, SMT
    <3>. QED BY <1>1, <1>3, <2>4, <3>1
  <2>6. q * w < A * w
    BY <1>3, <1>4, <1>5, <2>1, <2>5
  <2>. QED BY <1>1, <1>4, <1>h, <2>6, MulCancel
<1>8. ASSUME NEW ab \in Nat PROVE k \in Fed(c, n, ab) <=> ab = q
  <2>1. ab * w \in Nat /\ (ab + 1) * w = ab * w + w
    BY <1>1, MulMono, SMT
  <2>2. CASE ab < q
    <3>1. (ab + 1) * w <= q * w
      BY <1>1, <1>4, <2>2, MulMono
    <3>. QED BY <1>1, <1>4, <1>5, <1>f, <2>1, <2>2, <3>1
  <2>3. CASE ab > q
    <3>1. (q + 1) * w <= ab * w
      BY <1>1, <1>4, <2>3, MulMono
    <3>. QED BY <1>1, <1>4, <1>5, <1>f, <2>1, <2>3, <3>1
  <2>4. CASE ab = q
    BY <1>5, <1>f, <2>4
  <2>. QED BY <1>4, <2>2, <2>3, <2>4
<1>9. ASSUME NEW i \in 0 .. K - 1 PROVE (k * K + i) \div w < (q + 1) * K
  <2> DEFINE j == k * K + i
             a == j \div w
  <2>1. k * K \in Nat /\ (k + 1) * K = k * K + K
    BY <1>1, <1>4, MulMono, SMT
  <2>2. j \in Nat /\ j < (k + 1) * K
    BY <1>1, <2>1
  <2>3. (k + 1) * K <= ((q + 1) * w) * K
    <3>1. (q + 1) * w \in Nat /\ k + 1 \in Nat /\ k + 1 <= (q + 1) * w
      BY <1>1, <1>4, <1>5
    <3>. QED BY <1>1, <3>1, MulMono
  <2>4. ((q + 1) * w) * K = ((q + 1) * K) * w
    BY <1>1, <1>4, SMT
  <2> HIDE DEF j
  <2>5. a \in Nat /\ a * w <= j
    BY <1>1, <2>2, DivBounds
  <2> HIDE DEF a
  <2>6. a * w \in Nat /\ (q + 1) * K \in Nat /\ ((q + 1) * K) * w \in Nat /\ (k + 1) * K \in Nat
    BY <1>1, <1>4, <2>5, MulMono
  <2>7. a * w < ((q + 1) * K) * w
    BY <2>2, <2>3, <2>4, <2>5, <2>6
  <2>8. a < (q + 1) * K
    BY <1>1, <2>5, <2>6, <2>7, MulCancel
  <2>. QED BY <2>8 DEF a, j
<1>10. q \in 0 .. A - 1
  BY <1>4, <1>7, <1>h
<1>. QED BY <1>8, <1>9, <1>10 DEF q, A, K, w

\* Each packed block is decoded in one round.
LEMMA RoundsAre ==
  ASSUME NEW c, NEW n \in Nat, Sound(c), Accepts(c, n), n <= ScratchLen
  PROVE  /\ NumBlk(c, n) \in Nat \ {0} /\ n = NumBlk(c, n) * c.kBlk
         /\ \A k \in 0 .. NumBlk(c, n) - 1 : RoundOf(c, n, k) \in 0 .. n
         /\ \A p : p \in Rounds(c, n) <=>
              \E k \in 0 .. NumBlk(c, n) - 1 : p = <<RoundOf(c, n, k), k>>
<1> DEFINE B == NumBlk(c, n)
<1>1. B \in Nat /\ n = B * c.kBlk
  <2> DEFINE K == c.kBlk
  <2>1. B = n \div K /\ K \in Nat \ {0} /\ n % K = 0 /\ n \in Nat \ {0}
    BY WindowOf DEF NumBlk
  <2> HIDE DEF B, K
  <2>2. 0 \in 0 .. n - 1
    BY <2>1
  <2>3. n \div K \in Nat /\ n = (n \div K) * K
    BY <2>1, <2>2, Cut, Zenon
  <2>. QED BY <2>1, <2>3 DEF K
<1>2. B # 0
  <2>1. n # 0 /\ c.kBlk \in Nat
    BY WindowOf
  <2>. QED BY <1>1, <2>1, Nothing
<1>3. CASE Interleaved(c)
  <2>1. HasAnchors(c)
    BY <1>3 DEF Interleaved, PackedAnchors, HasAnchors
  <2>2. \A k \in 0 .. B - 1 : RoundOf(c, n, k) = k \div Window(c, n)
    BY <1>3 DEF RoundOf
  <2>3. \A k \in 0 .. B - 1 :
          /\ RoundOf(c, n, k) \in 0 .. AnchorBlks(c, n) - 1
          /\ \A ab \in Nat : k \in Fed(c, n, ab) <=> ab = RoundOf(c, n, k)
    BY <2>1, <2>2, RoundBounds
  <2>4. Rounds(c, n) = {p \in (0 .. AnchorBlks(c, n) - 1) \X (0 .. B - 1) : p[2] \in Fed(c, n, p[1])}
    BY <1>3 DEF Rounds
  <2>5. AnchorBlks(c, n) \in Nat /\ AnchorBlks(c, n) <= n
    <3>1. AnchorBlks(c, n) \in Nat
      BY AnchorsHaveRoom DEF Sound
    <3> DEFINE w == Window(c, n)
               N == NumAnchors(c, n)
    <3>2. w \in Nat \ {0} /\ c.kBlk \in Nat \ {0} /\ n % w = 0 /\ n \in Nat
      BY <2>1, WindowOf, WindowCuts
    <3>3. N \in Nat /\ N <= n
      <4>1. N = n \div w
        BY DEF NumAnchors
      <4> HIDE DEF w, N
      <4>2. n \div w \in Nat /\ (n \div w) * w <= n
        BY <3>2, DivBounds
      <4>3. (n \div w) * 1 <= (n \div w) * w
        BY <3>2, <4>2, MulMono, SMT
      <4>4. (n \div w) * w \in Nat
        BY <3>2, <4>2, MulMono
      <4>. QED BY <3>2, <4>1, <4>2, <4>3, <4>4
    <3>4. AnchorBlks(c, n) = CeilDiv(N, c.kBlk)
      BY DEF AnchorBlks
    <3> HIDE DEF w, N
    <3> DEFINE K == c.kBlk
    <3>5. N <= N * K
      <4>1. K \in Nat \ {0}
        BY <3>2
      <4> HIDE DEF K
      <4>2. N * 1 <= N * K
        BY <3>3, <4>1, SMT
      <4>. QED BY <3>3, <4>1, <4>2
    <3>6. CeilDiv(N, K) \in Nat /\ CeilDiv(N, K) * K <= N * K
      BY <3>2, <3>3, <3>5, CeilFits
    <3>7. K \in Nat \ {0}
      BY <3>2
    <3> HIDE DEF K
    <3>8. CeilDiv(N, K) <= N
      <4> DEFINE x == CeilDiv(N, K)
      <4>0. x \in Nat /\ x * K <= N * K
        BY <3>6
      <4> HIDE DEF x
      <4>1. ~(N < x)
        <5> SUFFICES ASSUME N < x PROVE FALSE
          OBVIOUS
        <5>1. (N + 1) * K <= x * K /\ (N + 1) * K = N * K + K /\ N * K \in Nat /\ x * K \in Nat
          BY <3>3, <3>7, <4>0, MulMono, SMT
        <5>. QED BY <3>3, <3>7, <4>0, <5>1
      <4>2. x <= N
        BY <3>3, <4>0, <4>1
      <4>. QED BY <4>2 DEF x
    <3>9. AnchorBlks(c, n) <= N
      BY <3>4, <3>8 DEF K
    <3>. QED BY <3>1, <3>2, <3>3, <3>9
  <2>6. \A k \in 0 .. B - 1 : RoundOf(c, n, k) \in 0 .. n
    <3> SUFFICES ASSUME NEW k \in 0 .. B - 1 PROVE RoundOf(c, n, k) \in 0 .. n
      OBVIOUS
    <3> DEFINE x == RoundOf(c, n, k)
    <3>1. x \in 0 .. AnchorBlks(c, n) - 1
      BY <2>3
    <3> HIDE DEF x
    <3>2. x \in 0 .. n
      BY <2>5, <3>1
    <3>. QED BY <3>2 DEF x
  <2>7. ASSUME NEW p, p \in Rounds(c, n)
        PROVE  \E k \in 0 .. B - 1 : p = <<RoundOf(c, n, k), k>>
    <3>1. /\ p = <<p[1], p[2]>> /\ p[1] \in 0 .. AnchorBlks(c, n) - 1
          /\ p[2] \in 0 .. B - 1 /\ p[2] \in Fed(c, n, p[1])
      BY <2>4, <2>7
    <3>2. p[1] \in Nat
      BY <3>1
    <3>3. p[1] = RoundOf(c, n, p[2])
      BY <2>3, <3>1, <3>2
    <3>. QED BY <3>1, <3>3
  <2>8. ASSUME NEW k \in 0 .. B - 1
        PROVE  <<RoundOf(c, n, k), k>> \in Rounds(c, n)
    <3> DEFINE x == RoundOf(c, n, k)
    <3>1. x \in 0 .. AnchorBlks(c, n) - 1
      BY <2>3
    <3>2. x \in Nat
      BY <3>1
    <3>3. k \in Fed(c, n, x)
      BY <2>3, <3>2
    <3> HIDE DEF x, B
    <3>4. <<x, k>> \in Rounds(c, n)
      BY <2>4, <3>1, <3>3
    <3>. QED BY <3>4 DEF x
  <2>. QED BY <1>1, <1>2, <2>6, <2>7, <2>8
<1>4. CASE ~Interleaved(c)
  <2>1. Rounds(c, n) = {0} \X (0 .. B - 1)
    BY <1>4 DEF Rounds
  <2>2. \A k \in 0 .. B - 1 : RoundOf(c, n, k) = 0
    BY <1>4 DEF RoundOf
  <2> HIDE DEF B
  <2>3. \A p : p \in Rounds(c, n) <=> \E k \in 0 .. B - 1 : p = <<RoundOf(c, n, k), k>>
    BY <2>1, <2>2
  <2>4. \A k \in 0 .. B - 1 : RoundOf(c, n, k) \in 0 .. n
    BY <2>2
  <2>. QED BY <1>1, <1>2, <2>3, <2>4 DEF B
<1>. QED BY <1>3, <1>4

----------------------------------------------------------------------------
(* The lanes *)

\* The anchors that block k is decoded with, when the scratch arrays are t.
AnchorsFor(c, b, s, t, k) ==
  AnchorsAt(c, Code(c, b, s), b.n, t.anchor, RoundOf(c, b.n, k))

WindowsAnchor(c, b, j) == Anchor(c, b, j \div Window(c, b.n))

\* Word i of block k.
LEMMA PlaceInBlock ==
  ASSUME NEW c, NEW b, Fits(c, b), NEW k \in 0 .. NumBlk(c, b.n) - 1, NEW i \in 0 .. c.kBlk - 1
  PROVE  k * c.kBlk + i \in 0 .. b.n - 1
<1> DEFINE K == c.kBlk
           n == b.n
           B == NumBlk(c, b.n)
<1>1. B \in Nat \ {0} /\ n = B * K /\ K \in Nat \ {0} /\ k \in 0 .. B - 1 /\ i \in 0 .. K - 1
  BY RoundsAre, WindowOf DEF Fits
<1> HIDE DEF K, n, B
<1>2. k \in Nat /\ k + 1 \in Nat /\ k + 1 <= B
  BY <1>1
<1>3. k * K \in Nat /\ (k + 1) * K <= B * K /\ (k + 1) * K = k * K + K
  BY <1>1, <1>2, MulMono, SMT
<1>4. k * K + i \in 0 .. n - 1
  BY <1>1, <1>3
<1>. QED BY <1>4 DEF K, n

\* The kernel adds, or the scalar adds, the anchor of the word's window.
LEMMA LanesAnchor ==
  ASSUME NEW c, NEW b, Fits(c, b), HasAnchors(c), NEW s, Shaped(s), NEW t, Shaped(t),
         NEW k \in 0 .. NumBlk(c, b.n) - 1, NEW i \in 0 .. c.kBlk - 1
  PROVE  AnchorsFor(c, b, s, t, k)[AnchorOf(c, Window(c, b.n), k, i)]
         = WindowsAnchor(c, b, k * c.kBlk + i)
<1> DEFINE w == Window(c, b.n)
           j == k * c.kBlk + i
           a == j \div w
           ab == RoundOf(c, b.n, k)
<1>1. Sound(c) /\ Accepts(c, b.n) /\ b.n \in Nat /\ b.n <= ScratchLen
  BY DEF Fits
<1>2. w \in Nat \ {0} /\ c.kBlk \in Nat \ {0} /\ c.lanes \in Nat \ {0} /\ Nested(c, w)
  BY <1>1, WindowOf
<1>3. k \in Nat
  OBVIOUS
<1>4. AnchorOf(c, w, k, i) = a
  BY <1>2, <1>3, KernelsAddTheWindowsAnchor
<1>5. j \in 0 .. b.n - 1
  BY PlaceInBlock
<1>6. a \in 0 .. NumAnchors(c, b.n) - 1
  BY <1>5, AnchorOfWindow
<1>7. ab \in Nat
  <2>1. ab \in 0 .. b.n
    BY <1>1, RoundsAre
  <2>. QED BY <2>1
<1>8. Interleaved(c) => a < (ab + 1) * c.kBlk
  <2> SUFFICES ASSUME Interleaved(c) PROVE a < (ab + 1) * c.kBlk
    OBVIOUS
  <2>1. ab = k \div w
    BY DEF RoundOf
  <2>2. a < (k \div w + 1) * c.kBlk
    BY <1>1, RoundBounds
  <2>. QED BY <2>1, <2>2
<1> HIDE DEF w, j, a, ab
<1>9. AnchorsAt(c, Code(c, b, s), b.n, t.anchor, ab)[a] = Anchor(c, b, a)
  BY <1>6, <1>7, <1>8, AnchorsComeBack
<1>. QED BY <1>4, <1>9 DEF AnchorsFor, WindowsAnchor, w, j, a, ab

\* What a lane adds.
LaneWord(c, b, j) ==
  IF HasAnchors(c) /\ c.nobc THEN b.v[j] - WindowsAnchor(c, b, j) ELSE b.v[j]

\* No residual wraps: the anchor is the least of its window.
LEMMA ResidualOfAnchor ==
  ASSUME NEW c, NEW b, Fits(c, b), HasAnchors(c), NEW j \in 0 .. b.n - 1
  PROVE  /\ WindowsAnchor(c, b, j) \in Word /\ b.v[j] \in Word
         /\ Residual(c, b, j) = Minus(b.v[j], WindowsAnchor(c, b, j))
         /\ Residual(c, b, j) = b.v[j] - WindowsAnchor(c, b, j)
         /\ c.delta = "none"
<1>1. c.delta = "none"
  BY DEF Fits, Sound, HasAnchors
<1>2. Residual(c, b, j) = Minus(b.v[j], WindowsAnchor(c, b, j))
  BY <1>1, Zenon DEF Residual, WindowsAnchor
<1>3. WindowsAnchor(c, b, j) \in Word /\ WindowsAnchor(c, b, j) <= b.v[j]
  BY AnchorOfWindow DEF WindowsAnchor
<1>4. b.v[j] \in Word
  BY DEF Fits
<1>. QED BY <1>1, <1>2, <1>3, <1>4, MinusOfLess

\* madd is used on words below 2^15 only.
LEMMA MaddIsSafe ==
  ASSUME NEW c, NEW b, Fits(c, b), Entitled(c, b), NEW s, Madd(c, Code(c, b, s)),
         NEW j \in 0 .. b.n - 1
  PROVE  LaneWord(c, b, j) < Half /\ c.delta = "none"
<1>1. c.agg = "madd" /\ MaddSafe(c, b)
  BY DEF Madd, Code
<1>2. c.delta = "none"
  BY <1>1 DEF Fits, Sound
<1>3. \A i \in 0 .. b.n - 1 : b.v[i] \in Nat
  BY WordSizeType DEF Fits, Word
<1>4. Half \in Nat
  BY HalfAssumption
<1>5. Below(b.v, b.n) => LaneWord(c, b, j) < Half
  <2> SUFFICES ASSUME b.v[j] < Half PROVE LaneWord(c, b, j) < Half
    BY DEF Below
  <2>1. CASE HasAnchors(c) /\ c.nobc
    <3>1. WindowsAnchor(c, b, j) \in Nat
      BY <2>1, ResidualOfAnchor, WordSizeType DEF Word
    <3>. QED BY <1>3, <1>4, <2>1, <3>1 DEF LaneWord
  <2>2. CASE ~(HasAnchors(c) /\ c.nobc)
    BY <2>2 DEF LaneWord
  <2>. QED BY <2>1, <2>2
<1>6. CASE c.gate = "values"
  <2>1. Below(b.v, b.n)
    BY <1>1, <1>6, Zenon DEF MaddSafe
  <2>. QED BY <1>2, <1>5, <2>1
<1>7. CASE c.gate = "residuals"
  <2>1. c.nobc /\ HasAnchors(c)
    BY <1>7 DEF Fits, Sound, HasAnchors
  <2>2. Below(Residuals(c, b), b.n)
    BY <1>1, <1>7 DEF MaddSafe
  <2>3. Residual(c, b, j) < Half
    BY <2>2 DEF Below, Residuals
  <2>. QED BY <1>2, <2>1, <2>3, ResidualOfAnchor DEF LaneWord
<1>8. CASE c.gate = "none"
  <2>1. Below(b.v, b.n)
    BY <1>1, <1>8 DEF Entitled
  <2>. QED BY <1>2, <1>5, <2>1
<1>9. c.gate \in {"none", "values", "residuals"}
  BY DEF Fits, Sound
<1>. QED BY <1>2, <1>6, <1>7, <1>8, <1>9

\* A lane adds its word, or its residual when a scalar adds the anchors.
LEMMA LaneIs ==
  ASSUME NEW c, NEW b, Fits(c, b), Entitled(c, b),
         NEW s, Shaped(s), NEW t, Shaped(t),
         NEW k \in 0 .. NumBlk(c, b.n) - 1, NEW i \in 0 .. c.kBlk - 1, NEW a,
         HasAnchors(c) => a = AnchorsFor(c, b, s, t, k)
  PROVE  InLane(c, Code(c, b, s), b.n, Words0(c, Code(c, b, s), b.n), a, k, i)
         = LaneWord(c, b, k * c.kBlk + i)
<1> DEFINE j == k * c.kBlk + i
           cd == Code(c, b, s)
           u == Words0(c, cd, b.n)
           x == a[AnchorOf(c, Window(c, b.n), k, i)]
<1>1. j \in 0 .. b.n - 1
  BY PlaceInBlock
<1>2. u[j] = IF c.delta # "none" THEN b.v[j] ELSE Residual(c, b, j)
  BY <1>1, WordsComeBack
<1>3. InLane(c, cd, b.n, u, a, k, i)
      = IF HasAnchors(c) /\ ~c.nobc THEN Widen(Madd(c, cd), Plus(u[j], x)) ELSE Widen(Madd(c, cd), u[j])
  BY Zenon DEF InLane
<1>4. Madd(c, cd) => LaneWord(c, b, j) < Half
  BY <1>1, MaddIsSafe
<1>5. LaneWord(c, b, j) \in Int
  <2>1. b.v[j] \in Int
    BY <1>1, WordSizeType DEF Fits, Word
  <2>2. HasAnchors(c) => WindowsAnchor(c, b, j) \in Int
    BY <1>1, ResidualOfAnchor, WordSizeType DEF Word
  <2>. QED BY <2>1, <2>2 DEF LaneWord
<1>6. Half \in Nat
  BY HalfAssumption
<1> HIDE DEF j, cd, u, x
<1>7. Widen(Madd(c, cd), LaneWord(c, b, j)) = LaneWord(c, b, j)
  BY <1>4, <1>5, <1>6 DEF Widen
<1>8. CASE HasAnchors(c)
  <2>1. x = WindowsAnchor(c, b, j)
    BY <1>8, LanesAnchor DEF x, j
  <2>2. /\ u[j] = Residual(c, b, j) /\ WindowsAnchor(c, b, j) \in Word /\ b.v[j] \in Word
        /\ Residual(c, b, j) = Minus(b.v[j], WindowsAnchor(c, b, j))
        /\ Residual(c, b, j) = b.v[j] - WindowsAnchor(c, b, j)
    BY <1>1, <1>2, <1>8, ResidualOfAnchor
  <2>3. CASE c.nobc
    <3>1. LaneWord(c, b, j) = u[j]
      BY <1>8, <2>2, <2>3 DEF LaneWord
    <3>. QED BY <1>3, <1>7, <1>8, <2>3, <3>1 DEF u, cd, j
  <2>4. CASE ~c.nobc
    <3>1. Plus(u[j], x) = b.v[j]
      <4>1. WindowsAnchor(c, b, j) \in Int
        BY <2>2, WordSizeType DEF Word
      <4>. QED BY <2>1, <2>2, <4>1, PlusMinus
    <3>2. LaneWord(c, b, j) = b.v[j]
      BY <2>4 DEF LaneWord
    <3>. QED BY <1>3, <1>7, <1>8, <2>4, <3>1, <3>2 DEF u, cd, j
  <2>. QED BY <2>3, <2>4
<1>9. CASE ~HasAnchors(c)
  <2>1. u[j] = b.v[j]
    <3>1. c.delta = "none" => Residual(c, b, j) = b.v[j]
      BY <1>9, Zenon DEF Residual
    <3>. QED BY <1>2, <3>1
  <2>2. LaneWord(c, b, j) = b.v[j]
    BY <1>9 DEF LaneWord
  <2>. QED BY <1>3, <1>7, <1>9, <2>1, <2>2 DEF u, cd, j
<1>. QED BY <1>8, <1>9

\* Lane and scalar, of the last decode or the next, add up to the word.
LanesAdd(c, b, cd, old) ==
  LET u == Words0(c, cd, b.n)
      rounds == Rounds(c, b.n)
  IN  \A k \in 0 .. NumBlk(c, b.n) - 1 :
        LET ab == CHOOSE ab \in 0 .. b.n : <<ab, k>> \in rounds
            a  == IF HasAnchors(c) THEN AnchorsAt(c, cd, b.n, old, ab) ELSE <<>>
        IN  /\ \A q \in rounds : q[2] = k <=> q = <<ab, k>>
            /\ \A i \in 0 .. c.kBlk - 1 :
                 InLane(c, cd, b.n, u, a, k, i)
                   + (IF c.nobc /\ HasAnchors(c) THEN a[AnchorOf(c, Window(c, b.n), k, i)] ELSE 0)
                 = b.v[k * c.kBlk + i]

LEMMA LanesOfBlock ==
  ASSUME NEW c, NEW b, Fits(c, b), Entitled(c, b), NEW s, Shaped(s), NEW t, Shaped(t)
  PROVE  LanesAdd(c, b, Code(c, b, s), t.anchor)
<1> DEFINE cd == Code(c, b, s)
           u == Words0(c, cd, b.n)
           rounds == Rounds(c, b.n)
           w == Window(c, b.n)
           B == NumBlk(c, b.n)
<1> SUFFICES ASSUME NEW k \in 0 .. B - 1
             PROVE  LET ab == CHOOSE ab \in 0 .. b.n : <<ab, k>> \in rounds
                        a  == IF HasAnchors(c)
                                THEN AnchorsAt(c, cd, b.n, t.anchor, ab) ELSE <<>>
                    IN  /\ \A q \in rounds : q[2] = k <=> q = <<ab, k>>
                        /\ \A i \in 0 .. c.kBlk - 1 :
                             InLane(c, cd, b.n, u, a, k, i)
                               + (IF c.nobc /\ HasAnchors(c) THEN a[AnchorOf(c, w, k, i)] ELSE 0)
                             = b.v[k * c.kBlk + i]
  BY DEF LanesAdd
<1> DEFINE ab == CHOOSE ab \in 0 .. b.n : <<ab, k>> \in rounds
           a  == IF HasAnchors(c) THEN AnchorsAt(c, cd, b.n, t.anchor, ab) ELSE <<>>
<1>1. /\ \A m \in 0 .. B - 1 : RoundOf(c, b.n, m) \in 0 .. b.n
      /\ \A p : p \in rounds <=> \E m \in 0 .. B - 1 : p = <<RoundOf(c, b.n, m), m>>
  BY RoundsAre DEF Fits
<1>2. ab = RoundOf(c, b.n, k)
  <2> DEFINE r == RoundOf(c, b.n, k)
  <2>1. r \in 0 .. b.n /\ <<r, k>> \in rounds
    BY <1>1
  <2>2. ASSUME NEW x, <<x, k>> \in rounds PROVE x = r
    <3>1. PICK m \in 0 .. B - 1 : <<x, k>> = <<RoundOf(c, b.n, m), m>>
      BY <1>1, <2>2
    <3>. QED BY <3>1
  <2> HIDE DEF r, rounds
  <2>3. ab \in 0 .. b.n /\ <<ab, k>> \in rounds
    BY <2>1
  <2> HIDE DEF ab
  <2>4. ab = r
    BY <2>2, <2>3
  <2>. QED BY <2>4 DEF r
<1>3. \A q \in rounds : q[2] = k <=> q = <<ab, k>>
  <2> SUFFICES ASSUME NEW q \in rounds PROVE q[2] = k <=> q = <<ab, k>>
    OBVIOUS
  <2>1. PICK m \in 0 .. B - 1 : q = <<RoundOf(c, b.n, m), m>>
    BY <1>1
  <2> HIDE DEF ab
  <2>. QED BY <1>2, <2>1
<1>4. HasAnchors(c) => a = AnchorsFor(c, b, s, t, k)
  <2> HIDE DEF ab
  <2>. QED BY <1>2 DEF AnchorsFor
<1> HIDE DEF a, ab, rounds
<1>5. ASSUME NEW i \in 0 .. c.kBlk - 1
      PROVE  InLane(c, cd, b.n, u, a, k, i)
               + (IF c.nobc /\ HasAnchors(c) THEN a[AnchorOf(c, w, k, i)] ELSE 0)
             = b.v[k * c.kBlk + i]
  <2> DEFINE j == k * c.kBlk + i
             lane == InLane(c, cd, b.n, u, a, k, i)
             x == a[AnchorOf(c, w, k, i)]
  <2>1. lane = LaneWord(c, b, j)
    BY <1>4, LaneIs
  <2>2. j \in 0 .. b.n - 1
    BY PlaceInBlock
  <2>3. b.v[j] \in Int
    BY <2>2, WordSizeType DEF Fits, Word
  <2>4. HasAnchors(c) => x = WindowsAnchor(c, b, j) /\ WindowsAnchor(c, b, j) \in Int
    <3>1. HasAnchors(c) => WindowsAnchor(c, b, j) \in Word
      BY <2>2, ResidualOfAnchor
    <3>2. HasAnchors(c) => x = WindowsAnchor(c, b, j)
      BY <1>4, LanesAnchor
    <3>. QED BY <3>1, <3>2, WordSizeType DEF Word
  <2> HIDE DEF lane, x, j
  <2>5. lane + (IF c.nobc /\ HasAnchors(c) THEN x ELSE 0) = b.v[j]
    BY <2>1, <2>3, <2>4 DEF LaneWord
  <2>. QED BY <2>5 DEF lane, x, j
<1> HIDE DEF u, w, cd, B
<1>. QED BY <1>3, <1>5 DEF a, ab

----------------------------------------------------------------------------
(* The sum *)

\* What is added for word j while it is decoded, the scalars of simdcomp included.
Share(c, b, j) ==
  IF HasAnchors(c) /\ c.nobc /\ c.pfor THEN b.v[j] - WindowsAnchor(c, b, j) ELSE b.v[j]

LEMMA ShareType ==
  ASSUME NEW c, NEW b, Fits(c, b), NEW j \in 0 .. b.n - 1
  PROVE  Share(c, b, j) \in Int /\ b.v[j] \in Int
<1>1. b.v[j] \in Int
  BY WordSizeType DEF Fits, Word
<1>2. HasAnchors(c) => WindowsAnchor(c, b, j) \in Int
  BY ResidualOfAnchor, WordSizeType DEF Word
<1>. QED BY <1>1, <1>2 DEF Share

\* With the scalars of the block it adds the word's share.
LEMMA LaneAndScalar ==
  ASSUME NEW c, NEW b, Fits(c, b), Entitled(c, b),
         NEW s, Shaped(s), NEW t, Shaped(t),
         NEW k \in 0 .. NumBlk(c, b.n) - 1, NEW i \in 0 .. c.kBlk - 1, NEW a,
         HasAnchors(c) => a = AnchorsFor(c, b, s, t, k)
  PROVE  InLane(c, Code(c, b, s), b.n, Words0(c, Code(c, b, s), b.n), a, k, i)
           + InScalar(c, b.n, a, k, i)
         = Share(c, b, k * c.kBlk + i)
<1> DEFINE j == k * c.kBlk + i
           lane == InLane(c, Code(c, b, s), b.n, Words0(c, Code(c, b, s), b.n), a, k, i)
           x == a[AnchorOf(c, Window(c, b.n), k, i)]
<1>1. lane = LaneWord(c, b, j)
  BY LaneIs
<1>2. j \in 0 .. b.n - 1
  BY PlaceInBlock
<1>3. b.v[j] \in Int
  BY <1>2, ShareType
<1>4. HasAnchors(c) => x = WindowsAnchor(c, b, j) /\ WindowsAnchor(c, b, j) \in Int
  <2>1. HasAnchors(c) => WindowsAnchor(c, b, j) \in Word
    BY <1>2, ResidualOfAnchor
  <2>2. HasAnchors(c) => x = WindowsAnchor(c, b, j)
    BY LanesAnchor
  <2>. QED BY <2>1, <2>2, WordSizeType DEF Word
<1>5. InScalar(c, b.n, a, k, i) = IF HasAnchors(c) /\ c.nobc /\ ~c.pfor THEN x ELSE 0
  BY DEF InScalar
<1> HIDE DEF lane, x, j
<1>6. lane + InScalar(c, b.n, a, k, i) = Share(c, b, j)
  <2>1. CASE HasAnchors(c) /\ c.nobc /\ c.pfor
    BY <1>1, <1>3, <1>4, <1>5, <2>1 DEF LaneWord, Share
  <2>2. CASE HasAnchors(c) /\ c.nobc /\ ~c.pfor
    BY <1>1, <1>3, <1>4, <1>5, <2>2 DEF LaneWord, Share
  <2>3. CASE ~(HasAnchors(c) /\ c.nobc)
    BY <1>1, <1>3, <1>5, <2>3 DEF LaneWord, Share
  <2>. QED BY <2>1, <2>2, <2>3
<1>. QED BY <1>6 DEF lane, j

\* One block after the other, whatever the rounds are.
LEMMA SumOfRounds ==
  ASSUME NEW c, NEW b, Fits(c, b), NEW f,
         DOMAIN f = Rounds(c, b.n),
         \A k \in 0 .. NumBlk(c, b.n) - 1 :
           f[<<RoundOf(c, b.n, k), k>>]
           = SumFunctionOnSet([i \in 0 .. c.kBlk - 1 |-> Share(c, b, k * c.kBlk + i)],
                              0 .. c.kBlk - 1)
  PROVE  SumFunction(f) = SumFunctionOnSet([j \in 0 .. b.n - 1 |-> Share(c, b, j)], 0 .. b.n - 1)
<1> DEFINE K == c.kBlk
           n == b.n
           B == NumBlk(c, b.n)
           R == Rounds(c, b.n)
           S == 0 .. B - 1
           h == [k \in S |-> <<RoundOf(c, b.n, k), k>>]
           all == [j \in 0 .. b.n - 1 |-> Share(c, b, j)]
           part == [k \in S |-> SumFunctionOnSet([i \in 0 .. K - 1 |-> Share(c, b, k * K + i)], 0 .. K - 1)]
<1>1. B \in Nat \ {0} /\ n = B * K /\ K \in Nat \ {0}
  BY RoundsAre, WindowOf DEF Fits
<1>2. \A p : p \in R <=> \E k \in S : p = <<RoundOf(c, b.n, k), k>>
  BY RoundsAre DEF Fits
<1>3. IsFiniteSet(S)
  <2>1. 0 \in Int /\ B - 1 \in Int
    BY <1>1
  <2>. QED BY <2>1, FS_Interval
<1>4. \A k \in S : h[k] \in R /\ h[k][2] = k
  BY <1>2
<1>5. h \in [S -> R]
  BY <1>4
<1>6. h \in Bijection(S, R)
  <2>1. \A x, y \in S : h[x] = h[y] => x = y
    BY <1>4, Zenon
  <2>2. \A y \in R : \E x \in S : h[x] = y
    <3> SUFFICES ASSUME NEW y \in R PROVE \E x \in S : h[x] = y
      OBVIOUS
    <3>1. PICK k \in S : y = <<RoundOf(c, b.n, k), k>>
      BY <1>2
    <3>2. h[k] = y
      BY <3>1
    <3>. QED BY <3>2
  <2> HIDE DEF h, R, S
  <2>. QED BY <1>5, <2>1, <2>2 DEF Bijection, Injection, Surjection, IsInjective
<1>7. IsFiniteSet(R)
  <2>1. R = {h[k] : k \in S}
    BY <1>2
  <2> HIDE DEF h, R, S
  <2>2. IsFiniteSet({h[k] : k \in S})
    BY <1>3, FiniteImage
  <2>. QED BY <2>1, <2>2
<1>8. \A j \in 0 .. B * K - 1 : all[j] \in Int
  BY <1>1, ShareType
<1>9. \A k \in S : part[k] = SumFunctionOnSet([i \in 0 .. K - 1 |-> all[k * K + i]], 0 .. K - 1)
  <2> SUFFICES ASSUME NEW k \in S
               PROVE  part[k] = SumFunctionOnSet([i \in 0 .. K - 1 |-> all[k * K + i]], 0 .. K - 1)
    OBVIOUS
  <2>1. \A i \in 0 .. K - 1 : all[k * K + i] = Share(c, b, k * K + i)
    BY PlaceInBlock
  <2>2. [i \in 0 .. K - 1 |-> all[k * K + i]] = [i \in 0 .. K - 1 |-> Share(c, b, k * K + i)]
    <3> HIDE DEF all, K
    <3>. QED BY <2>1
  <2>3. part[k] = SumFunctionOnSet([i \in 0 .. K - 1 |-> Share(c, b, k * K + i)], 0 .. K - 1)
    OBVIOUS
  <2>. QED BY <2>2, <2>3
<1>10. \A k \in S : part[k] = f[h[k]]
  OBVIOUS
<1>11. \A k \in S : part[k] \in Int
  <2> SUFFICES ASSUME NEW k \in S PROVE part[k] \in Int
    OBVIOUS
  <2> DEFINE g == [i \in 0 .. K - 1 |-> Share(c, b, k * K + i)]
             I == 0 .. K - 1
  <2>1. part[k] = SumFunctionOnSet(g, I)
    OBVIOUS
  <2>2. \A i \in I : g[i] \in Int
    BY PlaceInBlock, ShareType
  <2>3. IsFiniteSet(I)
    <3>1. 0 \in Int /\ K - 1 \in Int
      BY <1>1
    <3>. QED BY <3>1, FS_Interval
  <2> HIDE DEF g, I
  <2>4. SumFunctionOnSet(g, I) \in Int
    BY <2>2, <2>3, SumType
  <2>. QED BY <2>1, <2>4
<1>12. SumFunction(f) = SumFunctionOnSet(f, R)
  BY DEF SumFunction
<1>13. \A y \in R : f[y] \in Int
  <2> SUFFICES ASSUME NEW y \in R PROVE f[y] \in Int
    OBVIOUS
  <2>1. PICK k \in S : y = <<RoundOf(c, b.n, k), k>>
    BY <1>2
  <2>2. y = h[k]
    BY <2>1
  <2>. QED BY <1>10, <1>11, <2>2
<1> HIDE DEF h, R, part, all
<1>14. SumFunctionOnSet(part, S) = SumFunctionOnSet(f, R)
  <2> HIDE DEF S
  <2>. QED BY <1>3, <1>6, <1>7, <1>10, <1>13, SumPermuted
<1>15. SumFunctionOnSet(part, 0 .. B - 1) = SumFunctionOnSet(all, 0 .. B * K - 1)
  <2> HIDE DEF B, K
  <2>1. B \in Nat
    BY <1>1
  <2>2. BlockSums(B, K, all, part)
    BY <1>9 DEF BlockSums
  <2>. QED BY <1>1, <1>8, <2>1, <2>2, SumByBlocks
<1>16. SumFunctionOnSet(all, 0 .. B * K - 1) = SumFunctionOnSet(all, 0 .. b.n - 1)
  BY <1>1
<1>. QED BY <1>12, <1>14, <1>15, <1>16 DEF all

\* The anchors that TurboPFor adds at the end are those it left out.
LEMMA AnchorsMakeUp ==
  ASSUME NEW c, NEW b, Fits(c, b), HasAnchors(c), c.nobc, c.pfor,
         NEW s, Shaped(s), NEW t, Shaped(t)
  PROVE  SumFunctionOnSet([j \in 0 .. b.n - 1 |-> Share(c, b, j)], 0 .. b.n - 1)
           + AnchorSum(c, Code(c, b, s), b.n, t.anchor)
         = SumFunctionOnSet(b.v, 0 .. b.n - 1)
<1> DEFINE n == b.n
           w == Window(c, b.n)
           N == NumAnchors(c, b.n)
           f == [j \in 0 .. b.n - 1 |-> Share(c, b, j)]
           anchors == AnchorsAt(c, Code(c, b, s), b.n, t.anchor, 0)
           e == [j \in 0 .. b.n - 1 |-> WindowsAnchor(c, b, j)]
           g == [a \in 0 .. N - 1 |-> w * Anchor(c, b, a)]
           S == 0 .. n - 1
           T == 0 .. N - 1
<1>1. n \in Nat /\ w \in Nat \ {0} /\ N \in Nat \ {0} /\ n = N * w
  <2>1. Sound(c) /\ Accepts(c, b.n) /\ b.n \in Nat
    BY DEF Fits
  <2>. QED BY <2>1, WindowOf, AnchorOfWindow
<1>2. IsFiniteSet(S) /\ IsFiniteSet(T)
  <2>1. 0 \in Int /\ n - 1 \in Int /\ N - 1 \in Int
    BY <1>1
  <2>. QED BY <2>1, FS_Interval
<1>3. ~Interleaved(c)
  BY DEF Fits, Sound, Interleaved
<1>4. \A a \in T : anchors[a] = Anchor(c, b, a) /\ Anchor(c, b, a) \in Int
  <2> SUFFICES ASSUME NEW a \in T PROVE anchors[a] = Anchor(c, b, a) /\ Anchor(c, b, a) \in Int
    OBVIOUS
  <2>1. Anchor(c, b, a) \in Word
    BY AnchorOfWindow
  <2>2. 0 \in Nat
    OBVIOUS
  <2>3. anchors[a] = Anchor(c, b, a)
    BY <1>3, <2>2, AnchorsComeBack
  <2>. QED BY <2>1, <2>3, WordSizeType DEF Word
<1>5. \A j \in S : e[j] \in Int /\ f[j] \in Int /\ b.v[j] = f[j] + e[j]
  <2> SUFFICES ASSUME NEW j \in S PROVE e[j] \in Int /\ f[j] \in Int /\ b.v[j] = f[j] + e[j]
    OBVIOUS
  <2>1. b.v[j] \in Int /\ WindowsAnchor(c, b, j) \in Int
    BY ResidualOfAnchor, WordSizeType DEF Word
  <2>2. Share(c, b, j) = b.v[j] - WindowsAnchor(c, b, j)
    BY DEF Share
  <2>. QED BY <2>1, <2>2
<1>6. AnchorSum(c, Code(c, b, s), b.n, t.anchor) = w * SumFunctionOnSet(anchors, T)
  BY DEF AnchorSum
<1>7. BlockSums(N, w, e, g)
  <2> SUFFICES ASSUME NEW a \in T
               PROVE  g[a] = SumFunctionOnSet([i \in 0 .. w - 1 |-> e[a * w + i]], 0 .. w - 1)
    BY DEF BlockSums
  <2> DEFINE p == [i \in 0 .. w - 1 |-> e[a * w + i]]
             I == 0 .. w - 1
             m == Anchor(c, b, a)
  <2>1. m \in Int
    BY <1>4
  <2>2. ASSUME NEW i \in I PROVE p[i] = m
    <3> DEFINE j == a * w + i
    <3>0. a \in Nat /\ a + 1 <= N
      BY <1>1
    <3>1. j \in S /\ j \div w = a
      <4> HIDE DEF w, N, n
      <4>1. a * w \in Nat /\ (a + 1) * w <= N * w /\ (a + 1) * w = a * w + w
        BY <1>1, <3>0, MulMono, SMT
      <4>2. i \in Nat /\ i < w
        BY <1>1
      <4>3. j \in 0 .. n - 1
        BY <1>1, <4>1, <4>2
      <4>4. (a * w + i) \div w = a
        BY <1>1, <3>0, <4>2, DivUnique
      <4>. QED BY <4>3, <4>4
    <3>2. e[j] = WindowsAnchor(c, b, j)
      BY <3>1
    <3>3. p[i] = e[j]
      BY <2>2
    <3>4. WindowsAnchor(c, b, j) = Anchor(c, b, j \div w)
      BY DEF WindowsAnchor
    <3> HIDE DEF j, p, e, m, w
    <3>5. p[i] = Anchor(c, b, a)
      BY <3>1, <3>2, <3>3, <3>4
    <3>. QED BY <3>5 DEF m
  <2>3. IsFiniteSet(I) /\ Cardinality(I) = w
    <3> HIDE DEF w
    <3>1. 0 \in Int /\ w - 1 \in Int
      BY <1>1
    <3>2. IsFiniteSet(0 .. w - 1) /\ Cardinality(0 .. w - 1) = IF 0 > w - 1 THEN 0 ELSE w - 1 - 0 + 1
      BY <3>1, FS_Interval
    <3>. QED BY <1>1, <3>2
  <2>4. g[a] = w * m
    OBVIOUS
  <2> HIDE DEF p, I, m
  <2>5. SumFunctionOnSet(p, I) = w * m
    <3>1. SumFunctionOnSet(p, I) = Cardinality(I) * m
      BY <2>1, <2>2, <2>3, SumConstant
    <3>. QED BY <2>3, <3>1
  <2>. QED BY <2>4, <2>5 DEF p, I
<1> HIDE DEF f, e, g, anchors
<1>8. SumFunctionOnSet(g, T) = SumFunctionOnSet(e, S)
  <2>1. \A j \in 0 .. N * w - 1 : e[j] \in Int
    BY <1>1, <1>5
  <2>2. N \in Nat /\ n = N * w
    BY <1>1
  <2> HIDE DEF N, w, n
  <2>3. SumFunctionOnSet(g, 0 .. N - 1) = SumFunctionOnSet(e, 0 .. N * w - 1)
    BY <1>1, <1>7, <2>1, <2>2, SumByBlocks
  <2>. QED BY <2>2, <2>3
<1>9. SumFunctionOnSet(g, T) = w * SumFunctionOnSet(anchors, T)
  <2>1. \A a \in T : anchors[a] \in Int /\ g[a] = w * anchors[a]
    BY <1>4 DEF g
  <2>2. w \in Int
    BY <1>1
  <2> HIDE DEF w, T
  <2>. QED BY <1>2, <2>1, <2>2, SumScaled
<1>10. SumFunctionOnSet(b.v, S) = SumFunctionOnSet(f, S) + SumFunctionOnSet(e, S)
  <2> DEFINE v == b.v
  <2>1. \A j \in S : f[j] \in Int /\ e[j] \in Int /\ v[j] = f[j] + e[j]
    BY <1>5
  <2> HIDE DEF v, S
  <2>2. SumFunctionOnSet(v, S) = SumFunctionOnSet(f, S) + SumFunctionOnSet(e, S)
    BY <1>2, <2>1, SumAdd
  <2>. QED BY <2>2 DEF v
<1>. QED BY <1>6, <1>8, <1>9, <1>10 DEF f

\* Every block that may be encoded adds up to less than two words can hold.
LEMMA SumHasRoom ==
  ASSUME NEW c, NEW b, Fits(c, b)
  PROVE  /\ SumFunctionOnSet(b.v, 0 .. b.n - 1) \in Nat
         /\ SumFunctionOnSet(b.v, 0 .. b.n - 1) < WordSize * WordSize
         /\ SumFunction(b.v) = SumFunctionOnSet(b.v, 0 .. b.n - 1)
<1> DEFINE v == b.v
           n == b.n
           M == WordSize
           S == 0 .. n - 1
           x == SumFunctionOnSet(v, S)
<1>1. M \in Nat \ {0} /\ n \in Nat /\ n <= M /\ v \in [S -> 0 .. M - 1] /\ M - 1 \in Nat
  <2>1. M \in Nat \ {0}
    BY WordSizeType
  <2>2. n \in Nat /\ n <= ScratchLen /\ v \in [S -> 0 .. M - 1]
    BY DEF Fits, Word
  <2>. QED BY <2>1, <2>2, ScratchAssumption
<1>2. DOMAIN v = S
  BY <1>1
<1>3. SumFunction(v) = x
  BY <1>2 DEF SumFunction
<1> HIDE DEF v, n, M
<1>4. IsFiniteSet(S) /\ Cardinality(S) = n
  <2>1. 0 \in Int /\ n - 1 \in Int
    BY <1>1
  <2>2. IsFiniteSet(0 .. n - 1) /\ Cardinality(0 .. n - 1) = IF 0 > n - 1 THEN 0 ELSE n - 1 - 0 + 1
    BY <2>1, FS_Interval
  <2>. QED BY <1>1, <2>2
<1>5. \A i \in S : v[i] \in 0 .. M - 1
  BY <1>1
<1> HIDE DEF S
<1>6. x \in 0 .. Cardinality(S) * (M - 1)
  <2> DEFINE m == M - 1
  <2>1. m \in Nat /\ \A i \in S : v[i] \in 0 .. m
    BY <1>1, <1>5
  <2> HIDE DEF m
  <2>2. SumFunctionOnSet(v, S) \in 0 .. Cardinality(S) * m
    BY <1>4, <2>1, SumBounds
  <2>. QED BY <2>2 DEF m
<1> HIDE DEF x
<1>7. n * (M - 1) <= M * (M - 1) /\ M * (M - 1) = M * M - M /\ n * (M - 1) \in Nat /\ M * M \in Nat
  BY <1>1, MulMono, SMT
<1>8. x \in Nat /\ x < M * M
  BY <1>1, <1>4, <1>6, <1>7
<1>. QED BY <1>3, <1>8 DEF x, v, n, M, S

\* Decoding gives the sum of the block.
LEMMA TotalIsTrue ==
  ASSUME NEW c, NEW b, Fits(c, b), Entitled(c, b), NEW s, Shaped(s), NEW t, Shaped(t)
  PROVE  Total(c, Code(c, b, s), b.n, t.anchor) = SumFunction(b.v)
<1> DEFINE cd == Code(c, b, s)
           n == b.n
           u == Words0(c, cd, n)
           R == Rounds(c, n)
           a == [ab \in {p[1] : p \in R} |->
                   IF HasAnchors(c) THEN AnchorsAt(c, cd, n, t.anchor, ab) ELSE <<>>]
           ofBlock == [p \in R |->
                         SumFunction([i \in 0 .. c.kBlk - 1 |->
                           InLane(c, cd, n, u, a[p[1]], p[2], i)
                             + InScalar(c, n, a[p[1]], p[2], i)])]
           f == [j \in 0 .. b.n - 1 |-> Share(c, b, j)]
           S == 0 .. b.n - 1
<1>1. Total(c, cd, n, t.anchor)
      = (SumFunction(ofBlock) + AnchorSum(c, cd, n, t.anchor)) % (WordSize * WordSize)
  BY DEF Total
<1>2. SumFunction(ofBlock) = SumFunctionOnSet(f, S)
  <2>1. DOMAIN ofBlock = R
    OBVIOUS
  <2>2. ASSUME NEW k \in 0 .. NumBlk(c, n) - 1
        PROVE  ofBlock[<<RoundOf(c, n, k), k>>]
               = SumFunctionOnSet([i \in 0 .. c.kBlk - 1 |-> Share(c, b, k * c.kBlk + i)],
                                  0 .. c.kBlk - 1)
    <3> DEFINE r == RoundOf(c, n, k)
               p == <<r, k>>
               l == [i \in 0 .. c.kBlk - 1 |->
                       InLane(c, cd, n, u, a[r], k, i) + InScalar(c, n, a[r], k, i)]
               h == [i \in 0 .. c.kBlk - 1 |-> Share(c, b, k * c.kBlk + i)]
    <3>1. p \in R
      BY RoundsAre DEF Fits
    <3>2. HasAnchors(c) => a[r] = AnchorsFor(c, b, s, t, k)
      <4>1. r \in {q[1] : q \in R}
        <5>1. p[1] = r
          OBVIOUS
        <5> HIDE DEF p, r, R
        <5>. QED BY <3>1, <5>1
      <4>. QED BY <4>1 DEF AnchorsFor
    <3>3. ofBlock[p] = SumFunction(l)
      <4>1. p[1] = r /\ p[2] = k
        OBVIOUS
      <4> HIDE DEF p, r, R, a, u, cd, n
      <4>. QED BY <3>1, <4>1
    <3> HIDE DEF a
    <3>4. ASSUME NEW i \in 0 .. c.kBlk - 1
          PROVE  InLane(c, cd, n, u, a[r], k, i) + InScalar(c, n, a[r], k, i)
                 = Share(c, b, k * c.kBlk + i)
      <4> DEFINE x == a[r]
      <4>1. HasAnchors(c) => x = AnchorsFor(c, b, s, t, k)
        BY <3>2
      <4> HIDE DEF x
      <4>2. InLane(c, cd, n, u, x, k, i) + InScalar(c, n, x, k, i) = Share(c, b, k * c.kBlk + i)
        BY <4>1, LaneAndScalar
      <4>. QED BY <4>2 DEF x
    <3>5. l = h
      <4> HIDE DEF u, cd, n, r
      <4>. QED BY <3>4
    <3>6. SumFunction(l) = SumFunctionOnSet(h, 0 .. c.kBlk - 1)
      <4>1. DOMAIN h = 0 .. c.kBlk - 1
        OBVIOUS
      <4> HIDE DEF l, h
      <4>. QED BY <3>5, <4>1 DEF SumFunction
    <3>. QED BY <3>3, <3>6
  <2> HIDE DEF ofBlock, a, u
  <2>. QED BY <2>1, <2>2, SumOfRounds
<1> HIDE DEF ofBlock, a, u, R
<1>3. SumFunctionOnSet(f, S) + AnchorSum(c, cd, n, t.anchor) = SumFunctionOnSet(b.v, S)
  <2>1. CASE HasAnchors(c) /\ c.nobc /\ c.pfor
    BY <2>1, AnchorsMakeUp
  <2>2. CASE ~(HasAnchors(c) /\ c.nobc /\ c.pfor)
    <3>1. AnchorSum(c, cd, n, t.anchor) = 0
      BY <2>2 DEF AnchorSum
    <3>2. \A j \in S : f[j] = b.v[j] /\ f[j] \in Int
      BY <2>2, ShareType DEF Share
    <3>3. IsFiniteSet(S)
      <4>1. 0 \in Int /\ b.n - 1 \in Int
        BY DEF Fits
      <4>. QED BY <4>1, FS_Interval
    <3> DEFINE v == b.v
    <3>4. \A j \in S : f[j] \in Int /\ f[j] = v[j]
      BY <3>2
    <3> HIDE DEF f, S, v
    <3>5. SumFunctionOnSet(f, S) = SumFunctionOnSet(v, S)
      BY <3>3, <3>4, SumEqual
    <3>6. SumFunctionOnSet(f, S) \in Int
      BY <3>3, <3>4, SumType
    <3>. QED BY <3>1, <3>5, <3>6 DEF v
  <2>. QED BY <2>1, <2>2
<1>4. SumFunctionOnSet(b.v, S) % (WordSize * WordSize) = SumFunctionOnSet(b.v, S)
  <2> DEFINE x == SumFunctionOnSet(b.v, S)
             m == WordSize * WordSize
  <2>1. x \in Nat /\ x < m
    BY SumHasRoom
  <2>2. m \in Nat
    BY WordSizeType, Product
  <2> HIDE DEF x, m
  <2>3. x % m = x
    <3>1. m \in Nat \ {0}
      BY <2>1, <2>2
    <3>. QED BY <2>1, <3>1, Remainder
  <2>. QED BY <2>3 DEF x, m
<1>. QED BY <1>1, <1>2, <1>3, <1>4, SumHasRoom

\* Two words hold the sum.
LEMMA HalvesOf ==
  ASSUME NEW x \in Nat
  PROVE  Halves(x).lo + WordSize * Halves(x).hi = x
<1> DEFINE M == WordSize
<1>1. M \in Nat \ {0}
  BY WordSizeType
<1> HIDE DEF M
<1>2. x \in Int
  OBVIOUS
<1>3. x \div M \in Int /\ x % M \in 0 .. M - 1 /\ x = M * (x \div M) + (x % M)
  BY <1>1, <1>2, QuotientRemainder
<1> DEFINE q == x \div M
           r == x % M
<1>4. Halves(x).lo = r /\ Halves(x).hi = q
  BY DEF Halves, M
<1> HIDE DEF q, r
<1>5. q \in Int /\ r \in Int /\ x = M * q + r
  BY <1>3 DEF q, r
<1>6. M * q \in Int
  BY <1>1, <1>5
<1>7. r + M * q = x
  BY <1>5, <1>6
<1>. QED BY <1>4, <1>7 DEF M

----------------------------------------------------------------------------
(* The sessions of a thread *)

HistoryInv ==
  /\ codec \in Suites
  /\ DOMAIN held = Objects /\ DOMAIN code = Objects /\ DOMAIN scratch = Areas
  /\ \A r \in Areas : Shaped(scratch[r])
  /\ HistoryFree

\* So are the classes of the objects.
LEMMA ObjectsAreSound ==
  ASSUME codec \in Suites, NEW o \in Objects
  PROVE  Sound(codec[o])
<1>1. codec[o] \in Collection \cup Experiments
  BY SuitesAssumption, Zenon
<1>. QED BY <1>1, ClassesAreSound

LEMMA CleanShaped == Shaped(Clean)
BY DEF Shaped, Clean

\* Encoders and decoders write in the arrays and never replace them.
LEMMA ScratchStaysShaped ==
  ASSUME NEW c, NEW b, NEW cd, NEW n, NEW s, Shaped(s)
  PROVE  Shaped(ScratchAfterEncode(c, b, s)) /\ Shaped(ScratchAfterDecode(c, cd, n, s))
<1>1. Shaped(ScratchAfterEncode(c, b, s))
  BY DEF Shaped, ScratchAfterEncode, AnchorsIn, Overwrite
<1>2. ASSUME NEW a, DOMAIN a = DOMAIN s.anchor
      PROVE  Shaped([s EXCEPT !.anchor = a])
  BY <1>2 DEF Shaped
<1>3. \A ab : DOMAIN Unpacked(c, cd, n, s.anchor, ab) = DOMAIN s.anchor
  BY DEF Unpacked
<1>4. Shaped(ScratchAfterDecode(c, cd, n, s))
  BY <1>2, <1>3 DEF ScratchAfterDecode
<1>. QED BY <1>1, <1>4

LEMMA HistoryStep ==
  ASSUME \A b \in AllBlocks : b.n <= ScratchLen, HistoryInv, [Next]_vars
  PROVE  HistoryInv'
<1>1. ASSUME NEW o \in Objects, NEW b \in Blocks[o], EncodeArray(o, b)
      PROVE  HistoryInv'
  <2>1. b \in AllBlocks /\ b.n \in Nat /\ b.n <= ScratchLen /\ b # None
    BY BlocksAssumption, NoneAssumption, Zenon DEF AllBlocks
  <2>2. /\ codec[o].kBlk \in Nat \ {0} /\ codec[o].window \in Nat \ {0}
        /\ Area(o) \in Areas
    BY ObjectsAreSound DEF HistoryInv, Sound, Area
  <2>3. Code(codec[o], b, scratch[Area(o)]) = Code(codec[o], b, Clean)
    BY <1>1, <2>1, <2>2, CleanShaped, CodeOfAnyScratch, Zenon DEF EncodeArray, HistoryInv
  <2>4. HistoryFree'
    BY <1>1, <2>3, Zenon DEF EncodeArray, HistoryInv, HistoryFree
  <2>5. (\A r \in Areas : Shaped(scratch[r]))' /\ (DOMAIN scratch = Areas)'
    BY <1>1, <2>2, ScratchStaysShaped, Zenon DEF EncodeArray, HistoryInv
  <2>6. (codec \in Suites /\ DOMAIN held = Objects /\ DOMAIN code = Objects)'
    BY <1>1 DEF EncodeArray, HistoryInv
  <2>. QED BY <2>4, <2>5, <2>6 DEF HistoryInv
<1>2. ASSUME NEW o \in Objects, DecodeArray(o)
      PROVE  HistoryInv'
  <2>1. Area(o) \in Areas
    BY ObjectsAreSound DEF HistoryInv, Sound, Area
  <2>2. (\A r \in Areas : Shaped(scratch[r]))' /\ (DOMAIN scratch = Areas)'
    BY <1>2, <2>1, ScratchStaysShaped, Zenon DEF DecodeArray, HistoryInv
  <2>. QED BY <1>2, <2>2, Zenon DEF DecodeArray, HistoryInv, HistoryFree
<1>3. ASSUME NEW o \in Objects, clear(o)
      PROVE  HistoryInv'
  BY <1>3, Zenon DEF clear, HistoryInv, HistoryFree
<1>4. CASE UNCHANGED vars
  BY <1>4 DEF vars, HistoryInv, HistoryFree
<1>. QED BY <1>1, <1>2, <1>3, <1>4 DEF Next

\* If no block is larger than the scratch arrays, what an object stores is what
\* the first encoder of a new thread would have stored: encoded sizes do not
\* depend on the order of the codecs, and no stale anchor reaches a sum.
THEOREM StoredIsHistoryFree ==
  ASSUME \A b \in AllBlocks : b.n <= ScratchLen
  PROVE  Spec => []HistoryFree
<1>1. Init => HistoryInv
  BY CleanShaped DEF Init, HistoryInv, HistoryFree, Areas
<1>2. HistoryInv /\ [Next]_vars => HistoryInv'
  BY HistoryStep
<1>3. HistoryInv => HistoryFree
  BY DEF HistoryInv
<1>. QED BY <1>1, <1>2, <1>3, PTL DEF Spec

----------------------------------------------------------------------------
(* The sums of a session *)

SumInv ==
  /\ HistoryInv
  /\ DOMAIN out = Objects
  /\ \A o \in Objects :
       /\ held[o] # None => held[o] \in Blocks[o] /\ Accepts(codec[o], held[o].n)
       /\ out[o] # None => held[o] # None
  /\ SumIsTrue

\* An object that holds a block was given one that its class packs and decodes.
LEMMA HeldFits ==
  ASSUME \A b \in AllBlocks : b.n <= ScratchLen, SumInv, NEW o \in Objects, held[o] # None
  PROVE  /\ Fits(codec[o], held[o]) /\ code[o] = Code(codec[o], held[o], Clean)
         /\ Shaped(scratch[Area(o)]) /\ Area(o) \in Areas
<1>1. held[o] \in AllBlocks /\ Accepts(codec[o], held[o].n)
  BY Zenon DEF SumInv, AllBlocks
<1>2. Sound(codec[o])
  BY ObjectsAreSound DEF SumInv, HistoryInv
<1>3. held[o].n \in Nat /\ held[o].n <= ScratchLen /\ held[o].v \in [0 .. held[o].n - 1 -> Word]
  BY <1>1, BlocksAssumption, Zenon
<1>4. Area(o) \in Areas
  BY <1>2 DEF Sound, Area
<1>5. code[o] = Code(codec[o], held[o], Clean) /\ Shaped(scratch[Area(o)])
  BY <1>4, Zenon DEF SumInv, HistoryInv, HistoryFree
<1>. QED BY <1>1, <1>2, <1>3, <1>4, <1>5 DEF Fits

LEMMA SumInvStep ==
  ASSUME \A b \in AllBlocks : b.n <= ScratchLen, SumInv, HistoryInv', Next
  PROVE  SumInv'
<1>1. ASSUME NEW o \in Objects, NEW b \in Blocks[o], EncodeArray(o, b)
      PROVE  SumInv'
  BY <1>1, Zenon DEF EncodeArray, SumInv, HistoryInv, SumIsTrue
<1>2. ASSUME NEW o \in Objects, DecodeArray(o)
      PROVE  SumInv'
  <2> DEFINE total == Total(codec[o], code[o], held[o].n, scratch[Area(o)].anchor)
  <2>1. held[o] # None /\ codec' = codec /\ held' = held
        /\ out' = [out EXCEPT ![o] = Halves(total)]
    BY <1>2 DEF DecodeArray
  <2>2. Entitled(codec[o], held[o]) => total = SumFunction(held[o].v) /\ SumFunction(held[o].v) \in Nat
    <3>1. /\ Fits(codec[o], held[o]) /\ code[o] = Code(codec[o], held[o], Clean)
          /\ Shaped(scratch[Area(o)])
      BY <2>1, HeldFits
    <3>2. SumFunction(held[o].v) \in Nat
      BY <3>1, SumHasRoom
    <3>3. ASSUME Entitled(codec[o], held[o]) PROVE total = SumFunction(held[o].v)
      BY <3>1, <3>3, CleanShaped, TotalIsTrue
    <3>. QED BY <3>2, <3>3
  <2> HIDE DEF total
  <2>3. Entitled(codec[o], held[o])
        => Halves(total).lo + WordSize * Halves(total).hi = SumFunction(held[o].v)
    BY <2>2, HalvesOf
  <2>4. SumIsTrue'
    <3> SUFFICES ASSUME NEW p \in Objects, out'[p] # None, Entitled(codec[p], held[p])
                 PROVE  out'[p].lo + WordSize * out'[p].hi = SumFunction(held[p].v)
      BY <2>1, Zenon DEF SumIsTrue
    <3>1. CASE p = o
      <4>1. out'[o] = Halves(total)
        BY <2>1, Zenon DEF SumInv
      <4>. QED BY <2>3, <3>1, <4>1
    <3>2. CASE p # o
      <4>1. out'[p] = out[p]
        BY <2>1, <3>2, Zenon DEF SumInv
      <4>. QED BY <4>1, Zenon DEF SumInv, SumIsTrue
    <3>. QED BY <3>1, <3>2
  <2>. QED BY <2>1, <2>4, Zenon DEF SumInv
<1>3. ASSUME NEW o \in Objects, clear(o)
      PROVE  SumInv'
  BY <1>3, Zenon DEF clear, SumInv, HistoryInv, SumIsTrue
<1>. QED BY <1>1, <1>2, <1>3 DEF Next

\* The two facts of the invariant.
LEMMA SumInvInit == Init => SumInv
<1> SUFFICES ASSUME Init PROVE SumInv
  OBVIOUS
<1>1. HistoryInv
  BY CleanShaped DEF Init, HistoryInv, HistoryFree, Areas
<1>2. \A o \in Objects : held[o] = None /\ out[o] = None
  BY DEF Init
<1>3. DOMAIN out = Objects
  BY DEF Init
<1>. QED BY <1>1, <1>2, <1>3, Zenon DEF SumInv, SumIsTrue

LEMMA SumInvNext ==
  ASSUME \A b \in AllBlocks : b.n <= ScratchLen
  PROVE  SumInv /\ [Next]_vars => SumInv'
<1> SUFFICES ASSUME SumInv, [Next]_vars PROVE SumInv'
  OBVIOUS
<1>1. HistoryInv'
  BY HistoryStep DEF SumInv
<1>2. CASE Next
  BY <1>1, <1>2, SumInvStep
<1>3. CASE UNCHANGED vars
  BY <1>1, <1>3, Zenon DEF vars, SumInv, HistoryInv, SumIsTrue
<1>. QED BY <1>2, <1>3

\* Every block that is decoded, whatever was encoded or decoded in between, adds
\* up to the sum of its words in the two words behind the values.
THEOREM SumsAreTrue ==
  ASSUME \A b \in AllBlocks : b.n <= ScratchLen
  PROVE  Spec => []SumIsTrue
<1>1. SumInv => SumIsTrue
  BY DEF SumInv
<1>. QED BY <1>1, SumInvInit, SumInvNext, PTL DEF Spec

\* At any time the decoder of an object that holds a block would decode each
\* packed block in one round, with anchors that are unpacked by then, and each
\* lane, with its scalar, would add its word.
THEOREM LanesAreTrue ==
  ASSUME \A b \in AllBlocks : b.n <= ScratchLen
  PROVE  Spec => []LanesTrue
<1>1. SumInv => LanesTrue
  <2> SUFFICES ASSUME SumInv PROVE LanesTrue
    OBVIOUS
  <2> SUFFICES ASSUME NEW o \in Objects, held[o] # None, Entitled(codec[o], held[o])
               PROVE  LanesAdd(codec[o], held[o], code[o], scratch[Area(o)].anchor)
    BY DEF LanesTrue, LanesAdd
  <2>1. /\ Fits(codec[o], held[o]) /\ code[o] = Code(codec[o], held[o], Clean)
        /\ Shaped(scratch[Area(o)])
    BY HeldFits
  <2>. QED BY <2>1, CleanShaped, LanesOfBlock, Zenon
<1>. QED BY <1>1, SumInvInit, SumInvNext, PTL DEF Spec

============================================================================
