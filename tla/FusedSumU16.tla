----------------------------- MODULE FusedSumU16 ---------------------------
(***************************************************************************)
(* The physical uint16_t codecs with a fused sum.  EncodeArray cuts a      *)
(* block into blocks of kBlk words and packs each in as many bits as its   *)
(* largest word needs.  DecodeArray does not give the values back: it adds *)
(* them up while they are unpacked, and writes the two halves of the sum   *)
(* to out[length] and out[length + 1].                                     *)
(*                                                                         *)
(* The frame-of-reference ones store residuals from the minimum of each    *)
(* window and add these anchors again, lane by lane.  What differs between *)
(* the classes (simdcomp, TurboPFor, FastPFor; 128 and 256 bits; plain,    *)
(* FoR, hierarchical FoR, delta; anchors raw or packed) is told by the     *)
(* fields of a record:                                                     *)
(*   kBlk    words in a packed block       lanes  words in a register      *)
(*   window  words under one anchor        outer  words under a global one *)
(*   anchors "none", "raw", "packed" in blocks of kBlk, or "hier"          *)
(*   ahead   all anchors are unpacked before the first residual is         *)
(*   delta   "none", "local" (restarts in each register) or "carry"        *)
(*   pfor    residuals go to a PFor library, which keeps whole words       *)
(*   agg     "madd" or "unpack": the instruction that widens the words     *)
(*   gate    what has to be below 2^15 for madd: the "values", the         *)
(*           "residuals", or nothing, "none"                               *)
(*   nobc    anchors are added up in a scalar and not in the lanes         *)
(* A block is [n, v]: its length and its words v[0] ... v[n - 1].          *)
(***************************************************************************)
EXTENDS Words, Functions, FiniteSetsExt

CONSTANTS WordBits,    \* 16
          ScratchLen   \* 256 * 256, the words in s_res and in s_anchor

ASSUME BitsAssumption ==
  /\ WordBits \in Nat
  /\ WordSize = 2 ^ WordBits
  /\ \A b \in 0 .. WordBits : 2 ^ b \in Nat \ {0}
ASSUME ScratchAssumption == ScratchLen \in Nat /\ ScratchLen <= WordSize

CeilDiv(a, b) == (a + b - 1) \div b

\* Both windows shrink to the length of a shorter block.
Window(c, n) == IF c.window >= n THEN n ELSE c.window
Outer(c, n)  == IF c.outer >= n THEN n ELSE c.outer

NumBlk(c, n)     == n \div c.kBlk
NumAnchors(c, n) == n \div Window(c, n)
NumOuter(c, n)   == n \div Outer(c, n)
Ratio(c, n)      == Outer(c, n) \div Window(c, n)

\* The blocks of kBlk anchors, na_blk and nd_blk, the last one padded.
AnchorBlks(c, n) == CeilDiv(NumAnchors(c, n), c.kBlk)

HasAnchors(c)    == c.anchors # "none"
PackedAnchors(c) == c.anchors \in {"packed", "hier"}

\* The assertions of EncodeArray.  (The PFor libraries take other lengths too;
\* the program has none.)  The first hierarchical class pads no distances.
Accepts(c, n) ==
  /\ n > 0 /\ n % c.kBlk = 0
  /\ c.anchors = "hier" /\ c.scratch = "none" => NumAnchors(c, n) % c.kBlk = 0
  /\ HasAnchors(c) => n % Window(c, n) = 0
  /\ c.anchors = "hier" => n % Outer(c, n) = 0 /\ Outer(c, n) % Window(c, n) = 0

----------------------------------------------------------------------------
(* EncodeArray *)

MinIn(b, from, w) == Min({b.v[i] : i \in from .. from + w - 1})

Anchor(c, b, a) == MinIn(b, a * Window(c, b.n), Window(c, b.n))
Global(c, b, g) == MinIn(b, g * Outer(c, b.n), Outer(c, b.n))

\* bits_u16: as many bits as the largest of these words has.
BitsU16(v)    == CHOOSE k \in 0 .. WordBits : v < 2 ^ k /\ \A j \in 0 .. k - 1 : v >= 2 ^ j
MaxBits(vs) == BitsU16(Max(vs))

\* simdpack: the low bits of the words lo ... lo + n - 1.
SimdPack(f, lo, n, bits) == [b |-> bits, v |-> [i \in 0 .. n - 1 |-> f[lo + i] % 2 ^ bits]]

\* The words of a scratch array after n of f and zeros up to m are written.
Overwrite(old, f, n, m) ==
  [i \in DOMAIN old |-> IF i < n THEN f[i] ELSE IF i < m THEN 0 ELSE old[i]]

LocalAnchors(c, b) == [a \in 0 .. NumAnchors(c, b.n) - 1 |-> Anchor(c, b, a)]

Distances(c, b) ==
  [a \in 0 .. NumAnchors(c, b.n) - 1 |->
     Minus(Anchor(c, b, a), Global(c, b, a \div Ratio(c, b.n)))]

\* (Mutant: the last block of anchors is packed without padding.)
AnchorsUnpadded(c, b, old) ==
  Overwrite(old, LocalAnchors(c, b), NumAnchors(c, b.n), NumAnchors(c, b.n))

\* s_anchor once the anchors of b are in it, up to a whole block if packed.
AnchorsIn(c, b, old) ==
  LET n == NumAnchors(c, b.n)
  IN  Overwrite(old, LocalAnchors(c, b), n,
                IF c.anchors = "packed" THEN AnchorBlks(c, b.n) * c.kBlk ELSE n)

\* s_res while it holds the distances of the local anchors.
DistancesIn(c, b, old) ==
  Overwrite(old, Distances(c, b), NumAnchors(c, b.n), AnchorBlks(c, b.n) * c.kBlk)

AnchorChunk(c, f, ab) ==
  SimdPack(f, ab * c.kBlk, c.kBlk,
           MaxBits({f[ab * c.kBlk + i] : i \in 0 .. c.kBlk - 1}))

DistanceChunk(c, b, old, ab) ==
  LET d == Distances(c, b)
  IN  SimdPack(DistancesIn(c, b, old), ab * c.kBlk, c.kBlk, MaxBits({d[a] : a \in DOMAIN d}))

\* What is stored of the anchors: the words, blocks with a width of their own,
\* or raw global anchors and blocks of distances of one width, b_local.
AnchorRegion(c, b, s) ==
  IF c.anchors = "raw" THEN LocalAnchors(c, b)
  ELSE IF c.anchors = "packed" THEN
    [ab \in 0 .. AnchorBlks(c, b.n) - 1 |-> AnchorChunk(c, AnchorsIn(c, b, s.anchor), ab)]
  ELSE IF c.anchors = "hier" THEN
    [globals |-> [g \in 0 .. NumOuter(c, b.n) - 1 |-> Global(c, b, g)],
     blks    |-> [ab \in 0 .. AnchorBlks(c, b.n) - 1 |-> DistanceChunk(c, b, s.res, ab)]]
  ELSE <<>>

\* The first word of a delta chain: of the block, or of each register.
StartsChain(c, i) == i = 0 \/ (c.delta = "local" /\ i % c.lanes = 0)

\* The word that is packed for word i: its zigzag difference, its residual from
\* the anchor of its window (build_corrections), or itself.
Residual(c, b, i) ==
  CASE c.delta # "none" -> ZigzagEnc16(Minus(b.v[i], IF StartsChain(c, i) THEN 0 ELSE b.v[i - 1]))
    [] HasAnchors(c)    -> Minus(b.v[i], Anchor(c, b, i \div Window(c, b.n)))
    [] OTHER            -> b.v[i]

Residuals(c, b) == [i \in 0 .. b.n - 1 |-> Residual(c, b, i)]

\* A PFor library restores whole words; simdcomp has b_k bits of each.
Payload(c, r, k) ==
  SimdPack(r, k * c.kBlk, c.kBlk,
           IF c.pfor THEN WordBits
           ELSE MaxBits({r[k * c.kBlk + i] : i \in 0 .. c.kBlk - 1}))

Below(f, n) == \A i \in 0 .. n - 1 : f[i] < Half

\* madd_safe: the words that are aggregated are below 2^15.
MaddSafe(c, b) ==
  CASE c.gate = "values"    -> Below(b.v, b.n)
    [] c.gate = "residuals" -> Below(Residuals(c, b), b.n)
    [] OTHER                -> TRUE

Code(c, b, s) ==
  [madd    |-> MaddSafe(c, b),
   anchors |-> AnchorRegion(c, b, s),
   blks    |-> [k \in 0 .. NumBlk(c, b.n) - 1 |-> Payload(c, Residuals(c, b), k)]]

\* What EncodeArray leaves in the scratch arrays of its thread.
ScratchAfterEncode(c, b, s) ==
  IF HasAnchors(c)
    THEN [anchor |-> AnchorsIn(c, b, s.anchor),
          res    |-> Overwrite(s.res, Residuals(c, b), b.n, b.n)]
    ELSE s

----------------------------------------------------------------------------
(* DecodeArray *)

UnpackedAnchor(c, code, n, i) ==
  IF c.anchors = "packed"
    THEN code.anchors[i \div c.kBlk].v[i % c.kBlk]
    ELSE LET d == code.anchors.blks[i \div c.kBlk].v[i % c.kBlk]
         IN  IF i < NumAnchors(c, n)
               THEN Plus(d, code.anchors.globals[i \div Ratio(c, n)])
               ELSE d

\* (Mutant: a block of anchors is unpacked over its first half only.)
UnpackedShort(c, code, n, old, ab) ==
  [i \in DOMAIN old |->
     IF i < (ab + 1) * c.kBlk - 1 THEN UnpackedAnchor(c, code, n, i) ELSE old[i]]

\* s_anchor when its blocks up to ab are unpacked; the words behind them are
\* still those of the call before.
Unpacked(c, code, n, old, ab) ==
  [i \in DOMAIN old |->
     IF i < (ab + 1) * c.kBlk THEN UnpackedAnchor(c, code, n, i) ELSE old[i]]

Interleaved(c) == PackedAnchors(c) /\ ~c.ahead

\* The anchors that the residual blocks of round ab are decoded with.
AnchorsAt(c, code, n, old, ab) ==
  IF c.anchors = "raw" THEN code.anchors
  ELSE Unpacked(c, code, n, old, IF c.ahead THEN AnchorBlks(c, n) - 1 ELSE ab)

\* k0 .. k1 - 1: a block of kBlk anchors of w words each spans w blocks of kBlk.
Fed(c, n, ab) ==
  {k \in 0 .. NumBlk(c, n) - 1 : ab * Window(c, n) <= k /\ k < (ab + 1) * Window(c, n)}

\* The rounds of the decoder: <<ab, k>> when block k is decoded in round ab.
Rounds(c, n) ==
  IF Interleaved(c)
    THEN {p \in (0 .. AnchorBlks(c, n) - 1) \X (0 .. NumBlk(c, n) - 1) : p[2] \in Fed(c, n, p[1])}
    ELSE {0} \X (0 .. NumBlk(c, n) - 1)

\* Which anchor the kernels of decode_block add to word i of block k: one for the
\* block (uniform), one for each register or group of registers (scalar), or
\* several for the lanes of a register (half, quarter).
AnchorOf(c, w, k, i) ==
  LET first == (k * c.kBlk) \div w
      reg   == i \div c.lanes
  IN  IF w >= c.kBlk THEN first
      ELSE IF w >= c.lanes THEN first + reg \div (w \div c.lanes)
      ELSE first + reg * (c.lanes \div w) + (i % c.lanes) \div w

\* The signed multiply-add takes a word from 2^15 on for a negative number.
Widen(madd, v) == IF madd /\ v >= Half THEN v - WordSize ELSE v

Madd(c, code) == c.agg = "madd" /\ code.madd

\* The words of a delta chain: prefix sums with the carry of the block before.
Undelta(c, z, n) ==
  LET d[i \in 0 .. n - 1] ==
        IF StartsChain(c, i) THEN ZigzagDec16(z[i]) ELSE Plus(d[i - 1], ZigzagDec16(z[i]))
  IN  d

Stored(c, code, n) == [i \in 0 .. n - 1 |-> code.blks[i \div c.kBlk].v[i % c.kBlk]]

\* What lane i of block k adds to the sum, without the scalar part of nobc, when
\* u holds the words that were unpacked and a the anchors.
InLane(c, code, n, u, a, k, i) ==
  LET word == u[k * c.kBlk + i]
      anchor == a[AnchorOf(c, Window(c, n), k, i)]
  IN  IF HasAnchors(c) /\ ~c.nobc THEN Widen(Madd(c, code), Plus(word, anchor))
                                  ELSE Widen(Madd(c, code), word)

\* scalar_acc of lane i: simdcomp adds the anchors register by register.
InScalar(c, n, a, k, i) ==
  IF HasAnchors(c) /\ c.nobc /\ ~c.pfor THEN a[AnchorOf(c, Window(c, n), k, i)] ELSE 0

\* TurboPFor adds w times all anchors at the end.
AnchorSum(c, code, n, old) ==
  IF HasAnchors(c) /\ c.nobc /\ c.pfor
    THEN Window(c, n) * SumFunctionOnSet(AnchorsAt(c, code, n, old, 0), 0 .. NumAnchors(c, n) - 1)
    ELSE 0

Words0(c, code, n) ==
  IF c.delta = "none" THEN Stored(c, code, n) ELSE Undelta(c, Stored(c, code, n), n)

\* Both accumulators are 32 bits wide, two words.
Total(c, code, n, old) ==
  LET u == Words0(c, code, n)
      a == [ab \in {p[1] : p \in Rounds(c, n)} |->
              IF HasAnchors(c) THEN AnchorsAt(c, code, n, old, ab) ELSE <<>>]
      ofBlock == [p \in Rounds(c, n) |->
                    SumFunction([i \in 0 .. c.kBlk - 1 |->
                       InLane(c, code, n, u, a[p[1]], p[2], i) + InScalar(c, n, a[p[1]], p[2], i)])]
  IN  (SumFunction(ofBlock) + AnchorSum(c, code, n, old)) % (WordSize * WordSize)

\* out[length] and out[length + 1]
Halves(total) == [lo |-> total % WordSize, hi |-> total \div WordSize]

ScratchAfterDecode(c, code, n, s) ==
  IF PackedAnchors(c)
    THEN [s EXCEPT !.anchor = Unpacked(c, code, n, @, AnchorBlks(c, n) - 1)]
    ELSE s

============================================================================
