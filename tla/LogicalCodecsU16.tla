-------------------------- MODULE LogicalCodecsU16 -------------------------
(***************************************************************************)
(* The scalar logical codecs on uint16_t: delta, double delta, frame of    *)
(* reference (FoR), hierarchical FoR and run lengths.  An object is the    *)
(* record [data, meta] of its two vectors, compressed_data and metadata_.  *)
(* Put(st, b) is what AllocEncoded and EncodeArray, always called one      *)
(* after the other, make of the object st; Get(st, n) is the sequence of   *)
(* values DecodeArray writes to out[0], out[1], ... when asked for n.      *)
(***************************************************************************)
EXTENDS Words, Sequences, SequencesExt

CONSTANT WordBits   \* 16

ASSUME BitsAssumption == WordBits \in Nat /\ WordSize = 2 ^ WordBits

Fresh == [data |-> <<>>, meta |-> <<>>]

CeilDiv(a, b) == (a + b - 1) \div b
MinOf(s)      == Min({s[i] : i \in DOMAIN s})

\* The 0-based window number k of b, when b is cut into windows of w.
Window(b, w, k) == SubSeq(b, k * w + 1, Min({k * w + w, Len(b)}))

(***************************************************************************)
(* DeltaCodecU16 and DoubleDeltaCodecU16: compressed_data is resized to    *)
(* the length of the block and every element of it is written.             *)
(***************************************************************************)
Differences(b) == [i \in DOMAIN b |-> IF i = 1 THEN b[1] ELSE Minus(b[i], b[i - 1])]

ZigzagTail(d) == [i \in DOMAIN d |-> IF i = 1 THEN d[1] ELSE ZigzagEnc16(d[i])]

\* The prefix sums of d[1], Dec(d[2]), Dec(d[3]), ...
PrefixSums(d, n, Dec(_)) ==
  LET s[i \in 1 .. n] == IF i = 1 THEN d[1] ELSE Plus(s[i - 1], Dec(d[i]))
  IN  s

DeltaPut(st, b) == [st EXCEPT !.data = ZigzagTail(Differences(b))]
DeltaGet(st, n) == PrefixSums(st.data, n, ZigzagDec16)

Plain(d) == d

DoubleDeltaPut(st, b) == [st EXCEPT !.data = ZigzagTail(Differences(Differences(b)))]

DoubleDeltaGet(st, n) == PrefixSums(PrefixSums(st.data, n, ZigzagDec16), n, Plain)

(***************************************************************************)
(* FORCodecU16: windows of w values (0: the whole block), each an anchor,  *)
(* its minimum, and the offsets from it.  The anchors are interleaved with *)
(* the residuals, or, with sep, kept apart in metadata_.                   *)
(***************************************************************************)
EffectiveWindow(w, n) == IF w = 0 \/ w >= n THEN n ELSE w

Anchors(b, w) == [k \in 1 .. CeilDiv(Len(b), w) |-> MinOf(Window(b, w, k - 1))]

Residuals(b, w) ==
  [i \in DOMAIN b |-> Minus(b[i], MinOf(Window(b, w, (i - 1) \div w)))]

\* (Mutant: metadata_ keeps the anchors of the first block put in the object.)
FORPutOnce(w, sep, st, b) ==
  LET v == EffectiveWindow(w, Len(b))
      a == Anchors(b, v)
      s == Residuals(b, v)
  IN  IF sep
        THEN [data |-> s, meta |-> IF st.meta = <<>> THEN a ELSE st.meta]
        ELSE [st EXCEPT !.data =
                FlattenSeq([k \in DOMAIN a |-> <<a[k]>> \o Window(s, v, k - 1)])]

FORPut(w, sep, st, b) ==
  LET v == EffectiveWindow(w, Len(b))
      a == Anchors(b, v)
      s == Residuals(b, v)
  IN  IF sep
        THEN [data |-> s, meta |-> a]
        ELSE [st EXCEPT !.data =
                FlattenSeq([k \in DOMAIN a |-> <<a[k]>> \o Window(s, v, k - 1)])]

FORGet(w, sep, st, n) ==
  LET v == EffectiveWindow(w, n)
      k(i) == (i - 1) \div v   \* the window of out[i - 1]
  IN  [i \in 1 .. n |->
        IF sep THEN Plus(st.data[i], st.meta[k(i) + 1])
               ELSE Plus(st.data[i + k(i) + 1], st.data[k(i) * (v + 1) + 1])]

(***************************************************************************)
(* FORHierarchicalCodecU16: one anchor for each global window of gw values *)
(* and, for each local window of lw values, the distance of its minimum to *)
(* that anchor, packed in b_local bits.  The header is                     *)
(* b_local, the anchors, the packed distances.                             *)
(***************************************************************************)
BitLength(v) == Min({k \in 0 .. WordBits : 2 ^ k > v})

\* Bit p of the little-endian stream of the b-bit values s.
StreamBit(s, b, p) == (s[p \div b + 1] \div 2 ^ (p % b)) % 2

Weighted(bit(_), from, n) == SumFunction([q \in 0 .. n - 1 |-> bit(from + q) * 2 ^ q])

\* A byte is half a word; pack_u16 clears and writes whole bytes.
ByteBits          == WordBits \div 2
PackedBytes(n, b) == CeilDiv(n * b, ByteBits)
PackedWords(n, b) == CeilDiv(PackedBytes(n, b), 2)

\* The words that hold s, of which the last one was old before: when the number
\* of bytes is odd its upper byte stays.
Pack(s, b, old) ==
  LET bit(p) == IF p < Len(s) * b THEN StreamBit(s, b, p)
                ELSE IF p < PackedBytes(Len(s), b) * ByteBits THEN 0
                ELSE (old \div 2 ^ (p % WordBits)) % 2
  IN  [j \in 1 .. PackedWords(Len(s), b) |-> Weighted(bit, (j - 1) * WordBits, WordBits)]

Unpack(s, n, b) ==
  LET bit(p) == StreamBit(s, WordBits, p)
  IN  [j \in 1 .. n |-> IF b = 0 THEN 0 ELSE Weighted(bit, (j - 1) * b, b)]

GlobalWindow(c, n) == EffectiveWindow(c.gw, n)
LocalWindow(c, n)  == EffectiveWindow(c.lw, GlobalWindow(c, n))

\* assert(gw % lw == 0), on the windows clamped to the length of the block.
HierAccepts(c, n) == GlobalWindow(c, n) % LocalWindow(c, n) = 0

LocalDistances(c, b) ==
  LET gw  == GlobalWindow(c, Len(b))
      lw  == LocalWindow(c, Len(b))
      top == Anchors(b, gw)
      low == Anchors(b, lw)
  IN  [j \in DOMAIN low |-> Minus(low[j], top[((j - 1) * lw) \div gw + 1])]

LocalBits(d) == BitLength(Max({d[j] : j \in DOMAIN d}))

\* The encoding of b, when the place of the last packed word holds old.
HierCode(c, b, old) ==
  LET d    == LocalDistances(c, b)
      bl   == LocalBits(d)
      head == <<bl>> \o Anchors(b, GlobalWindow(c, Len(b))) \o Pack(d, bl, old)
      res  == Residuals(b, LocalWindow(c, Len(b)))
  IN  IF c.sep THEN [data |-> res, meta |-> head]
               ELSE [data |-> head \o res, meta |-> <<>>]

\* The vectors are resized, which keeps the words they have, and overwritten.
HierPut(c, st, b) ==
  LET v    == IF c.sep THEN st.meta ELSE st.data
      d    == LocalDistances(c, b)
      last == 1 + CeilDiv(Len(b), GlobalWindow(c, Len(b))) + PackedWords(Len(d), LocalBits(d))
      e    == HierCode(c, b, IF last <= Len(v) THEN v[last] ELSE 0)
  IN  IF c.sep THEN e ELSE [st EXCEPT !.data = e.data]

HierGet(c, st, n) ==
  LET gw   == GlobalWindow(c, n)
      lw   == LocalWindow(c, n)
      head == IF c.sep THEN st.meta ELSE st.data
      ngw  == CeilDiv(n, gw)
      nlw  == CeilDiv(n, lw)
      pw   == PackedWords(nlw, head[1])
      d    == Unpack(SubSeq(head, ngw + 2, ngw + 1 + pw), nlw, head[1])
      off  == IF c.sep THEN 0 ELSE 1 + ngw + pw
  IN  [i \in 1 .. n |->
        Plus(st.data[off + i],
             Plus(head[(i - 1) \div gw + 2], d[(i - 1) \div lw + 1]))]

(***************************************************************************)
(* RLECodecU16: pairs (value, run - 1); a run longer than a word can count *)
(* is split.  AllocEncoded clears the vector, EncodeArray appends to it.   *)
(***************************************************************************)
\* The 1-based position after the run of equal values that starts at i.
RunEnd(b, i) ==
  Min({j \in i + 1 .. Len(b) + 1 : j = Len(b) + 1 \/ b[j] # b[i]})

Chunks(v, run) ==
  LET c == CeilDiv(run, WordSize)
  IN  FlattenSeq([k \in 1 .. c |->
        <<v, (IF k < c THEN WordSize ELSE run - (c - 1) * WordSize) - 1>>])

RLEPairs(b) ==
  LET from[i \in 1 .. Len(b) + 1] ==
        IF i > Len(b) THEN <<>>
        ELSE Chunks(b[i], RunEnd(b, i) - i) \o from[RunEnd(b, i)]
  IN  from[1]

RLEPut(st, b) == [st EXCEPT !.data = RLEPairs(b)]

RLEGet(st, n) ==
  FlattenSeq([k \in 1 .. Len(st.data) \div 2 |->
    [j \in 1 .. st.data[2 * k] + 1 |-> st.data[2 * k - 1]]])

============================================================================
