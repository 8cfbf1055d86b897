------------------------- MODULE LogicalCodecObject ------------------------
(***************************************************************************)
(* A logical, predictive or vectorised codec object over its life: blocks  *)
(* are put into it, read back any number of times, and put into it again,  *)
(* with or without a clear() in between.  The unit tests and the composite *)
(* codec clear an object before they use it again; bench_comp, after an    *)
(* error, does not.  CloneFresh gives a new object of the same settings.   *)
(***************************************************************************)
EXTENDS CodecsU16

CONSTANTS Codecs,   \* the objects: records [kind, ...] with their settings
          Blocks    \* the blocks that are put into them

\* What an object of each class is constructed with.
Settings(c) ==
  /\ c.kind \in {"delta", "double", "for", "hier", "rle", "rle8", "predict",
                 "vdelta", "vfor", "vrle"}
  /\ c.kind = "for" => c.w \in Nat /\ c.sep \in BOOLEAN
  /\ c.kind = "hier" => c.gw \in Nat /\ c.lw \in Nat /\ c.sep \in BOOLEAN
  /\ c.kind = "predict" => c.predictor \in Predictors
  /\ Vectorised(c) => c.isa \in InstructionSets /\ c.lanes \in Nat \ {0}

\* pack_u16 works on the two bytes of a word; a block has at least one word.
ASSUME WholeBytesAssumption == WordBits % 2 = 0
ASSUME SettingsAssumption == \A c \in Codecs : Settings(c)
ASSUME BlocksAssumption == \A b \in Blocks : b \in Seq(Word) /\ b # <<>>

VARIABLES codec,   \* the object's class and settings
          st,      \* its vectors
          block,   \* the block it holds, <<>> when it holds none
          out      \* what the last DecodeArray wrote, <<>> before

vars == <<codec, st, block, out>>

\* (Mutant: the packed distances are not counted.)
HierAllocTight(c, n) == 1 + CeilDiv(n, GlobalWindow(c, n))

\* The words AllocEncoded reserves for the header: b_local may be 16.
HierAlloc(c, n) ==
  1 + CeilDiv(n, GlobalWindow(c, n)) + CeilDiv(n, LocalWindow(c, n))

FORAlloc(c, n) == CeilDiv(n, EffectiveWindow(c.w, n))

\* What AllocEncoded provides in compressed_data and metadata_ for n values.
Room(c, n) ==
  CASE c.kind = "for"  -> IF c.sep THEN [data |-> n, meta |-> FORAlloc(c, n)]
                                   ELSE [data |-> n + FORAlloc(c, n), meta |-> 0]
    [] c.kind = "hier" -> IF c.sep THEN [data |-> n, meta |-> HierAlloc(c, n)]
                                   ELSE [data |-> n + HierAlloc(c, n), meta |-> 0]
    [] c.kind \in {"rle", "rle8"} -> [data |-> 2 * n, meta |-> 0]
    [] c.kind = "vfor" -> [data |-> n + 1, meta |-> 0]
    [] c.kind = "vrle" -> [data |-> 2 * (n \div c.lanes + 1) + 2 * n, meta |-> 0]
    [] OTHER           -> [data |-> n, meta |-> 0]

Init ==
  /\ codec \in Codecs
  /\ st = Fresh
  /\ block = <<>>
  /\ out = <<>>

Encode(b) ==
  /\ Accepts(codec, b)
  /\ block # <<>> => Reusable(codec, Len(block), b)
  /\ st' = Put(codec, st, b)
  /\ block' = b
  /\ out' = <<>>
  /\ UNCHANGED codec

Decode ==
  /\ block # <<>>
  /\ out' = Get(codec, st, Len(block))
  /\ UNCHANGED <<codec, st, block>>

\* clear() empties compressed_data; metadata_ stays.
Clear ==
  /\ st' = [st EXCEPT !.data = <<>>]
  /\ block' = <<>>
  /\ out' = <<>>
  /\ UNCHANGED codec

CloneFresh ==
  /\ st' = Fresh
  /\ block' = <<>>
  /\ out' = <<>>
  /\ UNCHANGED codec

Next == (\E b \in Blocks : Encode(b)) \/ Decode \/ Clear \/ CloneFresh

Spec == Init /\ [][Next]_vars

----------------------------------------------------------------------------
\* Both vectors hold uint16_t words.
TypeOK ==
  /\ codec \in Codecs
  /\ \A s \in {st.data, st.meta, out} : \A i \in DOMAIN s : s[i] \in Word
  /\ block \in Blocks \cup {<<>>}

\* "recovers every original value exactly regardless of input magnitude":
\* DecodeArray writes the block that was put in last, all of it and no more,
\* whatever the object held before and however often it is read.
RoundTrip == out # <<>> => out = block

\* An object that has been used encodes a block as a fresh one does: neither
\* the residuals nor the side metadata, and so neither the reported size,
\* depend on its past, but for a byte of padding of the hierarchical codec.
HistoryFree ==
  block # <<>> => st \in Encodings(codec, block)

\* EncodeArray writes by index into vectors that AllocEncoded has sized: what
\* it writes fits.  For run lengths this is the documented 2 * length.
FitsAllocation ==
  block # <<>> =>
    LET room == Room(codec, Len(block))
    IN  Len(st.data) <= room.data /\ Len(st.meta) <= room.meta

============================================================================
