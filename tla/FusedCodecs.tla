----------------------------- MODULE FusedCodecs ---------------------------
(***************************************************************************)
(* Objects of fused codecs used by one thread, in any order: each encodes  *)
(* a block (AllocEncoded and EncodeArray), is decoded any number of times, *)
(* and is cleared or cloned.  The objects are of the same or of different  *)
(* classes; what they share is the thread's scratch arrays.  s_anchor is   *)
(* written by encoders and by decoders, s_res first with the distances of  *)
(* the anchors and then with the residuals; neither is ever cleared.  Each *)
(* of the two register widths has arrays of its own.  The area "none" is   *)
(* that of the classes that use neither.                                   *)
(***************************************************************************)
EXTENDS FusedClassesU16

CONSTANTS Objects,   \* the objects of the thread
          Suites,    \* their classes: functions from Objects to codecs
          Blocks,    \* the blocks each of them is given: a function to sets
          None

AllBlocks == UNION {Blocks[o] : o \in Objects}

ASSUME NoneAssumption == None \notin AllBlocks
ASSUME BlocksAssumption ==
  \A b \in AllBlocks : b.n \in Nat /\ b.v \in [0 .. b.n - 1 -> Word]

Areas == {"w128", "w256", "none"}

ASSUME SuitesAssumption ==
  \A s \in Suites, o \in Objects : s[o] \in Collection \cup Experiments

VARIABLES codec,     \* the class of each object
          held,      \* the block it was last given, or None
          code,      \* its vector compressed, or None
          scratch,   \* s_anchor and s_res, for each width
          out        \* the two words behind the values of the last decode, or None

vars == <<codec, held, code, scratch, out>>

Clean == [anchor |-> [i \in 0 .. ScratchLen - 1 |-> 0],
          res    |-> [i \in 0 .. ScratchLen - 1 |-> 0]]

Area(o) == codec[o].scratch

Init ==
  /\ codec \in Suites
  /\ held = [o \in Objects |-> None]
  /\ code = [o \in Objects |-> None]
  /\ scratch = [r \in Areas |-> Clean]
  /\ out = [o \in Objects |-> None]

\* compressed is assigned as a whole from the thread's pack scratch.
EncodeArray(o, b) ==
  /\ Accepts(codec[o], b.n)
  /\ held' = [held EXCEPT ![o] = b]
  /\ code' = [code EXCEPT ![o] = Code(codec[o], b, scratch[Area(o)])]
  /\ scratch' = [scratch EXCEPT ![Area(o)] =
                   IF Area(o) = "none" THEN @ ELSE ScratchAfterEncode(codec[o], b, @)]
  /\ out' = [out EXCEPT ![o] = None]
  /\ UNCHANGED codec

DecodeArray(o) ==
  /\ held[o] # None
  /\ out' = [out EXCEPT ![o] =
       Halves(Total(codec[o], code[o], held[o].n, scratch[Area(o)].anchor))]
  /\ scratch' = [scratch EXCEPT ![Area(o)] =
                   IF Area(o) = "none" THEN @
                   ELSE ScratchAfterDecode(codec[o], code[o], held[o].n, @)]
  /\ UNCHANGED <<codec, held, code>>

\* A clone is an object that holds nothing yet, as a cleared one.
clear(o) ==
  /\ held' = [held EXCEPT ![o] = None]
  /\ code' = [code EXCEPT ![o] = None]
  /\ out' = [out EXCEPT ![o] = None]
  /\ UNCHANGED <<codec, scratch>>

Next == \E o \in Objects : (\E b \in Blocks[o] : EncodeArray(o, b)) \/ DecodeArray(o) \/ clear(o)

Spec == Init /\ [][Next]_vars

----------------------------------------------------------------------------
\* The ungated variants are right on data below 2^15 only.
Entitled(c, b) == c.agg = "madd" /\ c.gate = "none" => Below(b.v, b.n)

\* "the fused sum stored in the two overflow slots equals the true uint32 sum of
\* the input" (test_fused_codecs): also when other objects use the scratch arrays
\* between EncodeArray and DecodeArray.
SumIsTrue ==
  \A o \in Objects :
    out[o] # None /\ Entitled(codec[o], held[o]) =>
      out[o].lo + WordSize * out[o].hi = SumFunction(held[o].v)

\* The anchors and distances are padded to whole blocks, so what is stored, and
\* with it the size that is recorded, is that of an object in a new thread.
HistoryFree ==
  \A o \in Objects : held[o] # None => code[o] = Code(codec[o], held[o], Clean)

\* Decoding adds up each word of the block once: word i of block k is decoded
\* in one round, with an anchor that has been unpacked by then, and the lane
\* and the scalar together add its value.
LanesTrue ==
  \A o \in Objects :
    held[o] # None /\ Entitled(codec[o], held[o]) =>
      LET c == codec[o]
          b == held[o]
          u == Words0(c, code[o], b.n)
          rounds == Rounds(c, b.n)
      IN  \A k \in 0 .. NumBlk(c, b.n) - 1 :
            LET ab == CHOOSE ab \in 0 .. b.n : <<ab, k>> \in rounds
                a  == IF HasAnchors(c)
                        THEN AnchorsAt(c, code[o], b.n, scratch[Area(o)].anchor, ab) ELSE <<>>
            IN  /\ \A q \in rounds : q[2] = k <=> q = <<ab, k>>
                /\ \A i \in 0 .. c.kBlk - 1 :
                     InLane(c, code[o], b.n, u, a, k, i)
                       + (IF c.nobc /\ HasAnchors(c) THEN a[AnchorOf(c, Window(c, b.n), k, i)] ELSE 0)
                     = b.v[k * c.kBlk + i]

\* "256x256 covers the maximum supported block size": the residuals of every
\* block that is encoded have room in s_res.
ScratchSuffices ==
  \A o \in Objects : held[o] # None /\ Area(o) # "none" => held[o].n <= ScratchLen

============================================================================
