----------------------------- MODULE PredictLoop ---------------------------
(***************************************************************************)
(* The element-by-element loops of the predictive codecs and of            *)
(* DeltaCodecU16, one iteration a step, over one codec object and one      *)
(* output buffer that are used for block after block, as the tests and the *)
(* benchmarks use them: compressed_data and the output buffer still hold   *)
(* the words of an earlier block when a loop starts.                       *)
(*                                                                         *)
(* Prediction(p, v, i) is the prediction of element i from the buffer v.   *)
(* The encoder makes it from the block, the decoder from the output        *)
(* buffer, whose elements from i on are stale; all that is known of it is  *)
(* that it reads elements before i only.                                   *)
(***************************************************************************)
EXTENDS Words

CONSTANTS N,                 \* the length of a block
          Classes,           \* the codec classes
          RawFirst,          \* those that store the first element unzigzagged
          Prediction(_, _, _),
          Inputs             \* the blocks

Positions == 0 .. N - 1
Buffers   == [Positions -> Word]

ASSUME LengthAssumption == N \in Nat
ASSUME InputsAssumption == Inputs \subseteq Buffers
ASSUME PredictAssumption ==
  \A p \in Classes, u \in Buffers, i \in Positions : Prediction(p, u, i) \in Word
ASSUME CausalAssumption ==
  \A p \in Classes, u, v \in Buffers, i \in Positions :
    (\A j \in 0 .. i - 1 : u[j] = v[j]) => Prediction(p, u, i) = Prediction(p, v, i)

VARIABLES class,            \* the codec class
          in,               \* the block that is encoded
          compressed_data,  \* the codec's vector
          buffer,           \* the caller's output buffer
          i,                \* the loop variable
          pc                \* "idle", "encode", "encoded" or "decode"

loopVars == <<class, in, compressed_data, buffer, i, pc>>

Raw(p, j) == p \in RawFirst /\ j = 0

\* compressed_data[j] for the block v.
Encoded(p, v, j) ==
  LET d == Minus(v[j], Prediction(p, v, j))
  IN  IF Raw(p, j) THEN d ELSE ZigzagEnc16(d)

\* buffer[j] from the output buffer v and the coded word z.
Decoded(p, v, j, z) ==
  Plus(Prediction(p, v, j), IF Raw(p, j) THEN z ELSE ZigzagDec16(z))

LoopInit ==
  /\ class \in Classes
  /\ in \in Inputs
  /\ compressed_data = [j \in Positions |-> 0]
  /\ buffer = [j \in Positions |-> 0]
  /\ i = 0
  /\ pc = "idle"

\* AllocEncoded, and EncodeArray up to its loop.
StartEncode(b) ==
  /\ pc \in {"idle", "encoded"}
  /\ in' = b
  /\ i' = 0
  /\ pc' = "encode"
  /\ UNCHANGED <<class, compressed_data, buffer>>

EncodeStep ==
  /\ pc = "encode"
  /\ i < N
  /\ compressed_data' = [compressed_data EXCEPT ![i] = Encoded(class, in, i)]
  /\ i' = i + 1
  /\ UNCHANGED <<class, in, buffer, pc>>

EndEncode ==
  /\ pc = "encode"
  /\ i >= N
  /\ pc' = "encoded"
  /\ i' = 0
  /\ UNCHANGED <<class, in, compressed_data, buffer>>

\* DecodeArray up to its loop; a static grid decodes a block again and again.
StartDecode ==
  /\ pc = "encoded"
  /\ i' = 0
  /\ pc' = "decode"
  /\ UNCHANGED <<class, in, compressed_data, buffer>>

\* (Mutant: the prediction is made from the coded words.)
DecodeStepFromCode ==
  /\ pc = "decode"
  /\ i < N
  /\ buffer' = [buffer EXCEPT ![i] = Decoded(class, compressed_data, i, compressed_data[i])]
  /\ i' = i + 1
  /\ UNCHANGED <<class, in, compressed_data, pc>>

DecodeStep ==
  /\ pc = "decode"
  /\ i < N
  /\ buffer' = [buffer EXCEPT ![i] = Decoded(class, buffer, i, compressed_data[i])]
  /\ i' = i + 1
  /\ UNCHANGED <<class, in, compressed_data, pc>>

\* The loop ends and the caller reads the buffer.
EndDecode ==
  /\ pc = "decode"
  /\ i >= N
  /\ pc' = "encoded"
  /\ UNCHANGED <<class, in, compressed_data, buffer, i>>

LoopNext ==
  \/ \E b \in Inputs : StartEncode(b)
  \/ EncodeStep
  \/ EndEncode
  \/ StartDecode
  \/ DecodeStep
  \/ EndDecode

LoopSpec == LoopInit /\ [][LoopNext]_loopVars

----------------------------------------------------------------------------
\* The buffers hold words and the loop variable stays in the buffers.
LoopTypeOK ==
  /\ class \in Classes
  /\ in \in Inputs
  /\ compressed_data \in Buffers
  /\ buffer \in Buffers
  /\ i \in 0 .. N
  /\ pc \in {"idle", "encode", "encoded", "decode"}

\* "(pred + ZigzagDec16(ZigzagEnc16(x - pred))) == x": what the decoder has
\* restored is the beginning of the block at every iteration, so each of its
\* predictions is the encoder's although its buffer was full of stale words.
PrefixRestored == pc = "decode" => \A j \in 0 .. i - 1 : buffer[j] = in[j]

\* DecodeArray returns with the whole block in the caller's buffer.
BlockRestored == [][EndDecode => buffer = in]_loopVars

============================================================================
