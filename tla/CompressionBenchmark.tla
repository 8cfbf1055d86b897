------------------------ MODULE CompressionBenchmark -----------------------
(***************************************************************************)
(* bench_comp on an int32 band: RunBenchConfig gives every block to every  *)
(* codec of the collection, BenchAndVerify encodes and decodes it and      *)
(* records its size.  The collection is built once per ordering and used   *)
(* for one transformation after the other.  The second codec of a          *)
(* composite may throw; the error is caught, a zero record is kept, and    *)
(* the benchmark goes on with the same object.                             *)
(***************************************************************************)
EXTENDS CodecsI32

CONSTANTS Collections,  \* sequences of codecs: CodecsI32's records, with cascaded
          BlockSet,     \* the blocks as BenchAndVerify gets them
          NumBlocks,    \* blocks of a configuration (bound)
          NumConfigs,   \* transformations (bound)
          Overflow      \* words the second codec decodes to behind the values

\* The settings of a codec, with what a collection and a composite add to it.
Setting32(c) ==
  /\ c.kind \in {"delta", "double", "for", "rle", "predict"}
  /\ c.kind = "predict" => c.predictor \in Predictors
  /\ c.cascaded \in BOOLEAN

ASSUME CollectionsAssumption ==
  \A s \in Collections :
    /\ Len(s) \in Nat \ {0}
    /\ DOMAIN s = 1 .. Len(s)
    /\ \A k \in DOMAIN s : Setting32(s[k])
\* A block is not empty, and the length of a run in it is an int32_t.
ASSUME BlockSetAssumption == \A b \in BlockSet : b \in Seq(Word) /\ Len(b) \in 1 .. Half - 1
ASSUME OverflowAssumption == Overflow \in Nat

VARIABLES codecs,   \* the collection
          verify,   \* "None" or "Roundtrip"
          config,   \* configurations that have been started
          object,   \* the state of each codec
          stats,    \* codecWindowStats: the records of each codec
          data,     \* the current block
          ci,       \* the current codec
          dataBack,
          stage     \* "block", "encode", "decode", "verify" or "done"

benchVars == <<codecs, verify, config, object, stats, data, ci, dataBack, stage>>

\* first and packed are the vectors of a composite's two codecs; a codec that
\* is not cascaded has the first one only.
Untouched == [first |-> <<>>, packed |-> <<>>, intermediateEncodedSize |-> 0]

Current == codecs[ci]
State == object[ci]

\* CodecStats when it is returned early: all zero.
ErrorStats == [block |-> data, numCodedValues |-> 0]

EncodedNumValues(codec, obj) == IF codec.cascaded THEN Len(obj.packed) ELSE Len(obj.first)

NextCodec ==
  IF ci < Len(codecs) THEN ci' = ci + 1 /\ stage' = "encode"
                      ELSE ci' = 1 /\ stage' = "block"

Record(r) == stats' = [stats EXCEPT ![ci] = Append(@, r)]

BenchInit ==
  /\ codecs \in Collections
  /\ verify \in {"None", "Roundtrip"}
  /\ config = 1
  /\ object = [k \in DOMAIN codecs |-> Untouched]
  /\ stats = [k \in DOMAIN codecs |-> <<>>]
  /\ data = <<>>
  /\ ci = 1
  /\ dataBack = <<>>
  /\ stage = "block"

\* The loop over the sampled blocks.
ReadBlock ==
  /\ stage = "block"
  /\ Len(stats[1]) < NumBlocks
  /\ data' \in BlockSet
  /\ stage' = "encode"
  /\ UNCHANGED <<codecs, verify, config, object, stats, ci, dataBack>>

\* The loop over the transformations: the codecs are kept.
NextConfig ==
  /\ stage = "block"
  /\ Len(stats[1]) = NumBlocks
  /\ IF config = NumConfigs
     THEN stage' = "done" /\ UNCHANGED <<config, stats>>
     ELSE /\ config' = config + 1
          /\ stats' = [k \in DOMAIN codecs |-> <<>>]
          /\ UNCHANGED stage
  /\ UNCHANGED <<codecs, verify, object, data, ci, dataBack>>

\* The first codec's vector after AllocEncoded and EncodeArray.
FirstEncoded == EncodeArray(Current, AllocEncoded(Current, State.first, Len(data)), data)

EncodeBlock ==
  /\ stage = "encode"
  /\ object' = [object EXCEPT ![ci] =
       IF Current.cascaded
       THEN [first |-> <<>>, packed |-> FirstEncoded,
             intermediateEncodedSize |-> Len(FirstEncoded)]
       ELSE [State EXCEPT !.first = FirstEncoded]]
  /\ stage' = "decode"
  /\ UNCHANGED <<codecs, verify, config, stats, data, ci, dataBack>>

\* The second codec throws: the first one has encoded and is not cleared.
EncodeError ==
  /\ stage = "encode"
  /\ Current.cascaded
  /\ object' = [object EXCEPT ![ci].first = FirstEncoded,
                              ![ci].intermediateEncodedSize = Len(FirstEncoded)]
  /\ Record(ErrorStats)
  /\ NextCodec
  /\ UNCHANGED <<codecs, verify, config, data, dataBack>>

DecodeBlock ==
  /\ stage = "decode"
  /\ object' = [object EXCEPT ![ci].first = IF Current.cascaded THEN State.packed ELSE @]
  /\ dataBack' = DecodeArray(Current, object'[ci].first, Len(data))
  /\ stage' = "verify"
  /\ UNCHANGED <<codecs, verify, config, stats, data, ci>>

\* The second codec throws before it has written its destination.
DecodeError ==
  /\ stage = "decode"
  /\ Current.cascaded
  /\ object' = [object EXCEPT ![ci].first =
                  Resize(State.first, State.intermediateEncodedSize + Overflow)]
  /\ Record(ErrorStats)
  /\ NextCodec
  /\ UNCHANGED <<codecs, verify, config, data, dataBack>>

Reset == object' = [object EXCEPT ![ci] = Untouched]

\* (Mutant: the codec is only reset when the block was wrong.)
VerifyAndRecordOnly ==
  /\ stage = "verify"
  /\ verify = "Roundtrip" => dataBack = data
  /\ Record([block |-> data, numCodedValues |-> EncodedNumValues(Current, State)])
  /\ UNCHANGED object
  /\ NextCodec
  /\ UNCHANGED <<codecs, verify, config, data, dataBack>>

\* The round-trip check, if it is asked for, and the record of a success.
VerifyAndRecord ==
  /\ stage = "verify"
  /\ verify = "Roundtrip" => dataBack = data
  /\ Record([block |-> data, numCodedValues |-> EncodedNumValues(Current, State)])
  /\ Reset
  /\ NextCodec
  /\ UNCHANGED <<codecs, verify, config, data, dataBack>>

RoundtripFail ==
  /\ stage = "verify"
  /\ verify = "Roundtrip" /\ dataBack # data
  /\ Record(ErrorStats)
  /\ Reset
  /\ NextCodec
  /\ UNCHANGED <<codecs, verify, config, data, dataBack>>

Finished == stage = "done" /\ UNCHANGED benchVars

BenchNext ==
  \/ ReadBlock \/ NextConfig \/ EncodeBlock \/ EncodeError \/ DecodeBlock \/ DecodeError
  \/ VerifyAndRecord \/ RoundtripFail \/ Finished

BenchSpec == BenchInit /\ [][BenchNext]_benchVars

----------------------------------------------------------------------------
IsError(r) == r.numCodedValues = 0

\* Whatever is measured starts with the object as CloneFresh made it, unless
\* an error was the last thing that happened to it.  (The records of an
\* earlier configuration are gone; the object it left is not.)
FreshUnlessError ==
  stage = "encode" /\ Len(stats[ci]) > 0 /\ ~IsError(stats[ci][Len(stats[ci])])
    => State = Untouched

FreshSize(codec, b) == Len(EncodeArray(codec, AllocEncoded(codec, <<>>, Len(b)), b))

\* Codecs that write their vector from the start, and run lengths, whose
\* AllocEncoded cuts it, measure and restore every block rightly, whatever
\* error came before.
Overwrites(codec) == codec.kind \in {"rle", "predict"}
OverwritingIsHonest ==
  \A k \in DOMAIN codecs : Overwrites(codecs[k]) =>
    /\ \A i \in DOMAIN stats[k] :
         IsError(stats[k][i]) \/ stats[k][i].numCodedValues = FreshSize(codecs[k], stats[k][i].block)
    /\ stage = "verify" /\ k = ci => dataBack = data

\* A codec that never met an error in a block restores each block and records
\* the size that a fresh object has.
Unharmed(k) ==
  ~codecs[k].cascaded \/ (config = 1 /\ \A i \in DOMAIN stats[k] : ~IsError(stats[k][i]))
UnharmedIsHonest ==
  \A k \in DOMAIN codecs : Unharmed(k) =>
    /\ \A i \in DOMAIN stats[k] :
         stats[k][i].numCodedValues = FreshSize(codecs[k], stats[k][i].block)
    /\ stage = "verify" /\ k = ci => dataBack = data

============================================================================
