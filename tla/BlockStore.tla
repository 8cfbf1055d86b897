------------------------------ MODULE BlockStore ---------------------------
(***************************************************************************)
(* What a StatefulIntegerCodec promises its callers: it holds the block    *)
(* that was put into it last, gives that block back as often as it is      *)
(* asked for it, and nothing of the blocks before it.                      *)
(***************************************************************************)
CONSTANTS Blocks, None

VARIABLES held, out

Init == held = None /\ out = None

\* AllocEncoded and EncodeArray, or BenchEncode.
Store(b) == held' = b /\ out' = None

\* DecodeArray.
Fetch == held # None /\ out' = held /\ UNCHANGED held

\* clear or CloneFresh.
Drop == held' = None /\ out' = None

Next == (\E b \in Blocks : Store(b)) \/ Fetch \/ Drop

Spec == Init /\ [][Next]_<<held, out>>

============================================================================
