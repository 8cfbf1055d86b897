---------------------------- MODULE MCAccessPool ---------------------------
(***************************************************************************)
(* AccessPool on a small instance: three workers, five shuffled blocks,    *)
(* so that the last slice is longer, and an access codec that needs less   *)
(* overflow room than the base codec.                                      *)
(***************************************************************************)
EXTENDS AccessPool

Shuffled == [i \in Blocks |-> (3 * i + 2) % NumBlocks]

Sizes == [k \in {"base", "access"} |-> IF k = "base" THEN 2 ELSE 0]

============================================================================
