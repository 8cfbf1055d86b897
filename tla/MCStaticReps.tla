---------------------------- MODULE MCStaticReps ---------------------------
(***************************************************************************)
(* StaticReps on a small instance: the grid holds n * X blocks, here 2 for *)
(* each of 3 workers, visited in a shuffled order (--pattern random).      *)
(***************************************************************************)
EXTENDS StaticReps

\* A shuffle of the six blocks: 2, 1, 0, 5, 4, 3.
Shuffled == [i \in Blocks |-> (5 * i + 2) % 6]

============================================================================
