----------------------------- MODULE RepRounds -----------------------------
(***************************************************************************)
(* What a timed benchmark of a static grid promises, whoever executes it:  *)
(* the repetitions happen one after the other; a repetition after the      *)
(* warm-up contributes exactly one sample; a sample accounts for every     *)
(* block of the grid exactly once, and for nothing measured in another     *)
(* repetition; and when all repetitions are over, the merged statistics    *)
(* hold exactly the measurements of the samples.                           *)
(*                                                                         *)
(* A measurement is the triple <<rep, worker, block>>: one decode of one   *)
(* block.  Durations are abstracted: only which decodes are accounted for  *)
(* matters here, so a sum of durations is the set of its measurements.     *)
(***************************************************************************)
EXTENDS Integers, Sequences

CONSTANTS Threads,   \* the workers that may decode a block
          Blocks,    \* the blocks of the grid
          NumReps,   \* repetitions (--numreps)
          NumSkip    \* warm-up repetitions that leave no sample (--rs)

VARIABLES round,     \* the repetitions completed
          samples,   \* RepMedian: one sample for each timed repetition
          merged     \* the statistics reported at the end, {} before

vars == <<round, samples, merged>>

\* The sums of a repetition account for each block once, by one worker.
IsRepSample(s, rep) ==
  \E owner \in [Blocks -> Threads] : s = {<<rep, owner[b], b>> : b \in Blocks}

RepSamples(rep) ==
  {{<<rep, owner[b], b>> : b \in Blocks} : owner \in [Blocks -> Threads]}

Init ==
  /\ round = 0
  /\ samples = <<>>
  /\ merged = {}

CompleteRound ==
  /\ round < NumReps
  /\ round' = round + 1
  /\ IF round >= NumSkip
       THEN \E s \in RepSamples(round) : samples' = Append(samples, s)
       ELSE UNCHANGED samples
  /\ UNCHANGED merged

Report ==
  /\ round = NumReps
  /\ merged' = UNION {samples[k] : k \in DOMAIN samples}
  /\ UNCHANGED <<round, samples>>

Next == CompleteRound \/ Report

Spec == Init /\ [][Next]_vars /\ WF_vars(Next)

============================================================================
