------------------------------- MODULE Samples -------------------------------
(***************************************************************************)
(* What the checkers make of a series of samples: a loop that leaves some  *)
(* out and adds up the others, and an integer division for the mean.  Time *)
(* is counted in whole units, as time.Duration is.                         *)
(***************************************************************************)
EXTENDS Integers, Sequences, SequencesExt, FiniteSetsExt

(* The samples that are in S, in their order. *)
Keep(samples, S) ==
  FoldLeft(LAMBDA kept, x : IF x \in S THEN Append(kept, x) ELSE kept,
           <<>>, samples)

Total(samples) == FoldLeft(LAMBDA acc, x : acc + x, 0, samples)

Mean(samples) == Total(samples) \div Len(samples)
=============================================================================
