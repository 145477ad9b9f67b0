------------------------- MODULE MCExperimentTracker -------------------------
(***************************************************************************)
(* TLC instances of ExperimentTracker.                                     *)
(***************************************************************************)
EXTENDS ExperimentTracker, TLC

CONSTANTS c1, c2, r1, r2, leaf

Measured(rung, recall, fp, f1, lo, hi, cost) ==
  [rung |-> rung, recall |-> recall, fp |-> fp, f1 |-> f1, lo |-> lo, hi |-> hi,
   stdev |-> 3, cost |-> cost]

\* A noisy baseline of unknown size, a candidate that clears every gate
\* against it, and one that would, had it more pull requests.
Ladder ==
  {Measured(UnknownRung, 50, 240, 54, 49, 60, 20),
   Measured(20, 49, 200, 70, 61, 75, 25),
   Measured(5, 52, 180, 70, 61, 75, 20)}

HandWritten == {"none", "promote", "ramp"}

Attached == {[lo |-> 49, hi |-> 60]}

Symmetric == Permutations(Commands) \cup Permutations(Runs)
=============================================================================
