------------------------- MODULE MCReviewOrchestrator -------------------------
(***************************************************************************)
(* TLC instances of ReviewOrchestrator.                                    *)
(***************************************************************************)
EXTENDS ReviewOrchestrator

CONSTANTS l1, l2, f1

\* Only the first leaf matches the changed file; the trim names the
\* second for it.
ScopeFirst == [l \in Leaves |-> IF l = l1 THEN Files ELSE {}]
RescueSecond == {{<<l2, f1>>}}

\* Two leaves with findings are too much for the aggregate budget.
BothWithFindings ==
  {outputs \in [Leaves -> Outputs] : \A l \in Leaves : outputs[l].raised[f1] # {}}

GatedOne == {l1}
BatchSizes == [t \in Tiers |-> IF t = "full" THEN 2 ELSE 1]
=============================================================================
