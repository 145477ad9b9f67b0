--------------------------- MODULE MCReviewRunner ---------------------------
(***************************************************************************)
(* TLC instances of ReviewRunner.                                          *)
(***************************************************************************)
EXTENDS ReviewRunner, TLC

CONSTANTS l1, l2, l3, f1

\* Three leaves that all match the only changed file.
ScopeAll == [l \in Leaves |-> Files]
\* The third leaf matches no changed file.
ScopeTwo == [l \in Leaves |-> IF l = l3 THEN {} ELSE Files]
GatedOne == {l1}
NoRescues == {{}}

\* Two leaves with findings of every grade are too much for the aggregate
\* budget.
TwoWithEveryGrade ==
  {outputs \in UNION {[leaves -> Outputs] : leaves \in SUBSET Leaves} :
     Cardinality({l \in DOMAIN outputs : outputs[l].raised[f1] = Grades}) >= 2}

\* The code's sizes are 3, 4, 5, 3 and 4; with at most three leaves these
\* give one to three batches.
BatchSizes == [t \in Tiers |-> IF t = "full" THEN 3 ELSE 1]
=============================================================================
