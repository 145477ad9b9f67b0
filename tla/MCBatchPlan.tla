----------------------------- MODULE MCBatchPlan -----------------------------
(***************************************************************************)
(* The TLC instance of BatchPlan.                                          *)
(***************************************************************************)
EXTENDS BatchPlan

CONSTANTS a, b

\* The first two files are in the scope of both leaves, of one, or of none.
FollowedPlans ==
  {<<s, 5, 2>> : s \in [Leaves -> {{}, {1, 2}}]} \cup {<<s, 8, 2>> : s \in [Leaves -> {{1, 2}}]}

\* An earlier run left the shards of its second iteration.
EarlierShards ==
  {[name \in {<<<<leaf, 1>>, 2>> : leaf \in Leaves} |-> [base |-> 0, findings |-> [r \in Ranks |-> 0]]]}

Symmetric == Permutations(Leaves)
=============================================================================
