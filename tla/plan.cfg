SPECIFICATION Spec
CONSTANTS
  a = a
  b = b
  Leaves = {a, b}
  NumFiles = 5
  TokensPerFile = 3
  TokenLimits = {4, 5, 8}
  BatchSizes = {1, 2, 3}
  MaxPicked = 2
  MaxIterations = 2
  Budget = 2
  Ranks = {1, 2}
  Bases = {0, 3}
  MaxPerRank = 1
  Leftovers <- EarlierShards
  Followed <- FollowedPlans
  MaxUnits = 2
SYMMETRY Symmetric
INVARIANTS
  PlanSound
  MergeComplete
  TrimsTheLeast
  ShardsMirror
