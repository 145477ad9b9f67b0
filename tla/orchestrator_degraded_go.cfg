SPECIFICATION AgentSpec
CONSTANTS
  l1 = l1
  l2 = l2
  f1 = f1
  Leaves = {l1, l2}
  Files = {f1}
  Scope <- ScopeFirst
  Rescues <- RescueSecond
  Grades = {"minor", "blocking"}
  Oversized <- BothWithFindings
  Gated <- GatedOne
  BatchSize <- BatchSizes
  DefaultBatch = 4
  MaxIterations = 1
  RejectionLimit = 3
INVARIANTS
  DegradedNeverGo
