SPECIFICATION AgentFairSpec
CONSTANTS
  l1 = l1
  l2 = l2
  f1 = f1
  Leaves = {l1, l2}
  Files = {f1}
  Scope <- ScopeFirst
  Rescues <- RescueSecond
  Grades = {"blocking"}
  Oversized <- BothWithFindings
  Gated <- GatedOne
  BatchSize <- BatchSizes
  DefaultBatch = 4
  MaxIterations = 2
  RejectionLimit = 2
INVARIANTS
  NoLeafDisappears
  ImpasseIsEarned
  InputsPresent
PROPERTIES
  FailClosed
  AgentImplementsLifecycle
  AgentRunEnds
