SPECIFICATION Spec
CONSTANTS
  l1 = l1
  l2 = l2
  l3 = l3
  f1 = f1
  Leaves = {l1, l2}
  Files = {f1}
  Scope <- ScopeAll
  Rescues <- NoRescues
  Grades = {"minor", "blocking"}
  Oversized <- TwoWithEveryGrade
  Gated <- GatedOne
  BatchSize <- BatchSizes
  DefaultBatch = 1
  MaxIterations = 2
  RejectionLimit = 3
  Cap = 1
  MaxRetries = 1
  MaxSteps = 17
INVARIANTS
  GoMeansReviewed
