SPECIFICATION Spec
CONSTANTS
  Leaves = {1, 2, 3}
  Candidates <- SixFindings
  MaxRaised = 4
  Gates = {1, 2, 3}
  Contributing <- GateLeaves
INVARIANTS
  NothingVanishes
  QuotesAreTrue
  ExactIsCanonical
  GroupsAreComponents
  BlockersReachGates
