SPECIFICATION Spec
CONSTANTS
  c1 = c1
  c2 = c2
  r1 = r1
  r2 = r2
  leaf = leaf
  Commands = {c1, c2}
  Runs = {r1, r2}
  Measurements <- Ladder
  Asked <- HandWritten
  Bounds <- Attached
  Agents = {leaf}
SYMMETRY Symmetric
INVARIANTS
  GateIsMonotone
  EveryCommandOpens
PROPERTIES
  PromotionIsEarned
  MeasuredStays
