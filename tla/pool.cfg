SPECIFICATION FairSpec
CONSTANTS
  Threads = {t1, t2}
  MinWorkers = 0
  MaxRetries = 1
  NumUnits = 2
  Size <- SizeTwoUnits
  Key <- KeysTwoUnits
  Answers = {"completed", "failed", "skipped"}
INVARIANTS
  SlotAccounting
  NoLostWakeup
  CountersAddUp
  Ownership
  NoHiddenReview
PROPERTIES
  ImplementsCoverage
  AllReturned
  WaiterServed
