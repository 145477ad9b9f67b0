SPECIFICATION Spec
CONSTANTS
  Threads = {t1, t2}
  MinWorkers = 1
  MaxRetries = 1
  NumUnits = 2
  Size <- SizeTwoUnits
  Key <- KeysTwoUnits
  Answers = {"completed"}
INVARIANT NoSilentSkip
