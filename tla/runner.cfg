SPECIFICATION MCFairSpec
CONSTANTS
  Tasks = {t1, t2, t3}
  Callers = {c1, c2}
  MaxWorkers = 1
  QueueSize = 1
  MaxRuns = 2
  Operations = {"shutdown", "drain", "cancel_and_wait", "restart"}
INVARIANTS
  RunnerTypeOK
  RunnerIsSound
PROPERTIES
  ClosingEnds
CHECK_DEADLOCK FALSE
