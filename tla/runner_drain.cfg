SPECIFICATION FairSpec
CONSTANTS
  Tasks = {t1}
  Callers = {c1}
  MaxWorkers = 1
  QueueSize = 1
  MaxRuns = 1
  Operations = {"drain"}
PROPERTIES
  CommittedSettles
CHECK_DEADLOCK FALSE
