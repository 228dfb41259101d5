SPECIFICATION MCFairSpec
CONSTANTS
  None = None
  Tasks = {t1}
  Jobs = {j1}
  Workers = {w1, w2}
  Accounts = {a1, a2}
  Slots <- MCSlots
  TaskOf <- MCOneTask
  GenerateBudget = 2
  DownloadBudget = 1
  SaveBudget = 1
  Failures = {"transient", "hard", "account"}
  Disruptions = {"crash", "pause", "drop", "gate", "resume"}
  MaxDisruptions = 2
INVARIANTS
  TypeOK
  LeasesAreSound
PROPERTIES
  OwnershipHolds
  SlotsAreFreed
  TasksSettle
