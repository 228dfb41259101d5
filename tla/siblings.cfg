SPECIFICATION FairSpec
CONSTANTS
  None = None
  Tasks = {t1}
  Jobs = {j1, j2}
  Workers = {w1}
  Accounts = {a1}
  Slots <- MCSlots
  TaskOf <- MCOneTask
  GenerateBudget = 1
  DownloadBudget = 1
  SaveBudget = 1
  Failures = {"hard"}
  Disruptions = {"cancel", "crash", "gate", "resume"}
  MaxDisruptions = 1
INVARIANTS
  TaskFollowsJobs
PROPERTIES
  CancelSettles
