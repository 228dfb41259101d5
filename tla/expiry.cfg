SPECIFICATION Spec
CONSTANTS
  None = None
  Tasks = {t1}
  Jobs = {j1}
  Workers = {w1}
  Accounts = {a1}
  Slots <- MCSlots
  TaskOf <- MCOneTask
  GenerateBudget = 1
  DownloadBudget = 2
  SaveBudget = 1
  Failures = {"transient"}
  Disruptions = {"expire"}
  MaxDisruptions = 1
PROPERTIES
  ExpirySparesStartedWork
