SPECIFICATION Spec
CONSTANTS
  None = None
  Tasks = {t1}
  Jobs = {j1}
  Workers = {w1, w2}
  Accounts = {a1, a2}
  Slots <- MCSlots
  TaskOf <- MCOneTask
  GenerateBudget = 2
  DownloadBudget = 1
  SaveBudget = 1
  Failures = {"transient", "account", "hard", "timeout"}
  Disruptions = {"cancel", "missing", "resume", "undeliverable", "adopt", "expire", "gone", "crash", "drop", "strand"}
  MaxDisruptions = 2
SYMMETRY MCSymmetry
INVARIANTS
  CheckpointsInOrder
  ClaimsAreBacked
PROPERTIES
  PaidNeverRegenerated
  CanceledJobsStay
