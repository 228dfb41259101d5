SPECIFICATION PartsSpec
CONSTANTS
  ResultJobs <- MCResultJobs
  Readers <- MCReaders
  Rebuildable <- MCRebuildable
  MaxLosses = 2
  MaxAccountingAttempts = 2
  Conversations = {c1, c2, c3}
  NoConv = NoConv
  MaxClaims = 2
  MaxTries = 2
  Workers = {w1, w2}
  MaxVersions = 2
  MaxDeletes = 1
  MaxDeaths = 1
  Clients = {e1, e2}
  MaxStorages = 2
  MaxRestarts = 1
  MaxFaults = 1
  Calls = {r1, r2}
  Worker = worker
  NoCall = nocall
  Background = {watcher, cleaner}
  MaxRestores = 2
  MaxOpenClaims = 1
  Jobs = {j1, j2}
  LoggedCalls = {l1, l2}
  Syncers = {s1}
  OneWriter = TRUE
  MaxMishaps = 1
  Schedulers = {p1, p2}
  Manual = {m}
  Admins = {a1}
  Free = Free
  MaxChanges = 1
  MaxLapses = 1
  PromptSources = {d, x}
  Bundled = d
  MaxRevisions = 2
  MaxSettings = 2
INVARIANTS
  ImagesTypeOK
  ConversationsAreKept
  OldDeletesSpareNewVersions
  FilesFollowTasks
  CallsAgree
  RestoreIsSafe
  ClaimsAreAttended
  CallsAreProjected
  SettingsAreApplied
  LibraryIsWhole

  
CHECK_DEADLOCK FALSE
