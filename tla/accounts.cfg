SPECIFICATION PartsSpec
CONSTANTS
  PoolProcesses <- MCPoolProcesses
  RefreshThreads <- MCRefreshThreads
  ProcessOf <- MCProcessOf
  MaxToken = 1
  MaxResults = 1
  SaveAttempts = 2
  Reporters = {"img", "txt"}
  FencedReporters = {"txt"}
  ScopeOf <- MCScopeOf
  RemovesOf <- MCRemovesOf
  MaxGen = 1
  MaxManual = 1
  MaxRestartsV = 1
  Operations = {o1, o2}
  Accounts = {a1, a2}
  Selections <- MCSelections
  Concurrency = 1
  MaxImports = 1
  MaxEntryLapses = 1
  Tasks = {t1, t2}
  PoolBoxes = {login, alias}
  Login = login
  RemoteBoxes = {remote}
  MaxBegun = 2
  MaxTokens = 2
  MaxRetries = 1
  RunnerProcesses = {p1, p2}
  Nobody = nobody
  MaxInflight = 2
  MaxStarts = 3
  Attempts = {a1, a2}
  Addresses = {login, alias}
  MaxAsks = 2
  Groups = {g1}
  Nodes = {n1, n2}
  Requests = {r1, r2}
  MaxLimit = 1
  MaxEdits = 3
  MaxTries = 2
  KeyProcesses = {p1, p2}
  Keys = {k1, k2}
  Hashes = {h1}
  MaxRev = 3
INVARIANTS
  AccountsTypeOK
  OperationsReport
  RegistrationHolds
  LostRunsStop
  CodesAreOwn
  ProxyRoutesHold
  KeysHold
PROPERTIES
  CredentialsAreKept
  ChecksJudgeTheirReport
CHECK_DEADLOCK FALSE
