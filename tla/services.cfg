SPECIFICATION PartsFairSpec
CONSTANTS
  Submissions <- MCSubmissions
  Identifiers <- MCIdentifiers
  IdempotencyKey <- MCIdempotencyKey
  ClientTaskId <- MCClientTaskId
  RequestHash <- MCRequestHash
  MaxBacklog = 1
  Requests <- MCRequests
  Ids <- MCIds
  KeyOf <- MCKeyOf
  ClientOf <- MCClientOf
  UnitsOf <- MCUnitsOf
  Limit = 2
  MaxDay = 1
  Sources = {"s1", "s2"}
  Providers = {"sub2api", "cpa"}
  ProviderOf <- MCProviderOf
  Imports = {"i1", "i2"}
  SourceOf <- MCSourceOf
  Total = 2
  MaxRestarts = 1
  MaxStoreFailures = 1
  Callers = {"generation", "submission"}
  Walls = {disk}
  SubmissionWalls = {disk}
  Hold = 1
  Window = 2
  MinSamples = 2
  KeptFor = 1
  Cap = 1
  Processes = {p1, p2}
  Nobody = Nobody
  Keep = 1
  LeaseDies = TRUE
  MaxObjects = 3
  MaxFaults = 1
  MaxCrashes = 1
INVARIANTS
  ServicesTypeOK
  QuotaIsSafe
PROPERTIES
  SubmissionsAreSafe
  ImportsAreSafe
  GateAndBackupsAreSafe
  ServicesSettle
CHECK_DEADLOCK FALSE
