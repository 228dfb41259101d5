SPECIFICATION BackupsSpec
CONSTANTS
  Processes = {p1, p2}
  Nobody = Nobody
  Keep = 1
  LeaseDies = FALSE
  MaxObjects = 3
  MaxFaults = 0
  MaxCrashes = 1
INVARIANTS
  PutOffForAnother
