SPECIFICATION ProjectionSpec
CONSTANTS
  LoggedCalls = {c1, c2}
  Syncers = {s1}
  OneWriter = TRUE
  MaxMishaps = 1
INVARIANTS
  DeletionsKeepTheProjection
CHECK_DEADLOCK FALSE
