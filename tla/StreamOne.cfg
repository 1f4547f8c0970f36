SPECIFICATION FairSpec
CONSTANTS
  s1 = s1
  s2 = s2
  t1 = t1
  t2 = t2
  Stream = {s1}
  Token = {t1}
  TokenMaps <- OwnTokens
  MaxStream = 1
  MaxMaintenance = 1
  MaxAdmission = 1
  MaxIdle = 1
  MaxCreated = 1
  MaxIssued = 1
  MaxQueued = 2
  MaxBatches = 3
  VerifyMayUnwind = FALSE
  SourceMayChange = TRUE
  Cancel = {"explicit", "drop"}
  SpawnMayFail = FALSE
INVARIANTS
  EndMeansLeaseResolved
  EndIsTrue
  BoundedWorkAfterCancel
PROPERTIES
  CancelReachesTheQuery
  DropFreesTheLease
CHECK_DEADLOCK FALSE
