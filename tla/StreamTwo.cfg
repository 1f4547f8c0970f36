SPECIFICATION Spec
CONSTANTS
  s1 = s1
  s2 = s2
  t1 = t1
  t2 = t2
  Stream = {s1, s2}
  Token = {t1, t2}
  TokenMaps <- OwnOrOneToken
  MaxStream = 2
  MaxMaintenance = 1
  MaxAdmission = 1
  MaxIdle = 2
  MaxCreated = 2
  MaxIssued = 2
  MaxQueued = 1
  MaxBatches = 1
  VerifyMayUnwind = TRUE
  SourceMayChange = FALSE
  Cancel = {"explicit"}
  SpawnMayFail = TRUE
INVARIANTS
  InterruptIsOwn
  BindingEndsWithTheStream
CHECK_DEADLOCK FALSE
