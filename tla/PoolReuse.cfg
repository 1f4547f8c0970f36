SPECIFICATION Spec
CONSTANTS
  Holder = {h1, h2, h3, h4}
  MaxStream = 2
  MaxMaintenance = 1
  MaxAdmission = 1
  MaxIdle = 2
  MaxCreated = 4
  MaxIssued = 5
SYMMETRY HolderSymmetry
INVARIANTS
  PoolAccounting
  ExclusiveLease
  ClassesAreIsolated
CHECK_DEADLOCK FALSE
