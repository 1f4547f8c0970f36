SPECIFICATION Spec
CONSTANTS
  Capacity = 2
  MaxPermits = 4
  Grants = {1, 2}
  MaxGranted = 4
  Batches = 3
  OpenMayFail = FALSE
  SourceMayFail = FALSE
INVARIANTS NoPartialAsComplete
