SPECIFICATION Spec
CONSTANTS
  Call = {c1, c2, c3}
  Key = {k1, k2}
  StepLens = {1, 2, 3}
  HeaderLen = 1
  MaxStepLine = 2
  MaxHistoryBytes = 6
  MaxRuns = 2
  MaxFaults = 0
INVARIANTS
  NormalEndClears
CHECK_DEADLOCK FALSE
