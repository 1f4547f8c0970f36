SPECIFICATION FairSpec
CONSTANTS
  Closer = {c1}
  MaxNoise = 1
  CoverageMayEnd = TRUE
CHECK_DEADLOCK FALSE
INVARIANTS SignalIsAnswered NothingIsLeft
PROPERTIES EveryCallReturns ChangeEndsTheSession
