SPECIFICATION FairSpec
CONSTANTS
  Capacity = 1
  MaxPermits = 2
  Grants = {1, 2}
  MaxGranted = 3
  Batches = 3
  OpenMayFail = TRUE
  SourceMayFail = TRUE
INVARIANTS FlowIsControlled DrainAccountsForAll CompletedIsWhole
PROPERTIES EndNeedsNoCredit EndStopsTheSource
