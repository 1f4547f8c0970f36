SPECIFICATION Spec
CONSTANTS
  Conn = {c1, c2, c3, c4}
  MaxStreams = 2
  MaxIdle = 1
  MaxRecords = 2
  MaxLeases = 2
SYMMETRY ConnSymmetry
INVARIANTS HandlersGiveBack ExhaustionNeedsACut
