SPECIFICATION Spec
CONSTANTS
  Call = {c1, c2}
  Dest = {d1}
  Attempt = {a1, a2}
  MaxPartitions = 1
  MaxLines = 9
  Generations = 1
  MaxNow = 1
  MaxUpsets = 1
  AttemptTtl = 1
  MaxGrants = 1
  MaxCli = 1
  MaxRestarts = 1
SYMMETRY Symmetry
INVARIANTS
  OutcomeIsTrue
  StagingIsAccountedFor
  GuardNotHeldWhilePublishing
PROPERTIES
  PublishesOnce
CHECK_DEADLOCK FALSE
