SPECIFICATION Spec
CONSTANTS
  Request = {r1, r2, r3, r4}
  Stopper = stop
  NoStream = none
INVARIANTS
  AtMostOneResident
CHECK_DEADLOCK FALSE
