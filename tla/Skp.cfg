SPECIFICATION Spec
CONSTANTS
  Dataset = {d1}
  Query = {q1, q2}
  Start = {s1}
  TicketTtl = 1
  MaxAge = 0
  MaxPending = 1
  MaxNow = 2
SYMMETRY MCSymmetry
CHECK_DEADLOCK FALSE
INVARIANTS SingleUse OverIsOver OneEventPerSession
PROPERTIES RefusalNamesTheEnd
