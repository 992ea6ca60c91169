CONSTANTS
  NoEvent = NoEvent
  QLEN = 4
  IDX = 8
  TIMEOUT = 4
  LATENCY = 1
  MaxEdges = 3
  MaxRestarts = 0
  MaxRows = 0
SPECIFICATION Spec
INVARIANT LostPeriodIsFlagged
CHECK_DEADLOCK FALSE
