CONSTANTS
  NoEvent = NoEvent
  QLEN = 2
  IDX = 4
  TIMEOUT = 4
  LATENCY = 1
  MaxEdges = 3
  MaxRestarts = 1
  MaxRows = 1
SPECIFICATION FairSpec
INVARIANT OnePuffPerBurst
INVARIANT MeasureExact
INVARIANT PuffInv
INVARIANT EventsPaired
PROPERTY ImplementsChannel
PROPERTY PuffGetsLogged
PROPERTY EverythingReported
CHECK_DEADLOCK FALSE
