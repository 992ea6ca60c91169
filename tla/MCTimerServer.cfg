SPECIFICATION TimerSpec
CONSTANTS
  MaxTimers = 3
  WRAP = 3
  MARGIN = 1
  DELAY = 1
  Timeouts <- MCTimeouts
  MaxCalls = 4
INVARIANTS TimerInv FiresInTime WakeupExpected
PROPERTY FiresNotEarly
