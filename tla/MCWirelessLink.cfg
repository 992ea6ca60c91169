CONSTANTS
  NBUF = 2
  InitCmds = 2
  MaxEvents = 5
  MaxCalls = 3
SPECIFICATION FairSpec
INVARIANTS
  OneCoreAtATime
  LinkInv
PROPERTIES
  LinkSettles
\* The program stops in Error_Handler, and the bounds let the rest come to an end.
CHECK_DEADLOCK FALSE
