CONSTANTS
  SEQ = 2
  MaxPairs = 3
  MaxLinks = 2
  MaxPending = 3
SPECIFICATION FairSpec
INVARIANTS
  StatusFollowsLink
  EnabledByThisPeer
  NotifiedInOrder
PROPERTY PairIsSent
CHECK_DEADLOCK FALSE
