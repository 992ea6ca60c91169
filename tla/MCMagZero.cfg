SPECIFICATION Spec
CONSTANTS
  SAMPLES = 2
  DISCARD = 1
  INT_MIN <- MCIntMin
  INT_MAX = 2
  Field <- MCField
  REINIT_MS = 2
  TICKS = 4
  MaxFaults = 2
  MaxZ = 1
INVARIANTS MagInv AnnouncementIsTrue
PROPERTIES PairsKeepComing
