SPECIFICATION Spec
CONSTANTS
  MaxRequests = 2
  MaxResets = 4
INVARIANTS BootInv UsbKeepsItsClock
PROPERTIES RequestIsHonoured
CHECK_DEADLOCK FALSE
