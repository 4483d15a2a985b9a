CONSTANTS
  PitsPerPlayer = 3
  SeedsPerPit   = 2
  WinScore      = 7
SPECIFICATION Spec
INVARIANT GameEndIsReported
CHECK_DEADLOCK FALSE
