\* All games on a board of 2 x 3 pits with 2 seeds each.
CONSTANTS
  PitsPerPlayer = 3
  SeedsPerPit   = 2
  WinScore      = 7
  StackDepth    = 3
SPECIFICATION LoopSpec
INVARIANTS
  WinnersAgree
  MoverNotBlocked
PROPERTIES
  CaptureStaysAcross
  RefinesRace
  RefinesTurns
  FormsAgree
\* A game may come to its end, or get stuck.
CHECK_DEADLOCK FALSE
