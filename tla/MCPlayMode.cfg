SPECIFICATION Spec
CONSTANTS
  PayloadParts = 2
  MaxErrors = 2
  MaxRecvRetries = 2
  MaxRetries = 1
  MaxMoves = 2
  MaxRequests = 4
  Nothing = Nothing
  Garbage = Garbage
INVARIANTS
  TypeOK
  NoAnswerIsLeft
  RefreshIsComing
  MovesAreInTurn
PROPERTIES
  BoardsGoForward
  BoardCatchesUp
CHECK_DEADLOCK FALSE
