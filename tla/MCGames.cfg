\* Two games, of two pairs or twice of one, in a table that has room for both.
CONSTANTS
  ann = ann
  bob = bob
  cyd = cyd
  Player     = {ann, bob, cyd}
  MaxGames   = 2
  Pairing   <- MCPairing
  MaxCreated = 2
SPECIFICATION Spec
INVARIANTS
  GameCountMatches
  RemovedIsWon
  ResultsAreCounted
  WonIsAttended
PROPERTY WonGamesEnd
\* Nothing is left to do once all games are played.
CHECK_DEADLOCK FALSE
