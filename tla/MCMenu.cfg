SPECIFICATION Spec
CONSTANTS
  PayloadParts = 1
  MaxErrors = 1
  MaxRecvRetries = 1
  Nothing = Nothing
  Garbage = Garbage
  Commands = {"challenge", "get_stats", "list_games", "spectate"}
  Challenger = {p}
  NoChallenge = NoChallenge
  MaxPending = 2
  Notice = {"move_result"}
  MaxRequests = 4
  MaxChallenges = 3
  MaxNotices = 1
INVARIANTS
  MenuIsNotWatching
  OpenIsListed
PROPERTIES
  CommandsEnd
  AnswersAreOwn
  OnlyReadersTear
CONSTRAINTS
  WholeMessages
  FewAtATime
CHECK_DEADLOCK FALSE
