\* Time for a challenge to expire and for a pair to challenge again.
CONSTANTS
  ann = ann
  bob = bob
  cyd = cyd
  Player           = {ann, bob, cyd}
  NoPlayer         = NoPlayer
  Known            = {}
  Pair            <- MCPair
  MaxPlayers       = 3
  MaxChallenges    = 1
  RateLimit        = 1
  DeclineWindow    = 2
  MaxDeclines      = 1
  ChallengeTimeout = 1
  CleanupPeriod    = 1
  StartTime        = 2
  MaxNow           = 4
  MaxId            = 2
SPECIFICATION Spec
INVARIANTS
  AnsweredOnce
  AnswerMatchesChallenge
  DeclinesAreLimited
\* At the last second nobody may be left who can act.
CHECK_DEADLOCK FALSE
