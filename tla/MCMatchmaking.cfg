\* Two players, fewer slots than pairs, and time for every limit to run out.
CONSTANTS
  p1 = p1
  p2 = p2
  Player           = {p1, p2}
  Pair            <- MCPair
  NoPlayer         = NoPlayer
  Known            = {p1}
  MaxPlayers       = 2
  MaxChallenges    = 2
  RateLimit        = 1
  DeclineWindow    = 2
  MaxDeclines      = 1
  ChallengeTimeout = 1
  StartTime        = 2
  MaxNow           = 4
  MaxId            = 3
SPECIFICATION MMSpec
INVARIANTS
  CountMatchesSlots
  OneSlotPerChallenge
  LimitCountsFromChallenge
PROPERTY RefinesBook
