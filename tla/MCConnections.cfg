\* A third thread, for a player that comes back before its first has ended.
CONSTANTS
  p1 = p1
  p2 = p2
  t1 = t1
  t2 = t2
  t3 = t3
  Player        = {p1, p2}
  NoPlayer      = NoPlayer
  Known         = {p1}
  MaxPlayers    = 2
  MaxSessions   = 2
  MaxGames      = 2
  MaxSpectators = 1
  GameId        = {"g", "h"}
  MayWatch     <- MCMayWatch
  Thread        = {t1, t2, t3}
SYMMETRY MCThreads
SPECIFICATION Spec
INVARIANTS
  OneSessionEach
  NobodyTurnedAway
  ConnectedIsServed
  SpectatorsLeave
