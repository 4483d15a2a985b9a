SPECIFICATION Spec
CONSTANTS
  PayloadParts = 1
  MaxErrors = 1
  MaxRecvRetries = 1
  Nothing = Nothing
  Garbage = Garbage
  Commands = {"challenge"}
  Challenger = {p}
  NoChallenge = NoChallenge
  MaxPending = 1
  Notice = {}
  MaxRequests = 1
  MaxChallenges = 1
  MaxNotices = 0
PROPERTY NoticesAreHandled
CHECK_DEADLOCK FALSE
