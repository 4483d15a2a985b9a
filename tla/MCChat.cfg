SPECIFICATION Spec
CONSTANTS
  ann = ann
  bob = bob
  cyd = cyd
  dan = dan
  Talker = {ann, dan}
  Leaver = {ann, bob}
  Table <- FourClients
  Nobody = Nobody
  Room = 1
  MaxChats = 2
INVARIANTS
  HeldSessionsLive
  SameOrder
PROPERTIES
  LockIsFreed
CHECK_DEADLOCK FALSE
