CONSTANTS
  ann = ann
  bob = bob
  cyd = cyd
  Player     = {ann, bob, cyd}
  MaxGames   = 2
  Pairing   <- MCPairing
  MaxCreated = 2
SPECIFICATION Spec
INVARIANT BothAreTold
CHECK_DEADLOCK FALSE
