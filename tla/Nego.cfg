SPECIFICATION NegoFairSpec
CONSTANTS
  MaxConfig = 4
  MaxTerminate = 2
  MaxFailure = 3
  EchoLimit = 0
  Passive = FALSE
  IdMod = 6
  a = a
  b = b
  Peers <- MCPeers
  Deals <- MCDeals
  Capacity = 3
INVARIANTS
  Agreement
  ResourcesReturn
PROPERTY Converges
CHECK_DEADLOCK FALSE
