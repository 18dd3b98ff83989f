CONSTANTS
  k1 = k1  k2 = k2
  NoSocket = NoSocket
  Sockets <- TwoSockets
  Ids <- Ids12
  RingCap = 2
  BatchSize = 2
  WireCap = 1
  Budget <- ViewBudget
SPECIFICATION FairSpec
INVARIANTS
  OneSocket
  DrainedIsCurrent
PROPERTIES
  PageCatchesUp
CHECK_DEADLOCK FALSE
