CONSTANTS
  p1 = p1  p2 = p2
  f1 = f1  f2 = f2
  e1 = e1  e2 = e2  e3 = e3  e4 = e4
  Projects <- TwoProjects
  Fingerprints <- TwoFps
  EventIds <- FourEvents
  FpOf <- MCFpOf
  Posts <- MCPosts
  BootDays = 1
  Requests <- MCRequests
  MaxDays = 5
  DayParts = 2
  Horizon = 4
  Budget <- SweepBudget
SPECIFICATION FairSpec
INVARIANTS
  TypeOK
  TablesSound
PROPERTIES
  SweepMeetsLimits
  OldestGoFirst
  LaterDatesKept
  LimitsTakeEffect
