CONSTANTS
  u1 = u1  u2 = u2
  i1 = i1
  r1 = r1  r2 = r2
  Users <- TwoUsers
  Ips <- OneIp
  Requests <- TwoRequests
  AdminSlots <- TwoRequests
  UserThreshold = 2
  IpThreshold = 3
  Budget <- RaceBudget
SPECIFICATION Spec
INVARIANTS
  ActiveAdminRemains
CHECK_DEADLOCK FALSE
