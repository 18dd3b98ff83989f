CONSTANTS
  u1 = u1  u2 = u2
  i1 = i1
  r1 = r1  r2 = r2
  Users <- TwoUsers
  Ips <- OneIp
  Requests <- TwoRequests
  AdminSlots <- OneRequest
  UserThreshold = 1
  IpThreshold = 2
  Budget <- TeamBudget
SYMMETRY Symmetric
SPECIFICATION Spec
INVARIANTS
  TypeOK
  FailuresBounded
  ActiveAdminRemains
  OnlyOvertakenStay
  OverTime
CHECK_DEADLOCK FALSE
