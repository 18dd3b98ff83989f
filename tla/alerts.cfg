CONSTANTS
  n1 = n1  n2 = n2
  u1 = u1
  Names <- TwoNames
  Urls <- OneUrl
  QueueCap = 1
  MaxIssues = 2
  Budget <- AlertsBudget
SPECIFICATION FairSpec
INVARIANTS
  TypeOK
  HealthIsLastOutcome
PROPERTIES
  OnlyOvertakenFire
  AlertsSettle
CHECK_DEADLOCK FALSE
