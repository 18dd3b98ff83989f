CONSTANTS
  h1 = h1  h2 = h2
  p1 = p1  p2 = p2
  f1 = f1  f2 = f2
  e1 = e1  e2 = e2  e3 = e3
  Handlers <- OneHandler
  Projects <- TwoProjects
  Fingerprints <- OneFp
  EventIds <- TwoEvents
  FpOf <- SameFpOf
  RequireAuth = TRUE
  QueueCap = 2
  BatchSize = 2
  WebhookCap = 2
  MaxEnvelope = 2
  Budget <- ConsoleBudget
SPECIFICATION Spec
INVARIANTS
  GroupingSound
PROPERTIES
  DeadIdsStayDead
  LedgerSpec
