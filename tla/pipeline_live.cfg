CONSTANTS
  h1 = h1  h2 = h2
  p1 = p1  p2 = p2
  f1 = f1  f2 = f2
  e1 = e1  e2 = e2  e3 = e3
  Handlers <- TwoHandlers
  Projects <- OneProject
  Fingerprints <- OneFp
  EventIds <- TwoEvents
  FpOf <- SameFpOf
  RequireAuth = FALSE
  QueueCap = 1
  BatchSize = 1
  WebhookCap = 1
  MaxEnvelope = 2
  Budget <- LiveBudget
SPECIFICATION FairSpec
INVARIANTS
  NoIdlePermit
PROPERTIES
  AcceptedIsSettled
  RequestsEnd
