CONSTANTS
  h1 = h1  h2 = h2
  p1 = p1  p2 = p2
  f1 = f1  f2 = f2
  e1 = e1  e2 = e2  e3 = e3
  Handlers <- TwoHandlers
  Projects <- OneProject
  Fingerprints <- TwoFps
  EventIds <- ThreeEvents
  FpOf <- MCFpOf
  RequireAuth = FALSE
  QueueCap = 2
  BatchSize = 2
  WebhookCap = 1
  MaxEnvelope = 2
  Budget <- IngestBudget
SPECIFICATION Spec
INVARIANTS
  TypeOK
  CountsCoverEvents
  NothingUnaccounted
  FanoutEndsAtDb
PROPERTIES
  IngestKeepsTriage
  AlertsMatchChanges
