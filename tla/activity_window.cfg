CONSTANTS
  p1 = p1  p2 = p2
  e1 = e1  e2 = e2
  f1 = f1
  web1 = web1  web2 = web2  cli = cli
  hook = hook
  Projects <- TwoProjects
  Fingerprints <- OneFingerprint
  EventIds <- TwoEvents
  FpOf <- SameFp
  Consoles <- TwoConsoles
  Clis <- OneCli
  Urls <- OneUrl
  NoUrl = NoUrl
  Budget <- MCBudget
SYMMETRY Symmetric
SPECIFICATION Spec
INVARIANT LastDayReported
CHECK_DEADLOCK FALSE
