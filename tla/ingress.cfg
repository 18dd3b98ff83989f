CONSTANTS
  n1 = n1  n2 = n2
  s1 = s1  s2 = s2
  Names <- TwoNames
  FirstName = n1
  Slots <- TwoSlots
  Bodies <- MCBodies
  RequireAuth = TRUE
  ChannelCap = 1
  MaxTime = 3
  Budget <- IngressBudget
  PerMin = 2
  BurstSize = 1
  TicksPerMin = 3
  DefaultEvent = DefaultEvent
  Width = 64
SYMMETRY Symmetric
SPECIFICATION Spec
INVARIANTS
  TypeOK
  WithinBudget
  KeyHeldDuringRequest
  AnswersMatchSends
  InputsReadAsMeant
PROPERTIES
  RefusedOnlyOverBudget
CHECK_DEADLOCK FALSE
