SPECIFICATION Spec
CONSTANTS
  NoIntent = NoIntent
  Intents = {i1}
  Executors = {e1}
  Reconcilers = {}
  Procs = {e1}
  IndexCap = 2
  SettleAttempts = 6
  MaxFaults = 0
  LateDelivery = FALSE
  ThinBook = TRUE
  ManualActions = FALSE
INVARIANT EmergencyIsFlat
CHECK_DEADLOCK FALSE
