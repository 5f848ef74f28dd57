SPECIFICATION ProtectedSpec
CONSTANTS
  NoIntent = NoIntent
  Intents = {i1}
  Executors = {}
  Reconcilers = {r1}
  Procs = {r1}
  IndexCap = 2
  SettleAttempts = 6
  MaxFaults = 1
  LateDelivery = FALSE
  ThinBook = FALSE
  ManualActions = FALSE
PROPERTY ExitIsBooked
CHECK_DEADLOCK FALSE
