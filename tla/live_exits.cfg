SPECIFICATION ProtectedSpec
CONSTANTS
  NoIntent = NoIntent
  Intents = {i1}
  Executors = {}
  Reconcilers = {r1, r2}
  Procs = {r1, r2}
  IndexCap = 2
  SettleAttempts = 6
  MaxFaults = 0
  LateDelivery = FALSE
  ThinBook = FALSE
  ManualActions = TRUE
INVARIANTS PnlAtMostOnce ExitIsCounted OwnExitIsPriced
PROPERTIES ExitIsBooked
CHECK_DEADLOCK FALSE
