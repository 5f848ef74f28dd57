SPECIFICATION Spec
CONSTANTS
  NoIntent = NoIntent
  Intents = {i1}
  Executors = {e1}
  Reconcilers = {r1}
  Procs = {e1, r1}
  IndexCap = 2
  SettleAttempts = 6
  MaxFaults = 0
  LateDelivery = FALSE
  ThinBook = FALSE
  ManualActions = FALSE
INVARIANT OwnExitIsPriced
CHECK_DEADLOCK FALSE
