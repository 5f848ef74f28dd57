SPECIFICATION FairSpec
CONSTANTS
  NoIntent = NoIntent
  Intents = {i1}
  Executors = {e1, e2}
  Reconcilers = {}
  Procs = {e1, e2}
  IndexCap = 2
  SettleAttempts = 6
  MaxFaults = 2
  LateDelivery = TRUE
  ThinBook = TRUE
  ManualActions = TRUE
INVARIANTS Ownership
PROPERTIES FollowsLifecycle EveryCallEnds
CHECK_DEADLOCK FALSE
