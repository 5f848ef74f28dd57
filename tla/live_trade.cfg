SPECIFICATION Spec
CONSTANTS
  NoIntent = NoIntent
  Intents = {i1}
  Executors = {e1}
  Reconcilers = {r1}
  Procs = {e1, r1}
  IndexCap = 2
  SettleAttempts = 6
  MaxFaults = 2
  LateDelivery = TRUE
  ThinBook = FALSE
  ManualActions = TRUE
INVARIANTS SingleEntry OrderIsOnRecord SaleFollowsFinalEntry AnswerIsHonest ProtectedIsReal ExitedIsFlat EmergencyIsFlat
CHECK_DEADLOCK FALSE
