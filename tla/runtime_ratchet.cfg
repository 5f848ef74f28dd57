SPECIFICATION Spec
CONSTANTS
  Signals = {s1}
  MaxLists = 2
  MaxStop = 2
  Handlers = {h1}
  Leftover = {}
  DynamicExitLive = TRUE
  MaxFaults = 0
INVARIANTS ClosedOnSale StopOnFileIsLive
CHECK_DEADLOCK FALSE
