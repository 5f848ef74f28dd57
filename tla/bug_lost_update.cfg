SPECIFICATION Spec
CONSTANTS
  Signals = {s1, s2}
  MaxLists = 2
  MaxStop = 2
  Handlers = {h1}
  Leftover = {s2}
  DynamicExitLive = FALSE
  MaxFaults = 0
INVARIANTS FillNotForgotten
CHECK_DEADLOCK FALSE
