SPECIFICATION FairSpec
CONSTANTS
  Signals = {s1}
  MaxLists = 2
  MaxStop = 2
  Handlers = {h1}
  Leftover = {}
  DynamicExitLive = FALSE
  MaxFaults = 1
INVARIANTS TypeOK SubmittedOnce FillNotForgotten
PROPERTIES FillIsTracked EndedListIsNoticed
CHECK_DEADLOCK FALSE
