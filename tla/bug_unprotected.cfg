SPECIFICATION FairSpec
CONSTANTS
  Signals = {s1}
  MaxLists = 2
  MaxStop = 2
  Handlers = {h1}
  Leftover = {}
  DynamicExitLive = FALSE
  MaxFaults = 1
CHECK_DEADLOCK FALSE
PROPERTIES ConfirmedBuyIsSubmitted
