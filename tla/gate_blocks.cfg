SPECIFICATION GateFairSpec
CONSTANTS
  Signals = {s1}
  Handlers = {h1, h2}
  MaxOpenPositions = 1
  MaxGateFaults = 2
  PageOpened = TRUE
INVARIANTS ExecutorCalledOnce ConfirmedOnce RefusalIsFlat
PROPERTIES LossIsReflagged
