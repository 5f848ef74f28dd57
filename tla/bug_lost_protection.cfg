SPECIFICATION GateSpec
CONSTANTS
  Signals = {s1, s2}
  Handlers = {h1, h2}
  MaxOpenPositions = 1
  MaxGateFaults = 0
  PageOpened = FALSE
INVARIANTS LostProtectionBlocks
