SPECIFICATION Spec
CONSTANTS
  Plans <- MCPrecision
  MaxSignals = 4
CHECK_DEADLOCK FALSE
INVARIANTS
  ProofIsUnseen
