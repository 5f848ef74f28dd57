SPECIFICATION Spec
CONSTANTS
  Plans <- MCSound
  MaxSignals = 4
CHECK_DEADLOCK FALSE
INVARIANTS
  ProofIsUnseen
