SPECIFICATION Spec
CONSTANTS
  TakenOut <- Stale
  MaxBuilds = 2
CHECK_DEADLOCK FALSE
INVARIANTS
  PublishedIsWhole
  CeilingsAgree
PROPERTIES
  RefusalsStay
