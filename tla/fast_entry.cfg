SPECIFICATION Spec
CONSTANTS
  Symbols = {A, B}
  MAX_SIGNALS_PER_DAY = 2
  GLOBAL_COOLDOWN = 2
  PAIR_COOLDOWN = 3
  DryRunAnswers = {"asks_owner", "other_status"}
  DayLength = 7
  MaxSlow = 2
  MaxFaults = 3
INVARIANTS
  DayCap
