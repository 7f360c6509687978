SPECIFICATION Spec
CONSTANTS
  Requests = {r1, r2}
  Creators = {r1, r2}
  Retriers = {r2}
  Cancellers = {r2}
  Workers = {w1, w2}
  Prints = {p1, p2}
  MaxAttempts = 3
  MaxNodes = 2
  MaxCrashes = 1
  DispatchFails = TRUE
PROPERTIES
  EveryStepAdvances
  StoreSpec
CHECK_DEADLOCK FALSE
