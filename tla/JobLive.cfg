SPECIFICATION FairSpec
CONSTANTS
  Requests = {r1, r2, r3}
  Creators = {r1, r2}
  Retriers = {r2, r3}
  Cancellers = {r3}
  Workers = {w1, w2}
  Prints = {p1}
  MaxAttempts = 3
  MaxNodes = 1
  MaxCrashes = 0
  DispatchFails = TRUE
PROPERTY Settles
CHECK_DEADLOCK FALSE
