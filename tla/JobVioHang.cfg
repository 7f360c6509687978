SPECIFICATION FairSpec
CONSTANTS
  Requests = {r1, r2}
  Creators = {r1}
  Retriers = {r2}
  Cancellers = {}
  Workers = {w1, w2}
  Prints = {p1}
  MaxAttempts = 3
  MaxNodes = 1
  MaxCrashes = 1
  DispatchFails = FALSE
PROPERTY NoSilentHang
CHECK_DEADLOCK FALSE
