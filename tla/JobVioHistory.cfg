SPECIFICATION Spec
CONSTANTS
  Requests = {r1, r2, r3}
  Creators = {r1, r2, r3}
  Retriers = {r1, r2, r3}
  Cancellers = {r1, r2, r3}
  Workers = {w1, w2}
  Prints = {p1}
  MaxAttempts = 3
  MaxNodes = 1
  MaxCrashes = 0
  DispatchFails = FALSE
INVARIANT HistoryIsClosed
SYMMETRY Symmetry
CHECK_DEADLOCK FALSE
