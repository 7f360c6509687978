SPECIFICATION Spec
CONSTANTS
  Requests = {r1, r2, r3}
  Creators = {r1, r2, r3}
  Retriers = {r1, r2, r3}
  Cancellers = {r1, r2, r3}
  Workers = {w1, w2}
  Prints = {p1, p2}
  MaxAttempts = 3
  MaxNodes = 2
  MaxCrashes = 1
  DispatchFails = TRUE
INVARIANTS
  TypeOK
  ActiveIsCarried
  EachAttemptDispatchedOnce
  DeliveredHasResult
  CancelStopsWithinOneNode
  OnlyTheSamePayloadIsServed
  OneExecution
PROPERTIES
  TerminalIsFinal
  LedgerSpec
SYMMETRY Symmetry
CHECK_DEADLOCK FALSE
