SPECIFICATION Spec
CONSTANTS
  Clients = {c1, c2}
  Prints = {p1, p2}
  MaxAttempts = 3
  MaxDuplicates = 2
INVARIANTS
  OneWinnerPerAttempt
  RepeatsAreNoticed
PROPERTY ContractSpec
SYMMETRY Symmetry
