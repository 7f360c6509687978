SPECIFICATION Spec
CONSTANTS
  Calls = {c1, c2}
  Endpoints <- MCEndpoints
  Configured <- MCConfigured
  Usable <- MCUsable
  Permits = 1
  MaxRetries = 1
INVARIANTS
  LineIsTrue
  NeverStuck
  GuardsAreThoseOfTheActions
PROPERTY EveryStepAdvances
CHECK_DEADLOCK FALSE
