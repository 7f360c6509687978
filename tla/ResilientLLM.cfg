SPECIFICATION FairSpec
CONSTANTS
  Calls = {c1, c2}
  Endpoints <- MCEndpoints
  Configured <- MCConfigured
  Usable <- MCUsable
  Permits = 1
  MaxRetries = 1
INVARIANTS
  PermitsConserved
  HealthyEndpointAnswers
  AttemptsAreBounded
  QuotaErrorIsFinal
PROPERTY CallsEnd
CHECK_DEADLOCK FALSE
