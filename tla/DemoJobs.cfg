SPECIFICATION Spec
CONSTANTS
    Jobs = {j, k}
    Requests = {r1, r2, r3}
    None = None
    MaxConcurrent = 2
    MaxIndexes = 2
INVARIANTS
    RegistryServesExecutions
    MirrorFollowsRow
    AttemptsCountSubmissions
    NothingIsStranded
SYMMETRY Interchangeable
CHECK_DEADLOCK FALSE
