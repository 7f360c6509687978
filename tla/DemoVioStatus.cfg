SPECIFICATION Spec
CONSTANTS
    Jobs = {j}
    Requests = {r1, r2}
    None = None
    MaxConcurrent = 1
    MaxIndexes = 1
INVARIANTS
    StatusShowsSubmission
CHECK_DEADLOCK FALSE
