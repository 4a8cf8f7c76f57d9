CONSTANTS
    Images = {i1, i2, i3}
    MaxConcurrency = 2
    Retry = TRUE
    MaxAttempts = 2
    None = None
SPECIFICATION FairSpec
INVARIANTS
    LiveCallsAreLimited
    HooksMatchResults
    DeadRequestsStop
PROPERTIES
    BatchReturns
CHECK_DEADLOCK FALSE
