CONSTANTS
    Images = {i1, i2}
    MaxConcurrency = 1
    Retry = FALSE
    MaxAttempts = 1
    None = None
SPECIFICATION Spec
INVARIANTS
    ErrorsArePerImage
CHECK_DEADLOCK FALSE
