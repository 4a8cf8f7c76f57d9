CONSTANTS
    Temperatures = {0, 3}
    TokenLimits = {5}
    ModelTokens = 2
    Statuses = {0, 400, 401, 404, 409, 429, 501, 503, 529}
    Retrying = TRUE
    MaxAttempts = 2
    None = None
    MaxRequests = 2
    MaxParts = 3
    MaxMessages = 4
    MaxSettings = 1
SPECIFICATION Spec
INVARIANTS
    ToldIsReturned
    AttemptsAreRight
CHECK_DEADLOCK FALSE
