CONSTANTS
    Interval = 3
    WatchdogUsec = 3
    MinPeriod = 1
    PingTimeout = 1
    MaxSkips = 2
SPECIFICATION FairSpec
PROPERTIES
    PassesAreSpaced
    OnlyStalledIsKilled
    PassesResume
    CancelReturns
CHECK_DEADLOCK FALSE
