CONSTANTS
    RootID = root
    a = a
    b = b
    missing = missing
    Ids = {root, a, b, missing}
    Empty = Empty
    None = None
    Lists <- MCLists
SPECIFICATION FairSpec
INVARIANTS
    VerdictIsRight
    ReportedPathExists
PROPERTIES
    SearchEnds
CHECK_DEADLOCK FALSE
