SPECIFICATION Spec
CONSTANTS
    Absent = Absent
    Null = Null
    Empty = Empty
    Malformed = Malformed
    Endpoint = Endpoint
    OtherScheme = OtherScheme
    DefaultModel = DefaultModel
    NoConfig = NoConfig
    Texts <- MCTexts
    ProjectNames <- MCProjectNames
    Lower <- MCLower
    RootName = "Work"
    AbsRoot <- MCAbsRoot
    Matched <- MCMatched
    NoView = NoView
    Dirs <- MCDirs
    AllFiles <- MCFiles
    Roots <- MCRoots
    Unreadable <- MCUnreadable
    Homes <- MCHomes
    Values <- MCValues
    LastModified = 2
    MaxEdits = 2
INVARIANTS
    SavedConfigRunsAlike
    EveryScreenshotHasOneProject
CHECK_DEADLOCK FALSE
