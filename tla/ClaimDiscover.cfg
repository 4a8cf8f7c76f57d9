SPECIFICATION Spec
CONSTANTS
    Absent = Absent
    Null = Null
    Empty = Empty
    Malformed = Malformed
    Endpoint = Endpoint
    OtherScheme = OtherScheme
    DefaultModel = DefaultModel
    NoConfig = NoConfig
    Texts <- MCTexts
    ProjectNames <- MCProjectNames
    Lower <- MCLower
    RootName = "Work"
    AbsRoot <- MCAbsRoot
    Matched <- MCMatched
    NoView = NoView
    Dirs <- PlainDirs
    AllFiles <- ShoutedFiles
    Roots <- MCRoots
    Unreadable <- MCUnreadable
    Homes <- MCHomes
    Values <- MCValues
    LastModified = 2
    MaxEdits = 1
INVARIANT GlobsCoverEverythingFound
CHECK_DEADLOCK FALSE
