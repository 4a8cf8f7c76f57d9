CONSTANTS
    NProjects = 1
    NKeys = 1
    Projects <- MCProjects
    Keys <- MCKeys
    Scores <- MCScores
    Minutes <- MCTwoMinutes
    Contents = {c1, c2}
    NoSHA = NoSHA
    None = None
    MaxEdits = 1
    MaxFailures = 1
    MaxCancels = 1
    MaxCrashes = 1
    MaxManual = 1
    MaxStrays = 1
    MaxEvents = 3
SPECIFICATION MCSpec
SYMMETRY AnyContent
INVARIANTS
    FoldMatchesJournal
    ReplayRebuilds
    ReplayChangesNothing
    ReplayIsErrorTolerant
    JournaledBlobsExist
CHECK_DEADLOCK FALSE
