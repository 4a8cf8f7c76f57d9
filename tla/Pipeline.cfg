CONSTANTS
    NProjects = 1
    NKeys = 2
    Projects <- MCProjects
    Keys <- MCKeys
    Scores <- MCScores
    Minutes <- MCTwoMinutes
    Contents = {c1, c2}
    NoSHA = NoSHA
    None = None
    MaxEdits = 2
    MaxFailures = 1
    MaxCancels = 1
    MaxCrashes = 1
SPECIFICATION MCSpec
INVARIANTS
    TypeOK
    LegalHistory
    FilesShowJournaledVerdicts
    ReviewFilesFollowJournal
    CleanProjectIsComplete
PROPERTIES
    ImplementsLifecycle
    BlobsAreImmutable
    EveryScreenshotReviewed
    IndexConverges
CHECK_DEADLOCK FALSE
