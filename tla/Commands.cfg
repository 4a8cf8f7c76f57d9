CONSTANTS
    MaxProcesses = 2
    None = None
    Commands = {"run", "once", "events", "backup", "doctor"}
    MaxStarts = 4
    MaxEvents = 1
    MaxKills = 1
SPECIFICATION FairSpec
INVARIANTS
    BackupsLeaveASnapshot
PROPERTIES
    DoctorVerdictIsRight
    CommandsEnd
CHECK_DEADLOCK FALSE
