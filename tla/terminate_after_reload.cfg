SPECIFICATION FairSpec
CONSTANTS
    Faults = {}
    Files <- ManualFiles
    Crashes = FALSE
    MaxEvents = 1
    MaxCommands = 1
    MaxReloads = 1
PROPERTIES
    TerminateEnds
CHECK_DEADLOCK FALSE
