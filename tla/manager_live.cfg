SPECIFICATION FairSpec
CONSTANTS
    Faults = {}
    Files <- LiveFiles
    Crashes = FALSE
    MaxEvents = 1
    MaxCommands = 2
    MaxReloads = 1
INVARIANTS
    NeverAborts
PROPERTIES
    ReloadSparesUnchanged
    DriftResolves
    CleanTerminateEnds
CHECK_DEADLOCK FALSE
