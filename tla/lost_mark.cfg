SPECIFICATION FairSpec
CONSTANTS
    Faults = {}
    Files <- ManualFiles
    Crashes = FALSE
    MaxEvents = 2
    MaxCommands = 2
    MaxReloads = 1
PROPERTIES
    DriftResolves
CHECK_DEADLOCK FALSE
