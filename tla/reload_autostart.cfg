SPECIFICATION FairSpec
CONSTANTS
    Faults = {}
    Files <- AutostartFiles
    Crashes = FALSE
    MaxEvents = 1
    MaxCommands = 0
    MaxReloads = 1
PROPERTIES
    ReloadTakesEffect
CHECK_DEADLOCK FALSE
