SPECIFICATION Spec
CONSTANTS
    Faults = {}
    Configs <- TwoNeverRestarted
    Crashes = TRUE
    MaxCommands = 2
    MaxProcesses = 2
PROPERTIES
    StopReachesAll
CHECK_DEADLOCK FALSE
