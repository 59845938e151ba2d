SPECIFICATION Spec
CONSTANTS
    Faults = {}
    Configs <- CrashConfigs
    Crashes = TRUE
    MaxCommands = 5
    MaxProcesses = 2
INVARIANTS
    StoppedMeansDead
    LiveChildrenWatched
    TimerInPlace
PROPERTIES
    RetriesAreCounted
CHECK_DEADLOCK FALSE
