SPECIFICATION FairSpec
CONSTANTS
    Faults = {}
    Configs <- CleanConfigs
    Crashes = FALSE
    MaxCommands = 4
    MaxProcesses = 2
INVARIANTS
    StoppingWaits
    RunningRuns
PROPERTIES
    StopReachesAll
    StopWins
    ImplementsSupervision
    StopCompletes
    ProcessStops
CHECK_DEADLOCK FALSE
