SPECIFICATION Spec
CONSTANTS
    Faults = {"timerfd_create", "fork", "timer_start", "pidfd_open", "epoll_add"}
    Configs <- FaultConfigs
    Crashes = TRUE
    MaxCommands = 3
    MaxProcesses = 2
INVARIANTS
    TypeOK
    ChildMatchesState
    TimersFitStates
    RestartsBounded
CHECK_DEADLOCK FALSE
