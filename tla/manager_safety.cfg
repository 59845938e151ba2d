SPECIFICATION Spec
CONSTANTS
    Faults = {}
    Files <- SafetyFiles
    Crashes = TRUE
    MaxEvents = 3
    MaxCommands = 2
    MaxReloads = 2
INVARIANTS
    TypeOK
    MarksAreHandled
    ConfiguredHaveJobs
    NoOrphansAtExit
PROPERTIES
    NoChildAbandoned
CHECK_DEADLOCK FALSE
