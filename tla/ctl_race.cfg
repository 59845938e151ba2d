SPECIFICATION Spec
CONSTANTS
    Clients = {c1}
    c1 = c1
    HeaderSize = 1
    MaxWrite = 1
    BufferSize = 1
    CommandSize = 1
    ResponseSize = 1
    MaxSignals = 0
    MaxCommands = 1
INVARIANTS
    TerminateIsJoining
CHECK_DEADLOCK FALSE
