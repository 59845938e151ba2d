SPECIFICATION FairSpec
CONSTANTS
    Clients = {c1}
    c1 = c1
    HeaderSize = 2
    MaxWrite = 3
    BufferSize = 3
    CommandSize = 2
    ResponseSize = 4
    MaxSignals = 2
    MaxCommands = 3
INVARIANTS
    TypeOK
    NothingInFlight
PROPERTIES
    ImplementsRpc
    WaitsEnd
    GoneIsClosed
    TerminateTakesEffect
    TerminatedEnds
CHECK_DEADLOCK FALSE
