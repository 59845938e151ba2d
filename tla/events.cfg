SPECIFICATION FairSpec
CONSTANTS
    Clients = {c1}
    Procs = {p1, p2}
    c1 = c1
    p1 = p1
    p2 = p2
    NoStartTime = {p2}
    NoStopTime = {p2}
    MaxStarts = 2
    MaxStops = 2
    MaxCommands = 1
INVARIANTS
    TypeOK
    DescriptorsAreOwned
    CallbacksMatch
    EventsAreTrue
PROPERTIES
    StopsEnd
    CommandsAnswered
CHECK_DEADLOCK FALSE
