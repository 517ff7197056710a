\* Two players who move while the event server reads their positions; one may quit.
SPECIFICATION FairSpec
CONSTANTS
    Clients = {c1, c2}
    Workers = {w1}
    Positions <- Places2
    Start = "here"
    Around <- SamePlace
    Absent = Absent
    Quitters = {c2}
    MaxRequests = 2
    MaxEvents = 2
INVARIANTS
    TypeOK
    GraphIsMutual
    ScreensFollowGraph
    NeighboursAreInRange
    QuietGraphIsProximity
PROPERTIES
    NothingUnseen
    OnlyChangesEndIt
    EventsAreHandled
CHECK_DEADLOCK FALSE
