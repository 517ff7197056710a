\* Two workers, three clients, one of which does not wait for its answer.
SPECIFICATION FairSpec
CONSTANTS
    WorkersCount = 2
    Clients = {c1, c2, c3}
    NoClient = NoClient
    MaxRequests = 2
    Eager = {c1}
    MaxFrames = 1
    EatChoices <- MayEat
INVARIANTS
    TypeOK
    OneOwner
    RegisteredBeforeUse
    QuietWorkerIsReady
PROPERTIES
    ServiceSpec
    EveryPacketSettles
