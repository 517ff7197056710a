\* The default of cfg/server.cfg: a single worker.
SPECIFICATION Spec
CONSTANTS
    WorkersCount = 1
    Clients = {c1, c2}
    NoClient = NoClient
    MaxRequests = 2
    Eager = {c1, c2}
    MaxFrames = 2
    EatChoices <- MayEat
INVARIANTS
    PacketOrder
PROPERTIES
    ServiceSpec
SYMMETRY ClientSymmetry
