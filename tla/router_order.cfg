\* Two workers, one client that does not wait for answers.
SPECIFICATION Spec
CONSTANTS
    WorkersCount = 2
    Clients = {c1}
    NoClient = NoClient
    MaxRequests = 3
    Eager = {c1}
    MaxFrames = 1
    EatChoices <- MayEat
INVARIANTS
    PacketOrder
