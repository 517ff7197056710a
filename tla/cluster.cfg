\* Two GlobalServers; the barrack server is followed.
SPECIFICATION Spec
CONSTANTS
    Globals = {g1, g2}
    SocialCount = 1
    ZoneCount = 1
    SocialWorkers = 1
    ZoneWorkers = 2
    Ports <- MCPorts
    Endpoints <- MCEndpoints
    Identities = {1, 2}
    Followed = {1}
    Nobody = Nobody
INVARIANTS
    TypeOK
    FrontendMeansReady
    OneServerPerId
    NoForeignSession
PROPERTIES
    OnlyAnotherFlushDrops
    EveryServerSettles
CHECK_DEADLOCK FALSE
