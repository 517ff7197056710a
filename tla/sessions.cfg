\* One client that may quit at any time, and one that waits for its answers.
SPECIFICATION FairSpec
CONSTANTS
    Players = {p1, p2}
    NoAccount = NoAccount
    Absent = Absent
    WorkersCount = 1
    Abrupt = {p1}
    MaxRequests <- MCMaxRequests
INVARIANTS
    TypeOK
    OneGameSession
    NoLostUpdate
    SocketHasGame
    HandoverKept
    PoliteFlushLogsOut
PROPERTIES
    LifeCycle
    DisconnectedIsFlushed
CHECK_DEADLOCK FALSE
