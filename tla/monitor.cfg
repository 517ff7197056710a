\* Clients that send while and after they connect; descriptors are not used again.
SPECIFICATION FairSpec
CONSTANTS
    Conns = {c1, c2}
    NoConn = NoConn
    Fds = {1, 2, 3}
    NoFd = NoFd
    FdKey <- DistinctKeys
    Reuse = FALSE
    MaxPackets = 2
INVARIANTS
    TypeOK
    NeverFlushesLive
    MonitorSurvives
    FlushedOnce
PROPERTIES
    KnownClientIsFlushed
CHECK_DEADLOCK FALSE
