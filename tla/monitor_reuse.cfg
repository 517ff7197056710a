\* The system gives out the descriptor of a closed connection again.
SPECIFICATION Spec
CONSTANTS
    Conns = {c1, c2}
    NoConn = NoConn
    Fds = {1, 2}
    NoFd = NoFd
    FdKey <- DistinctKeys
    Reuse = TRUE
    MaxPackets = 1
INVARIANTS
    NeverFlushesLive
CHECK_DEADLOCK FALSE
