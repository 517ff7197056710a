\* The keys glibc makes.
SPECIFICATION Spec
CONSTANTS
    Conns = {c1, c2}
    NoConn = NoConn
    Fds = {1, 2}
    NoFd = NoFd
    FdKey <- BlankKeys
    Reuse = FALSE
    MaxPackets = 1
INVARIANTS
    NeverFlushesLive
CHECK_DEADLOCK FALSE
