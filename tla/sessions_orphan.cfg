\* A client that quits while a packet of it is outstanding.
SPECIFICATION Spec
CONSTANTS
    Players = {p1}
    NoAccount = NoAccount
    Absent = Absent
    WorkersCount = 1
    Abrupt = {p1}
    MaxRequests <- MCMaxRequests
INVARIANTS
    FlushedIsGone
CHECK_DEADLOCK FALSE
