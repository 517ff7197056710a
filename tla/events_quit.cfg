\* A neighbour quits.
SPECIFICATION Spec
CONSTANTS
    Clients = {c1, c2}
    Workers = {w1}
    Positions <- Places2
    Start = "here"
    Around <- SamePlace
    Absent = Absent
    Quitters = {c2}
    MaxRequests = 1
    MaxEvents = 2
PROPERTIES
    LeaveGoesOn
CHECK_DEADLOCK FALSE
