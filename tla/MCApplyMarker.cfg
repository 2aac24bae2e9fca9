SPECIFICATION Spec
CONSTANTS
    p1 = p1
    p2 = p2
    a1 = a1
    a2 = a2
    w1 = w1
    w2 = w2
    Plans = {p1}
    Applies = {a1, a2}
    Workers = {w1, w2}
    RunOf <- EachOnce
    None = None
    MaxStamp = 8
    RetryLimit = 1
    MaxFaults = 2
    StartStatus = "error"
    Drains = FALSE
    Enforced = TRUE
PROPERTIES
    MarkedOnce
CHECK_DEADLOCK FALSE
