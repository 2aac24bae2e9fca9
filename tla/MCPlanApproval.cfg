SPECIFICATION Spec
CONSTANTS
    w1 = w1
    w2 = w2
    c1 = c1
    c2 = c2
    a1 = a1
    Workers = {w1, w2}
    Clients = {c1, c2}
    Applies = {a1}
    None = None
    Kinds = {"gated"}
    RetryLimit = 0
    MaxFaults = 0
    Drains = FALSE
PROPERTIES
    ApprovalStands
CHECK_DEADLOCK FALSE
