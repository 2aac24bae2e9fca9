SPECIFICATION FairSpec
CONSTANTS
    w1 = w1
    w2 = w2
    c1 = c1
    c2 = c2
    a1 = a1
    Workers = {w1, w2}
    Clients = {c1, c2}
    Applies = {a1}
    None = None
    Kinds = {"update", "destroy", "gated", "drift"}
    RetryLimit = 1
    MaxFaults = 2
    Drains = TRUE
INVARIANTS
    TypeOK
    AppliedIsReviewed
    InputsKept
PROPERTIES
    GateIsFinal
    EvidenceKept
    LiveOwnerKept
    PlanSettles
CHECK_DEADLOCK FALSE
