SPECIFICATION FairSpec
CONSTANTS
    MaxAttempts = 2
    MaxReentries = 1
    Deadline = 2
    MaxRequests = 1
INVARIANTS
    TypeOK
    NeverStranded
    ObservedIsSettled
PROPERTIES
    PollParks
    RepairReaches
CHECK_DEADLOCK FALSE
