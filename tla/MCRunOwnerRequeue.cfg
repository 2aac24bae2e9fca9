SPECIFICATION Spec
CONSTANTS
    MaxAttempts = 3
    MaxReentries = 1
    Deadline = 2
    MaxRequests = 1
PROPERTIES
    RequeueAccounted
CHECK_DEADLOCK FALSE
