SPECIFICATION FairSpec
CONSTANTS
    d1 = d1
    d2 = d2
    Drainers = {d1, d2}
    None = None
    TotalItems = 2
    ItemBudget = 2
    MaxGen = 2
    MaxRuns = 2
    MaxRebinds = 2
    MaxRetries = 1
    MaxFaults = 1
INVARIANTS
    TypeOK
    CursorIsTrue
    NothingAfterDestroy
    DeadLetterIsHonest
PROPERTIES
    ObligationAdvances
    WritesAreCurrent
    IntentSettles
CHECK_DEADLOCK FALSE
