SPECIFICATION FairSpec
CONSTANTS
    Runs = {r1, r2}
    Workers = {w1, w2}
    Retirers = {t1}
    Commits = {c1, c2}
    None = None
    MaxFaults = 1
INVARIANTS
    TypeOK
    ArchiveKept
    RetiredIsClean
PROPERTIES
    RetirementCompletes
CHECK_DEADLOCK FALSE
