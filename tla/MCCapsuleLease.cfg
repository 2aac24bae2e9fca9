SPECIFICATION Spec
CONSTANTS
    s1 = s1
    h1 = h1
    h2 = h2
    m1 = m1
    m2 = m2
    m3 = m3
    Scopes = {s1}
    Holders = {h1, h2}
    Members = {m1, m2, m3}
    HolderOf <- MCHolderOf
    ScopeOf <- MCScopeOf
    Joining = {m1, m2}
    Ids = {u1, u2, u3, u4}
    NoId = NoId
    Calls = {c1, c2}
    NoCall = NoCall
    TtlOf <- MCTtlOf
    MaxTime = 3
    MaxRefs = 2
    RetryLimit = 1
SYMMETRY MCSymmetry
INVARIANTS TypeOK PromiseKept MutualExclusion RefsBounded
PROPERTIES LiveGenerationStable ImplementsScopeLock
