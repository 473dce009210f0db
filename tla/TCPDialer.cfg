SPECIFICATION DialFairSpec
CONSTANTS
    Hosts = {h}
    Callers = {c1, c2}
    Goroutines = {g1}
    ResultChans = {r1, r2}
    a1 = a1
    a2 = a2
    Lookups <- MCLookups
    MaxDialConcurrency = 1
    IdxMod = 2
    Nil = Nil
INVARIANTS
    DialTypeOK
    TokensExact
    OwnResult
    PendingHasResolver
PROPERTIES
    DialEnds
