SPECIFICATION CMFairSpec
CONSTANTS
    Users = {u1, u2, u3}
    Cleaners = {k1, k2}
    CC = {x1, x2, x3}
    MaxConns = 2
    MaxIdleConnDuration = 0
    NoConn = NoConn
INVARIANTS
    CMTypeOK
    ConnsCountExact
    OneHolder
    OneCleaner
PROPERTIES
    IdleConnLeaves
