SPECIFICATION FairSpec
CONSTANTS
    Users = {u1, u2}
    Cleaners = {k1}
    CC = {x1, x2}
    MaxConns = 1
    MaxIdleConnDuration = 0
    NoConn = NoConn
    MaxAttempts = 2
    MaxRedials = 1
    Deadlines = {"read"}
INVARIANTS
    HCTypeOK
    ConnsAccounted
    GetReadOnce
PROPERTIES
    NoRetryAfterResponse
    RequestEnds
