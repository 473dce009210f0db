SPECIFICATION FairSpec
CONSTANTS
    Conns = {c1, c2, c3}
    Chans = {w1, w2}
    AcceptLoop = acceptLoop
    Closer = closer
    Procs <- MCProcs
    NoConn = NoConn
    MaxWorkersCount = 1
    CanTimeout = TRUE
INVARIANTS
    TypeOK
    CountMatchesSockets
    ActiveAreTracked
PROPERTIES
    ShutdownCompletes
CHECK_DEADLOCK FALSE
