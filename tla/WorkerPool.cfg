SPECIFICATION FairSpec
CONSTANTS
    Conns = {c1, c2, c3}
    Chans = {w1, w2}
    Callers = {a1}
    MaxWorkersCount = 2
    MaxIdleWorkerDuration = 0
    Nil = Nil
INVARIANTS
    TypeOK
    CountExact
    SoleHolder
    SenderMeetsWorker
PROPERTIES
    ConnLifecycle
    AcceptedClosed
    StopDrains
    IdleWorkerLeaves
CHECK_DEADLOCK FALSE
