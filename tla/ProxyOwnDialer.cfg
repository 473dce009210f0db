SPECIFICATION Spec
CONSTANTS
    Nil = Nil
    NoMatch = NoMatch
    s1 = s1
    d1 = d1
    Decisions <- MCDecisions
    DefaultSuperProxy = Nil
    DefaultDial = Nil
    BlockByDefault = FALSE
    Conns = {c1, c2}
    Hosts = {h}
    SuperProxies = {s1}
    MaxConcurrency = 1
    HasHijacker = TRUE
    Methods = {"get", "post"}
    MaxWire = 2
INVARIANT
    OwnDialer
