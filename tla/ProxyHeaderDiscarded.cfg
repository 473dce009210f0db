SPECIFICATION Spec
CONSTANTS
    Nil = Nil
    NoMatch = NoMatch
    s1 = s1
    d1 = Nil
    Decisions <- MCDecisions
    DefaultSuperProxy = Nil
    DefaultDial = Nil
    BlockByDefault = FALSE
    Conns = {c1}
    Hosts = {h}
    SuperProxies = {s1}
    MaxConcurrency = 1
    HasHijacker = TRUE
    Methods = {"get", "post"}
    MaxWire = 6
INVARIANT
    HeaderDiscarded
