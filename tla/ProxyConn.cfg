SPECIFICATION Spec
SYMMETRY Symmetry
CONSTANTS
    Nil = Nil
    NoMatch = NoMatch
    s1 = s1
    d1 = Nil
    Decisions <- MCDecisions
    DefaultSuperProxy = Nil
    DefaultDial = Nil
    BlockByDefault = FALSE
    Conns = {c1, c2}
    Hosts = {h}
    SuperProxies = {s1}
    MaxConcurrency = 1
    HasHijacker = TRUE
    Methods = {"post"}
    MaxWire = 2
INVARIANTS
    PCTypeOK
    TokensConserved
    OneTableCleaner
PROPERTIES
    CallsFollowChain
