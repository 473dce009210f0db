SPECIFICATION Spec
CONSTANTS
    Routes <- MCRoutes
    SSLGlobs <- MCSSLGlobs
    Methods = {"GET", "*"}
    Hosts <- MCHosts
    Paths <- MCPaths
    SSLHosts <- MCSSLHosts
    MaxSets = 3
INVARIANTS LookupExact ParamsFit SSLHandlerExact
CHECK_DEADLOCK FALSE
