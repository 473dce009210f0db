SPECIFICATION FairSpec
CONSTANTS
    Scripts <- MCScripts
    Lengths <- MCLengths
    HexDigits <- MCHexDigits
    MaxHexIntChars = 2
    MaxInt64 = 1000
    IPv4len = 2
    IPv6len = 3
    BufSize = 8
INVARIANTS MessageFramed TunnelAligned
PROPERTY ExchangeEnds
CHECK_DEADLOCK FALSE
