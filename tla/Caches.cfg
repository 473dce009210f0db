SPECIFICATION FairSpec
CONSTANTS
    Requests = {r1, r2}
    Responses <- MCResponses
    None = None
    TTL = 1
    MaxTime = 3
    MaxCrashes = 2
INVARIANT ItemsWhole
PROPERTY ExpiredDropped
