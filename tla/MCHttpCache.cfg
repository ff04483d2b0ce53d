CONSTANTS
    Calls = {c1, c2, c3}
    u1 = u1
    h1 = h1
    b1 = b1
    b2 = b2
    plain = plain
    keyed = keyed
    Requests <- MCHeaderRequests
    HostOf <- MCHostOf
    MinInterval = 1
    JitterMax = 1
    CacheTTL = 2
    Attempts = 1
    Base = 1
    MaxDelay = 2
    RetryJitter = 1
    WordBits = 16
    StatusesOf <- MCCacheStatuses
    NoHint = NoHint
    Hints = {NoHint}
    MaxHops = 1
    NoRequest = NoRequest
    NoEntry = NoEntry
SYMMETRY CallSymmetry
SPECIFICATION Spec
INVARIANTS
    ServedBodyMatches
    HitJustified
PROPERTIES
    CacheNotWasted
\* The bounded calls are over: nothing is left to do.
CHECK_DEADLOCK FALSE
