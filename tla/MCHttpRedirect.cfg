CONSTANTS
    Calls = {c1}
    u1 = u1
    h1 = h1
    b1 = b1
    b2 = b2
    plain = plain
    keyed = keyed
    Requests <- MCOneRequest
    HostOf <- MCHostOf
    MinInterval = 2
    JitterMax = 1
    CacheTTL = 2
    Attempts = 1
    Base = 1
    MaxDelay = 2
    RetryJitter = 1
    WordBits = 16
    StatusesOf <- MCStatuses
    NoHint = NoHint
    Hints <- MCHints
    MaxHops = 1
    NoRequest = NoRequest
    NoEntry = NoEntry
SPECIFICATION Spec
INVARIANTS
    EveryRequestPaced
CHECK_DEADLOCK FALSE
