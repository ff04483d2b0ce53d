CONSTANTS
    Calls = {c1, c2}
    u1 = u1
    h1 = h1
    b1 = b1
    b2 = b2
    plain = plain
    keyed = keyed
    Requests <- MCOneRequest
    HostOf <- MCHostOf
    MinInterval = 1
    JitterMax = 1
    CacheTTL = 2
    Attempts = 3
    Base = 1
    MaxDelay = 2
    RetryJitter = 1
    WordBits = 16
    StatusesOf <- MCStatuses
    NoHint = NoHint
    Hints <- MCHints
    MaxHops = 0
    NoRequest = NoRequest
    NoEntry = NoEntry
SPECIFICATION Spec
INVARIANTS
    TypeOK
    RetryDiscipline
    RequestsPaced
PROPERTIES
    BackoffHonored
    CancelStopsRequests
    EveryCallReturns
    PacerSpec
\* The bounded calls are over: nothing is left to do.
CHECK_DEADLOCK FALSE
