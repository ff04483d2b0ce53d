CONSTANTS
    Searches = {s1, s2}
    N = 2
    Cooldown = 2
    NoError = NoError
    RequestOf <- MCRequestOf
    HostOf <- MCHostOf
    MinInterval = 1
    JitterMax = 1
    CacheTTL = 1
    StatusesOf <- MCStatuses
    NoHint = NoHint
    Hints = {NoHint}
    NoRequest = NoRequest
    NoEntry = NoEntry
    Attempts = 2
    Base = 0
    MaxDelay = 1
    RetryJitter = 1
    WordBits = 16
    Cancellable = {s1}
    LastArrival = 0
SPECIFICATION Spec
PROPERTIES
    CooledEngineLeftAlone
    OnlyRateLimitsCool
    EverySearchReturns
    Composite
\* Every query of the bound has been served: nothing is left to do.
CHECK_DEADLOCK FALSE
