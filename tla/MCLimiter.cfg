CONSTANTS
    Callers = {c1, c2, c3}
    h1 = h1
    h2 = h2
    Hosts <- MCHosts
    MinInterval = 2
    JitterMax = 2
    MaxGrants <- MCMaxGrants
SPECIFICATION Spec
INVARIANTS
    TypeOK
    SlotsSpaced
    RateBound
    NoPhantomBacklog
PROPERTIES
    EveryAcquireReturns
\* An idle limiter does nothing: every reservation of the bound is spent.
CHECK_DEADLOCK FALSE
