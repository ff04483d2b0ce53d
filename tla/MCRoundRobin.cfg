CONSTANTS
    Searches = {s1, s2}
    N = 2
    Cooldown = 2
    Errors <- MCWrappedErrors
    NoError = NoError
    MaxSearches = 3
SYMMETRY SearchSymmetry
SPECIFICATION Spec
INVARIANTS
    TypeOK
    RotationFair
    BreakerRespected
    FailoverComplete
    ErrorOnlyIfNobodyAnswered
PROPERTIES
    BreakerHolds
\* An idle composite does nothing: every query of the bound has been served.
CHECK_DEADLOCK FALSE
