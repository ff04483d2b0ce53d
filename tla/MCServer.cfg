CONSTANTS
    MaxWords = 3
    Thresholds <- MCThresholds
    Statuses = {200, 202, 401, 404, 451, 429, 500, 503}
    Limits <- MCLimits
    DefaultResults = 2
    Payloads <- MCPayloads
    Environments <- MCEnvironments
    Files <- MCFiles
    NoFile = NoFile
    Atoi <- MCAtoi
SPECIFICATION Spec
INVARIANTS
    TypeOK
    WiringFollowsTheUser
    ModelOnlyWhenAsked
    BestContentReturned
    CodeNamesCause
    RetryAdvice
    RankingIsGapless
\* The call is answered, or the process has failed: nothing is left to do.
CHECK_DEADLOCK FALSE
