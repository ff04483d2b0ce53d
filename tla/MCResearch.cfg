CONSTANTS
    ua = ua
    ub = ub
    uc = uc
    ta = ta
    tb = tb
    reader = c1
    Callers = {c1, c2, c3}
    Cap = 2
    SearchResults <- MCManyResults
    Levels <- MCLevels
    Efforts = {"deep", "other"}
    Modes = {"", "llm"}
    DefaultMode = "simple"
    LLMConfigured = TRUE
    Pages <- MCPages
    PassageWords = 3
    Pending = Pending
    MaxMarker = 4
SPECIFICATION MCSpec
INVARIANTS
    TypeOK
    SlotsAccounted
    NoPageIsLost
    CitationsAreFetchedSources
    CoverageIsBacked
    ExtractiveAlwaysAnswers
    PassagesKeepThePage
PROPERTIES
    EveryResearchReturns
\* Every call of the bound has returned: nothing is left to do.
CHECK_DEADLOCK FALSE
