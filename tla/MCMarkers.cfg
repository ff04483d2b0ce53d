CONSTANTS
    ua = ua
    ub = ub
    uc = uc
    ta = ta
    tb = tb
    reader = c1
    Callers = {c1}
    Cap = 0
    SearchResults <- MCManyResults
    Levels <- MCLevels
    Efforts = {"deep"}
    Modes = {"llm"}
    DefaultMode = "simple"
    LLMConfigured = TRUE
    Pages <- MCPages
    PassageWords = 3
    Pending = Pending
    MaxMarker = 4
SPECIFICATION Spec
INVARIANTS
    MarkersResolve
\* Every call of the bound has returned: nothing is left to do.
CHECK_DEADLOCK FALSE
