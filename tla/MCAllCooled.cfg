CONSTANTS
    Searches = {s1}
    N = 2
    Cooldown = 2
    Errors <- MCTwoErrors
    NoError = NoError
    MaxSearches = 2
SPECIFICATION Spec
INVARIANTS
    EmptyMeansAnswered
CHECK_DEADLOCK FALSE
