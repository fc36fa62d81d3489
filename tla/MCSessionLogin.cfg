SPECIFICATION LoginFairSpec
CONSTANTS
    Processes = {p1, p2}
    SpaClient = TRUE
    MaxStarts = 2
    MaxTokens = 3
INVARIANTS
    SessionIsOwn
    LoginOnlyIfNeeded
PROPERTIES
    StartsEnd
CHECK_DEADLOCK FALSE
