SPECIFICATION FairSpec
CONSTANTS
    Threads = {t1, t2}
    Endpoints = {e1, e2}
    Unanswered = {e2}
    MaxVersion = 2
    MaxQueries = 2
INVARIANTS
    OneSourcePerKey
    TokenFitsDetails
PROPERTIES
    OthersGoOn
CHECK_DEADLOCK FALSE
