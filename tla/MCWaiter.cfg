SPECIFICATION FairSpec
CONSTANTS
    Timeout = 9
    MaxPause = 2
    HttpTime = 1
INVARIANTS
    NoticedInTime
PROPERTIES
    Ends
CHECK_DEADLOCK FALSE
