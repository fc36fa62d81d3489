SPECIFICATION DbUtilsFairSpec
CONSTANTS
    Threads = {t1, t2}
    MaxCalls = 2
    MaxContexts = 2
INVARIANTS
    EnsuredIsRunning
PROPERTIES
    OneContext
    CallsEnd
CHECK_DEADLOCK FALSE
