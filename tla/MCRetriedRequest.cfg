SPECIFICATION FairSpec
CONSTANTS
    Wrappers = {"api", "idempotent"}
    Bodies = {"none", "seekable", "stream"}
    Timeout = 6
    HttpTimeout = 2
    MaxSleep = 3
    RetryAfters = {0, 2}
    Length = 2
INVARIANTS
    TypeOK
    ServerGetsWholeBody
    StreamSentOnce
PROPERTY
    Returns
CHECK_DEADLOCK FALSE
