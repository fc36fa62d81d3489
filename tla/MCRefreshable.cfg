SPECIFICATION FairSpec
CONSTANTS
    Callers = {c1, c2}
    Nobody = Nobody
    Jobs = {j1, j2}
    PoolSize = 1
    Buffer = 4
    StaleDuration = 6
    Lifetimes = {5}
    InitTokens <- MCInitTokens
    Reject = 1
    Latency = 1
    Pause = 1
    FallBack = 2
    MaxClock = 5
    MaxCalls = 2
INVARIANTS
    ReturnedTokenAccepted
    NoStuckRefreshFlag
    RefreshOnlyWhenExpired
PROPERTIES
    EveryCallReturns
    RefreshFlagClears
CHECK_DEADLOCK FALSE
