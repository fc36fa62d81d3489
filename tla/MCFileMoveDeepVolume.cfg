SPECIFICATION Spec
CONSTANTS
    Sources <- MCDeepVolume
    NewName = "new"
INVARIANT
    LosesNothing
CHECK_DEADLOCK FALSE
