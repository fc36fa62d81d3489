SPECIFICATION FairSpec
CONSTANTS
    Sources <- MCSources
    NewName = "new"
INVARIANTS
    LosesNothing
    SuccessEmptiesSource
PROPERTIES
    KeepsTarget
    Ends
CHECK_DEADLOCK FALSE
