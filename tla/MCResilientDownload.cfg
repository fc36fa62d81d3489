SPECIFICATION FairSpec
CONSTANTS
    MaxVersion = 2
    SizeOf <- MCSizeOf
    ModifiedAt <- MCModifiedAt
    ChunkSize = 2
    ReadSizes <- MCReadSizes
    MaxRecovers = NoLimit
    MaxStuck = 2
    NoLimit = NoLimit
    NoDate = NoDate
INVARIANTS
    TypeOK
    NothingSkippedOrRepeated
    OneVersion
    EndMeansWholeFile
PROPERTY
    ReadReturns
CHECK_DEADLOCK FALSE
