SPECIFICATION FairSpec
CONSTANTS
    Size = 7
    MinStream = 4
    ChunkSize = 2
    ReadAhead = 1
    MaxRetries = 2
    ShortReads = FALSE
INVARIANTS
    NoByteSkipped
    NoEmptyChunk
    PublishedIsStream
PROPERTIES
    ImplementsUpload
    Terminates
CHECK_DEADLOCK FALSE
