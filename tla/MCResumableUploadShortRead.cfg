SPECIFICATION Spec
CONSTANTS
    Size = 7
    MinStream = 4
    ChunkSize = 2
    ReadAhead = 1
    MaxRetries = 2
    ShortReads = TRUE
INVARIANT PublishedIsStream
CHECK_DEADLOCK FALSE
