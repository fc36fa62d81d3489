SPECIFICATION FairSpec
CONSTANTS
    Size = 5
    MinStream = 3
    ChunkSize = 2
    BatchCount = 2
    MaxRetries = 2
    ShortReads = TRUE
    MaxAttempts = 2
INVARIANTS
    TypeOK
    UrlMatchesPart
    PublishedIsStream
PROPERTIES
    RetriesAreIdempotent
    ImplementsUpload
    Terminates
CHECK_DEADLOCK FALSE
