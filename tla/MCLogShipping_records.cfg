SPECIFICATION FairSpec
CONSTANTS
    MaxRecords = 3
    BufferSize = 2
    Pushers = {p, q}
    Stopper = stopper
    Hung = {q}
    MaxRequests = 1
    Tries = 2
    MayRefuse = TRUE
INVARIANTS TypeOK RecordsConserved EvictionsCounted NewestKept
PROPERTIES BufferedIsTaken SenderSpec StoredAgainOnlyByRetry QueueSpec
CHECK_DEADLOCK FALSE
