SPECIFICATION FairSpec
CONSTANTS
    a = a
    b = b
    c = c
    NoOp = NoOp
    Ops = {a, b}
    PathOf <- MCProgressPaths
    Oversize = {a}
    Timers = {}
    MaxTimerFirings = 1
    SkipLogs = FALSE
    HasLogsService = TRUE
    OpsRunnerThreads = 1
    PublisherThreads = 1
    PushTries = 1
PROPERTIES PendingIsFetched
CHECK_DEADLOCK FALSE
