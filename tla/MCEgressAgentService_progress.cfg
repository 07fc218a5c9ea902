SPECIFICATION FairSpec
CONSTANTS
    a = a
    b = b
    c = c
    NoOp = NoOp
    Ops = {a, b}
    PathOf <- MCProgressPaths
    Oversize = {}
    Timers = {}
    MaxTimerFirings = 1
    SkipLogs = FALSE
    HasLogsService = FALSE
    OpsRunnerThreads = 0
    PublisherThreads = 2
    PushTries = 2
PROPERTIES NothingBegunAfterStop AssignedIsSettled PendingIsFetched StopEndsThreads
CHECK_DEADLOCK FALSE
