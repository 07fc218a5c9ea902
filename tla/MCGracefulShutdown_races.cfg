SPECIFICATION ShutdownSpec
CONSTANTS
    NoOp = NoOp
    a = a
    Ops = {}
    PathOf <- MCPaths
    Oversize = {}
    Timers = {}
    MaxTimerFirings = 1
    SkipLogs = FALSE
    HasLogsService = TRUE
    OpsRunnerThreads = 1
    PublisherThreads = 1
    PushTries = 1
    HasMetricsTimer = TRUE
    SseEnabled = TRUE
    Gunicorn = TRUE
    MainLogs = TRUE
    ServerSpeaks = FALSE
    EarlyGoodbye = TRUE
    MaxTriggers = 2
    MaxSignals = 2
INVARIANTS ShutdownTypeOK CleanupOnce GoneAfterCleanup StoppedForGood
PROPERTY MetricsSpec
CHECK_DEADLOCK FALSE
