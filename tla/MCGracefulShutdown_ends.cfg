SPECIFICATION ShutdownFairSpec
CONSTANTS
    NoOp = NoOp
    a = a
    Ops = {}
    PathOf <- MCPaths
    Oversize = {}
    Timers = {}
    MaxTimerFirings = 1
    SkipLogs = FALSE
    HasLogsService = TRUE
    OpsRunnerThreads = 1
    PublisherThreads = 1
    PushTries = 1
    HasMetricsTimer = FALSE
    SseEnabled = TRUE
    Gunicorn = FALSE
    MainLogs = FALSE
    ServerSpeaks = TRUE
    EarlyGoodbye = FALSE
    MaxTriggers = 2
    MaxSignals = 1
PROPERTY ShutdownTerminates
CHECK_DEADLOCK FALSE
