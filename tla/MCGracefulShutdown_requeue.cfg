SPECIFICATION ShutdownSpec
CONSTANTS
    NoOp = NoOp
    a = a
    Ops = {a}
    PathOf <- MCPaths
    Oversize = {}
    Timers = {}
    MaxTimerFirings = 1
    SkipLogs = TRUE
    HasLogsService = TRUE
    OpsRunnerThreads = 1
    PublisherThreads = 1
    PushTries = 1
    HasMetricsTimer = FALSE
    SseEnabled = FALSE
    Gunicorn = FALSE
    MainLogs = FALSE
    ServerSpeaks = TRUE
    EarlyGoodbye = FALSE
    MaxTriggers = 1
    MaxSignals = 1
INVARIANT RequeuedIsAbandoned
CHECK_DEADLOCK FALSE
