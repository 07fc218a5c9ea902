SPECIFICATION Spec
CONSTANTS
    a = a
    b = b
    c = c
    NoOp = NoOp
    Ops = {a, b, c}
    PathOf <- MCHandoverPaths
    Oversize = {b}
    Timers = {"push_metrics"}
    MaxTimerFirings = 1
    SkipLogs = TRUE
    HasLogsService = TRUE
    OpsRunnerThreads = 1
    PublisherThreads = 2
    PushTries = 2
INVARIANTS TypeOK Accounted PolledWithinCapacity
PROPERTIES LifecycleSpec RunnerIsPool PublisherIsPool
CHECK_DEADLOCK FALSE
