SPECIFICATION FairSpec
CONSTANTS
    ConfiguredThreads = 2
    Items = {a, b, c}
    NoItem = NoItem
    Stuck = {2}
INVARIANTS TypeOK NoLostWakeup OnePlace
PROPERTIES PoolFairSpec StopEndsThreads ScheduledIsHandled
CHECK_DEADLOCK FALSE
