SPECIFICATION Spec
CONSTANTS
    large = large
    packed = packed
    small = small
    unlimited = unlimited
    twin = twin
    broken = broken
    None = None
    Ops = {large, packed, small, unlimited, twin, broken}
    Workers = {v, w}
    Traces = {large, packed, small, unlimited, broken}
    EnablePreSignedUrls = TRUE
    SizeOf <- MCSizeOf
    LimitOf <- MCLimitOf
    TraceOf <- MCTraceOf
    Compress = {packed}
    WithPayload = {large, packed, unlimited, twin}
    Unserialisable = {broken}
    StorageFails = TRUE
    PushTries = 2
INVARIANTS TypeOK DeliveredIsReadable
CHECK_DEADLOCK FALSE
