CONSTANTS
    Calls = {"connect", "stop"}
    OwnThreads = {TRUE}
    MaxCalls = 2
    Retries = {TRUE}
    Outcomes = {"progress", "again"}
    kInitRetryDelayMs = 2
    kMaxRetryDelayMs = 6
    MaxConns = 2
    MaxTimers = 3
SPECIFICATION Spec
INVARIANT StopIsFinal
CHECK_DEADLOCK FALSE
