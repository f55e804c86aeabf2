CONSTANTS
    Calls = {"connect", "disconnect", "stop", "~TcpClient"}
    OwnThreads = {TRUE, FALSE}
    MaxCalls = 4
    Retries = {TRUE, FALSE}
    Outcomes = {"progress", "again", "error"}
    kInitRetryDelayMs = 2
    kMaxRetryDelayMs = 6
    MaxConns = 2
    MaxTimers = 3
SPECIFICATION Spec
INVARIANTS ClientClean OwnStopIsFinal KeepsTrying
CHECK_DEADLOCK FALSE
