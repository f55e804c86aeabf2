CONSTANTS
    Addresses = {a1, a2}
    Delays = {1, 2}
    Intervals = {0, 1}
    Prompt = FALSE
    Handover = FALSE
    MaxTime = 4
    MaxTimers = 3
SPECIFICATION Spec
INVARIANT ResetAccepted
CHECK_DEADLOCK FALSE
