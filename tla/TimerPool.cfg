CONSTANTS
    Addresses = {a1, a2}
    Delays = {1, 2}
    Intervals = {0, 1}
    Prompt = FALSE
    Handover = FALSE
    MaxTime = 3
    MaxTimers = 3
SPECIFICATION FairSpec
PROPERTY TimerRuns
INVARIANTS TimersAgree CancelStops
CHECK_DEADLOCK FALSE
