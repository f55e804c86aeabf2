CONSTANTS
    Threads = {t1, t2}
    Functors = {f1, f2, f3}
SPECIFICATION FairSpec
INVARIANTS TypeOK NoLostWakeup
PROPERTIES FunctorRuns QuitEndsLoop SerialExecution
CHECK_DEADLOCK FALSE
