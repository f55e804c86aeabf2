CONSTANTS
    Base = base
    w1 = w1
    w2 = w2
    Pools <- SingleOrTwo
    NumConns = 3
    ServerDies = TRUE
SPECIFICATION FairSpec
INVARIANTS ServerClean MapComplete
PROPERTIES ServerFinishes
CHECK_DEADLOCK FALSE
