CONSTANTS
    Users = {u1}
    m1 = m1
    m2 = m2
    Uses <- Liveness
    high_water_mark_ = 2
SPECIFICATION FairSpec
PROPERTIES ShutdownEnds ClosedIsRemoved
CHECK_DEADLOCK FALSE
