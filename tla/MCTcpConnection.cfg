CONSTANTS
    Users = {u1}
    m1 = m1
    m2 = m2
    Uses <- Safety
    high_water_mark_ = 3
SPECIFICATION Spec
INVARIANTS ConnectionClean SentInOrder ShutdownAfterBuffer
CHECK_DEADLOCK FALSE
