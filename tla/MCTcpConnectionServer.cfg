CONSTANTS
    Users = {u1}
    m1 = m1
    m2 = m2
    Uses <- ServerDestroyed
    high_water_mark_ = 2
SPECIFICATION Spec
INVARIANT NoCheckFails
CHECK_DEADLOCK FALSE
