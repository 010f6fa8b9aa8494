SPECIFICATION ExecFairSpec
CONSTANTS
    Workers = {w1, w2}
    Tasks = {t1, t2}
    MaxDelays = 2
    None = None
    WAKE_SLOTS = 3
    MAX_WAKERS = 2
INVARIANTS OnePlace
PROPERTIES WokenIsPolled
CHECK_DEADLOCK FALSE
