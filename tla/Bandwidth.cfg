CONSTANTS
    Threads = {t1, t2, t3}
    NoThread = NoThread
    MaxCalls = 4
SPECIFICATION Spec
INVARIANTS
    TypeOK
    SpeedIsOwn
CHECK_DEADLOCK FALSE
