CONSTANTS
    Clients = {c1, c2, c3}
    Threads = {t1, t2}
    None = None
    CallsAll = c1
    Proxy <- RjcoreProxy
    Stub <- RjcoreStub
    Mutex <- RjcoreMutex
    ChecksFirst <- RjcoreChecksFirst
    Uses <- MCUses
    ReadOrder = "ltr"
    MaxCalls = 3
    MaxStarts = 2
SPECIFICATION FairSpec
CHECK_DEADLOCK FALSE
INVARIANTS
    ArgumentsArrive
    AnswerIsOwn
    AtMostOnce
PROPERTY
    EveryCallReturns
