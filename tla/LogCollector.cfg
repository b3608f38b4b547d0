CONSTANTS
    Threads = {t1, t2}
    Names = {zipA, plain}
    ZipNames = {zipA}
    NoThread = NoThread
    FdLimit = 1
    MaxCalls = 3
SPECIFICATION FairSpec
INVARIANTS
    DeliversOwnArchive
    TombstonesUsable
PROPERTY
    EveryCallReturns
CHECK_DEADLOCK FALSE
