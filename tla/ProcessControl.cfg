CONSTANTS
    Threads = {t1, t2}
    Pids = {1, 11, 12}
    App = app
    Avahi = avahi
    Launching = launching
    None = None
    Fits = 1
    MaxRunning = 2
SYMMETRY Symmetric
SPECIFICATION ControlSpec
CHECK_DEADLOCK FALSE
INVARIANTS
    FalseErrorNeedsOverlap
    RestoredUnlessOverlapped
    OneDaemon
    StartLeavesDaemon
PROPERTY
    KillsOnlyNamed
