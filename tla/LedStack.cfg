CONSTANTS
    Activities = {a1, a2}
    FdLimit = 2
    MaxCrashes = 2
SPECIFICATION FairSpec
INVARIANTS
    DiesOnlyIfEager
    SwitchReachesLed
    ShownMeansSwitched
PROPERTY
    EveryClickEnds
CHECK_DEADLOCK FALSE
