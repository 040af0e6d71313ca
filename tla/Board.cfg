CONSTANTS
    ResetClicks = 1
    DebugClicks = 2
    MaxClicks = 3
    MaxTimers = 2
SPECIFICATION Spec
INVARIANTS
    TypeOK
    ClicksCountOnce
    ServiceComesBack
    DebugFindsControllerFree
    RadioComesBack
PROPERTIES
    ClicksAreEvaluated
