CONSTANTS
    ResetClicks = 1
    DebugClicks = 2
    MaxClicks = 3
    MaxTimers = 2
SPECIFICATION Spec
INVARIANT DebugModeHolds
