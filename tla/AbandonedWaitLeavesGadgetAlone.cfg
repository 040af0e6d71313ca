CONSTANTS
    MaxHandlers = 3
    MaxQueue = 2
SPECIFICATION Spec
INVARIANT AbandonedWaitLeavesGadgetAlone
