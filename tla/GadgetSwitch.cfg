CONSTANTS
    MaxHandlers = 3
    MaxQueue = 2
SPECIFICATION Spec
INVARIANTS
    TypeOK
    FulfilledOnce
    NoStaleSwitch
    SessionOffDefaultGadget
    AtMostOneSpoiledWait
PROPERTIES
    UntimedStartIsAnswered
