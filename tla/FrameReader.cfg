CONSTANTS
    Base = 16
    BufferLen = 24
    Flags <- MCFlags
    Sizes <- MCSizes
    MaxFrames = 2
SPECIFICATION Spec
INVARIANTS
    TypeOK
    StopsOnlyAtBadFrame
PROPERTIES
    RelaysFrames
CHECK_DEADLOCK FALSE
