CONSTANTS
    MaxParts = 1
    MaxChunk = 2
SPECIFICATION Spec
INVARIANTS
    TypeOK
    NothingAfterGap
    OnlyMissedSignalsBlock
    BadSignalOnlyAtJoin
    NoThreadOutlivesSession
PROPERTIES
    StopsInOrder
    SessionEnds
