CONSTANTS
    PassiveCycles = 3
    MaxFds = 5
    MaxDevices = 2
SPECIFICATION Spec
INVARIANTS
    TypeOK
    JoinBtCannotHang
    BluetoothOffBetweenRounds
    DongleStaysVisible
    AdvertisementCallsMatch
    AtMostOneLateAttempt
    DoubleStopNeedsUnseenStop
PROPERTIES
    StopRequestHonoured
    EveryDeviceIsTried
    ListensAgain
