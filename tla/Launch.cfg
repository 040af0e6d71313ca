CONSTANTS
    MaxWaiting = 1
    MaxMessages = 4
    MaxBody = 2
    SizeBase = 16
    DefaultSsid <- MCSsid
    DefaultKey <- MCKey
    DefaultIp <- MCIp
    Environments <- MCEnvironments
SPECIFICATION Spec
INVARIANTS
    TypeOK
    CredentialsOnlyOnRequest
    PhoneLearnsSettings
    FramesGoWhole
PROPERTIES
    ThreeMessagesFreeDispatcher
    LeavingFreesDispatcher
