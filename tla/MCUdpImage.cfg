\* Every kind of network.
SPECIFICATION FairSpec
CONSTANTS
    Cams = {0, 1}
    Size = 5
    MaxPacket = 2
    LastPackage = 2
    FaultSets <- MCFaultSets
    MaxImages = 2
INVARIANTS
    TypeOK
    PiecesExact
    NoFalseAlarm
    LossReported
PROPERTIES
    EveryImageShown
CHECK_DEADLOCK FALSE
