\* Loss alone.
SPECIFICATION Spec
CONSTANTS
    Cams = {0, 1}
    Size = 5
    MaxPacket = 2
    LastPackage = 2
    FaultSets <- LossOnly
    MaxImages = 2
INVARIANTS
    SilentMeansAll
CHECK_DEADLOCK FALSE
