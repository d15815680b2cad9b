\* The values of MT9V034.cpp, a physical address as the driver reports it, and images
\* enough to go round the ring more than twice.
SPECIFICATION FFairSpec
CONSTANTS
    Length = 8
    DataSize = 360960
    Base = 503316480
    MaxFrames = 18
INVARIANTS
    FTypeOK
    NoTear
    NoMutualWait
    InBuffer
    NoStaleImage
PROPERTIES
    NoOverrun
    ReaderProgress
    Consecutive
    QueueSpec
