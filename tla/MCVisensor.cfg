\* Three slots, two clients of the data port, images enough to go round the ring twice.
SPECIFICATION SFairSpec
CONSTANTS
    Length = 3
    DataSize = 2
    Base = 5
    MaxFrames = 7
    data = data
    config = config
    d1 = d1
    d2 = d2
    NoOne = NoOne
    Clients = {d1, d2}
    Target <- MCTarget
PROPERTIES
    TcpSpec
    DeliversLossless
    FpgaReleased
    NextDataClientServed
    StreamGapFree
