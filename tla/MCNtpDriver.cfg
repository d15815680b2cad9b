\* A register file of 4 bytes, a log of 7 and a size_t of 4 bits; requests below, at and above
\* the two areas.
\* After an oops nothing goes on.
SPECIFICATION Spec
CONSTANTS
    NoOfBytes = 4
    LogSize = 7
    SizeT = 16
    Counts = {1, 3, 9}
    Positions = {0, 2, 5}
INVARIANTS
    ReadsIdleBuffer
    CopyInside
    ExitQuiet
CHECK_DEADLOCK FALSE
