\* The ten polls of the code; a controller that is just fast enough, one that is not, and one
\* that may sleep through all polls.
SPECIFICATION FairSpec
CONSTANTS
    MaxPolls = 10
    Speeds = {1, 4, 5, 12, 150}
    Program <- MCProgram
    Registers <- MCRegisters
    Junk = Junk
INVARIANTS
    WritesExact
    TxBounded
    ReadsExact
PROPERTIES
    PowerOnEnds
