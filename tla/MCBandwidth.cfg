\* Six counters instead of 32, the report about two messages instead of 28.
\* The server stops after MaxMessages messages.
SPECIFICATION Spec
CONSTANTS
    Slots = 6
    Back = 4
    Guard = 2
    Expected = 3
    PerMessage = 2
    MaxDelay = 1
    MaxMessages = 10
    MaxLost = 2
PROPERTY
    LossExact
CHECK_DEADLOCK FALSE
