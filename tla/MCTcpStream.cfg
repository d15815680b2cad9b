\* Images of three pieces, a connection that holds less than one message.
SPECIFICATION StreamFairSpec
CONSTANTS
    Pieces = 3
    Window = 4
INVARIANT
    InStep
PROPERTY
    BackToListening
