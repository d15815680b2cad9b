\* The program's sizes.
SPECIFICATION SlamFairSpec
CONSTANTS
    NumCams = 2
    ImageSize = 360960
    MaxAccepts = 3
PROPERTIES
    NoRepeat
    KeepsSending
CHECK_DEADLOCK FALSE
