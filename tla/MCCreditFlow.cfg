CONSTANTS
    Window = 4
    MaxFrame = 4
    MaxSeg = 2
    MaxBytes = 9
SPECIFICATION LiveSpec
INVARIANTS
    CreditSound
PROPERTIES
    FrameEventuallySent
CHECK_DEADLOCK FALSE
