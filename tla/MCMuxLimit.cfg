CONSTANTS
    Window = 2
    MaxFrame = 2
    MaxSeg = 2
    MaxChannels = 1
    RetiredMemory = 4
    FrameLens = {2}
    MaxOpen = 3
    MaxFrames = 1
    Openers = {"I"}
    Senders = {"I"}
    Moves = {"finish"}
SPECIFICATION Spec
CHECK_DEADLOCK FALSE
INVARIANTS
    NoViolation
