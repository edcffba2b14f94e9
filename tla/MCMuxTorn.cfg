CONSTANTS
    Window = 3
    MaxFrame = 3
    MaxSeg = 2
    MaxChannels = 2
    RetiredMemory = 4
    FrameLens = {3}
    MaxOpen = 1
    MaxFrames = 1
    Openers = {"I"}
    Senders = {"I"}
    Moves = {"close"}
SPECIFICATION Spec
CHECK_DEADLOCK FALSE
INVARIANTS
    CleanEndIsWhole
