CONSTANTS
    Window = 2
    MaxFrame = 2
    MaxSeg = 1
    MaxChannels = 2
    RetiredMemory = 4
    FrameLens = {2}
    MaxOpen = 1
    MaxFrames = 2
    Openers = {"I"}
    Senders = {"I"}
    Moves = {"finish", "close", "cut"}
SPECIFICATION LiveSpec
PROPERTIES
    FramesArrive
    WaitersReleased
    CloseReachesPeer
CHECK_DEADLOCK FALSE
