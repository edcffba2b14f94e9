CONSTANTS
    Window = 3
    MaxFrame = 3
    MaxSeg = 2
    MaxChannels = 2
    RetiredMemory = 4
    FrameLens = {3}
    MaxOpen = 1
    MaxFrames = 2
    Openers = {"I"}
    Senders = {"I"}
    Moves = {"dropmux"}
SPECIFICATION LiveSpec
CHECK_DEADLOCK FALSE
PROPERTY SendersReleased
