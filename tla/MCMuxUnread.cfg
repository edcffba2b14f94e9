CONSTANTS
    Window = 3
    MaxFrame = 3
    MaxSeg = 2
    MaxChannels = 2
    RetiredMemory = 4
    FrameLens = {2, 3}
    MaxOpen = 1
    MaxFrames = 2
    Openers = {"I"}
    Senders = {"I"}
    Moves = {"droprecv"}
SPECIFICATION LiveSpec
CHECK_DEADLOCK FALSE
PROPERTY SendersReleased
