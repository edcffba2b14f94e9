CONSTANTS
    Window = 3
    MaxFrame = 2
    MaxSeg = 1
    MaxChannels = 2
    RetiredMemory = 4
    FrameLens = {2}
    MaxOpen = 1
    MaxFrames = 2
    Openers = {"I"}
    Senders = {"I"}
    Moves = {"finish", "dropsend", "droprecv", "dropmux"}
SPECIFICATION Spec
INVARIANTS
    BooksAgree
    FramesInOrder
    NoViolation
    FinishDelivers
PROPERTIES
    ImplementsFlow
CHECK_DEADLOCK FALSE
