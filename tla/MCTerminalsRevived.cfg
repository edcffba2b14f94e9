CONSTANTS
    MaxId = 2
    Limit = 2
    Buffer = 1
    None = None
    Faults = {}
SPECIFICATION TabsSpec
PROPERTY ExitedStaysExited
CHECK_DEADLOCK FALSE
