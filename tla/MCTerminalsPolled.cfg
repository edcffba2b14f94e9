CONSTANTS
    MaxId = 2
    Limit = 2
    Buffer = 1
    None = None
    Faults = {}
SPECIFICATION TabsSpec
INVARIANT PolledAnyway
CHECK_DEADLOCK FALSE
