CONSTANTS
    MaxId = 2
    Limit = 2
    Buffer = 1
    None = None
    Faults = {"quick reconnect"}
SPECIFICATION TabsSpec
INVARIANT PolledInTurn
CHECK_DEADLOCK FALSE
