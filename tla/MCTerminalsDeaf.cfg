CONSTANTS
    MaxId = 2
    Limit = 2
    Buffer = 1
    None = None
    Faults = {"deaf child"}
SPECIFICATION TabsSpec
PROPERTY ManagerFreed
CHECK_DEADLOCK FALSE
