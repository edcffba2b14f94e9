CONSTANTS
    MaxId = 2
    Limit = 1
    Buffer = 0
    None = None
    Faults = {"overlap", "quick reconnect"}
SPECIFICATION TabsSpec
INVARIANTS
    TabsMatch
    NoFrozenTab
CHECK_DEADLOCK FALSE
