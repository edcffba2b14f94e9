CONSTANTS
    MaxId = 2
    Limit = 2
    Buffer = 1
    None = None
    Faults = {}
SPECIFICATION TabsSpec
INVARIANTS
    TabsMatch
    NoFrozenTab
PROPERTIES
    ManagerFreed
    ViewComesBack
CHECK_DEADLOCK FALSE
