CONSTANTS
    Phones = {p1, p2}
    Capabilities = {fs}
    DefaultGrant = {fs}
    Tries = 2
SPECIFICATION Spec
INVARIANTS
    ToldIsRecorded
    ExecutedIsRecorded
CHECK_DEADLOCK FALSE
