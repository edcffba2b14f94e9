CONSTANTS
    Phones = {p1, p2}
    Capabilities = {fs}
    DefaultGrant = {fs}
    Tries = 2
SPECIFICATION Spec
CHECK_DEADLOCK FALSE
INVARIANTS
    SingleUse
