CONSTANTS
    Phones = {p1, p2}
    Capabilities = {fs}
    DefaultGrant = {fs}
    Conns = {c1, c2}
    Bindings = {"iroh"}
    Slots = 1
    Queue = 1
SPECIFICATION Spec
CHECK_DEADLOCK FALSE
PROPERTY SweepSparesActive
