CONSTANTS
    Phones = {p1}
    Capabilities = {fs}
    DefaultGrant = {fs}
    Conns = {c1, c2}
    Bindings = {"iroh"}
    Slots = 1
    Queue = 1
SPECIFICATION Spec
CHECK_DEADLOCK FALSE
INVARIANTS
    GrantNeverStale
