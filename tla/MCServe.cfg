CONSTANTS
    Phones = {p1, p2}
    Capabilities = {fs}
    DefaultGrant = {fs}
    Conns = {c1, c2}
    Bindings = {"iroh", "tcp"}
    Slots = 1
    Queue = 1
SPECIFICATION LiveSpec
INVARIANTS
    AcceptorSound
    RevokedNeverServed
PROPERTIES
    PassReachesAll
    RevocationReaches
    NobodyStalls
CHECK_DEADLOCK FALSE
