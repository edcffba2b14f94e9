CONSTANTS
    Calls = {a}
    Machines = {m1, m2}
    MaxConns = 1
    MaxKeys = 2
SPECIFICATION Spec
CHECK_DEADLOCK FALSE
INVARIANTS
    KeyStaysWithPairing
