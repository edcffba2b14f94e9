CONSTANTS
    Requests = {r1}
    Pollers = {}
    Peers = {"stub"}
SPECIFICATION Spec
CHECK_DEADLOCK FALSE
INVARIANTS
    NoneWaitsForAnEndedReader
