CONSTANTS
    Requests = {r1}
    Pollers = {}
    Peers = {"serve"}
SPECIFICATION Spec
CHECK_DEADLOCK FALSE
INVARIANTS
    HelloIsAnswered
