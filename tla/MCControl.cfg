CONSTANTS
    Requests = {r1, r2, r3}
    Pollers = {r1, r2}
    Peers = {"serve", "stub"}
SPECIFICATION LiveSpec
INVARIANTS
    SlotsExact
PROPERTIES
    LossWakesCallers
    AbortedSlotsGo
CHECK_DEADLOCK FALSE
