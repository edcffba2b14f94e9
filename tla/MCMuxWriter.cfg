CONSTANTS
    Producers = {p1, p2}
    Segments = 2
    Batch = 2
SPECIFICATION WriterSpec
INVARIANTS
    NoLostWakeup
CHECK_DEADLOCK FALSE
