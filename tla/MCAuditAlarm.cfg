CONSTANTS
    Bodies = {b1, b2}
    Clock = {1, 3}
    Caps = {0, 1, 2}
    MaxSeq = 3
    Readers = {r1}
    None = None
SPECIFICATION Spec
INVARIANT NoFalseAlarm
CHECK_DEADLOCK FALSE
