CONSTANTS
    Bodies = {b1, b2}
    Clock = {1, 3}
    Caps = {0, 1, 2}
    MaxSeq = 3
    Readers = {r1}
    None = None
SPECIFICATION Spec
INVARIANTS
    LogKept
    DamageLocated
    NoLaundering
    AnchorProves
    AlarmOnlyAcrossRotation
CHECK_DEADLOCK FALSE
