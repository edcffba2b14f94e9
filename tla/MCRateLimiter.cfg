CONSTANTS
    Devices = {d1}
    Limits <- MCLimits
    Scale = 4
    Wait = 3
    Horizon = 8
    MaxHeld <- MCMaxHeld
    Sizes = {1, 2}
    Everyone = Everyone
    None = None
SPECIFICATION LimiterSpec
INVARIANTS
    UseCounted
    NeverFaster
    RetrySuffices
PROPERTIES
    PollerServed
CHECK_DEADLOCK FALSE
