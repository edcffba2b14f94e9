CONSTANTS
    Devices = {d1, d2}
    Limits <- MCUses
    Scale = 1
    Wait = 1
    Horizon = 2
    MaxHeld <- MCUsesHeld
    Sizes = {1, 2}
    Everyone = Everyone
    None = None
SPECIFICATION LimiterSpec
INVARIANT UseCounted
CHECK_DEADLOCK FALSE
