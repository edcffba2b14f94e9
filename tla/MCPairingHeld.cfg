CONSTANTS
    Phones = {p1, p2}
    Capabilities = {fs}
    DefaultGrant = {fs}
    Tries = 1
SPECIFICATION LiveSpec
CHECK_DEADLOCK FALSE
PROPERTY WindowExpires
