SPECIFICATION Spec
CONSTANTS
    Bytes = {0, 1}
    BUFFER_SIZE = 3
    W = 3
    MaxContent = 10
INVARIANTS
    OnlyFirst4GBViewed
CHECK_DEADLOCK FALSE
