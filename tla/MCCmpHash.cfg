SPECIFICATION Spec
CONSTANTS
    Bytes = {0, 1}
    BUFFER_SIZE = 3
    W = 3
    MaxContent = 10
INVARIANTS
    HashIsIntegral
    HashMatchesContent
CHECK_DEADLOCK FALSE
