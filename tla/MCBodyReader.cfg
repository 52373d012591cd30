SPECIFICATION Spec
CONSTANTS
    Digits <- MCDigits
    Numeral <- MCNumeral
    Contents <- MCContents
    MaxChunks = 3
    BUFFER_SIZE = 5
    Framings <- Framed
    Lost <- Truncated
INVARIANTS
    TypeOK
    DeliveredInOrder
    ZeroMeansAll
    ChunkStateIsClean
PROPERTY CallsReturn
CHECK_DEADLOCK FALSE
