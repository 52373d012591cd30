SPECIFICATION Spec
CONSTANTS
    Digits <- MCDigits
    Numeral <- MCNumeral
    Contents <- MCContents
    MaxChunks = 3
    BUFFER_SIZE = 5
    Framings <- UntilClose
    Lost <- Complete
PROPERTY EveryCallReturns
CHECK_DEADLOCK FALSE
