SPECIFICATION Spec
CONSTANTS
    NULL = NULL
    PARSER_BUFFER_SIZE = 7
    MaxShortReads = 2
    Lower <- MCLower
    Names <- MCNames
    Below0 <- MCBelow0
    Blanks <- MCBlanks
    Calls <- MCCalls
    Urls <- MCUrls
    Answers <- MCAnswers
    Absolute <- MCAbsolute
    ContentLength <- MCContentLength
    TransferEncoding <- MCTransferEncoding
    Location <- MCLocation
    ChunkedText <- MCChunked
INVARIANTS TypeOK LookupFindsLatest NodesAreReachable AcceptedHeadersAreSent BodyStartsAfterBlankLine RefusedOnlyBetweenLines FramingIsTheServers SocketsAccountedFor OnlyHeaderlessAnswersCrash
PROPERTY RequestsEnd
CHECK_DEADLOCK FALSE
