SPECIFICATION Spec
CONSTANTS
    MAX_URL_SIZE = 50
    MAX_EXTENSION_SIZE = 6
    MAX_DEPTH = 2
    HTML_A_TAG_STR <- MCATag
    HREF_STR <- MCHref
    UrlChars <- MCUrlChars
    TrustedHosts <- MCTrusted
    ImageExtensions <- MCImages
    WebExtensions <- MCWeb
    RelevantWords <- MCWords
    Visits <- MCVisits
    NoLink = NoLink
INVARIANTS
    TypeOK
    WellFormedPagesYieldTheirLinks
    ScannerRecovers
CHECK_DEADLOCK FALSE
