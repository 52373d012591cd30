\* One page with a long url followed by a shorter one.
SPECIFICATION Spec
CONSTANTS
    MAX_URL_SIZE = 50
    MAX_EXTENSION_SIZE = 6
    MAX_DEPTH = 2
    HTML_A_TAG_STR <- MCATag
    HREF_STR <- MCHref
    UrlChars <- MCUrlChars
    TrustedHosts <- MCTrusted
    ImageExtensions <- MCImages
    WebExtensions <- MCWeb
    RelevantWords <- MCWords
    Visits <- StaleVisits
    NoLink = NoLink
INVARIANT FollowedForAWord
CHECK_DEADLOCK FALSE
