SPECIFICATION Spec
CONSTANTS
    Msgs <- MCMsgs
    Urls <- MCUrls
    DiscordUrls = {}
    TrustedUrls = {}
    ImageUrls = {}
    Workers = {"checker"}
    WireLinks <- MCWireLinks
    WireInfos <- MCWireInfos
    MaxLinks = 2
    MaxReady = 1
    MaxDrops = 0
PROPERTY LinksReachReadyServers
CHECK_DEADLOCK FALSE
