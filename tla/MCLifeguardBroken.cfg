\* Two connections cannot be made and two die before their data is read.
SPECIFICATION LSpec
CONSTANTS
    Msgs <- MCMsgs
    Urls <- MCUrls
    DiscordUrls = {"tool", "gone"}
    TrustedUrls = {"tube"}
    ImageUrls = {"logo"}
    Workers = {"checker", "scrapper"}
    WireLinks <- MCWireLinks
    WireInfos <- MCWireInfos
    MaxLinks = 12
    MaxReady = 16
    MaxDrops = 2
    Checkers = {"checker"}
    Scrappers = {"scrapper"}
    Posts <- SmallPosts
    Hrefs <- SmallHrefs
    FileUrls = {"tool", "big"}
    DeadUrls = {"gone"}
    FlakyUrls = {"big"}
    WebUrls <- MCWebUrls
    WordyUrls <- MCWebUrls
    Times = {0}
    MaxCrashes = 0
    MaxLost = 2
INVARIANTS
    LTypeOK
    OnlyIdleWorkersChosen
    AuditsAnswerTheirMessage
PROPERTIES
    CentralAsAssumed
CHECK_DEADLOCK FALSE
