\* Downloads fail, and one process, a worker or central, crashes and is started again.
SPECIFICATION LSpec
CONSTANTS
    Msgs <- MCMsgs
    Urls <- MCUrls
    DiscordUrls = {"tool", "gone"}
    TrustedUrls = {"tube"}
    ImageUrls = {"logo"}
    Workers = {"checker", "scrapper"}
    WireLinks <- MCWireLinks
    WireInfos <- MCWireInfos
    MaxLinks = 12
    MaxReady = 16
    MaxDrops = 0
    Checkers = {"checker"}
    Scrappers = {"scrapper"}
    Posts <- MCPosts
    Hrefs <- MCHrefs
    FileUrls = {"tool", "big"}
    DeadUrls = {"gone"}
    FlakyUrls = {"big"}
    WebUrls <- MCWebUrls
    WordyUrls <- MCWebUrls
    Times = {0}
    MaxCrashes = 1
    MaxLost = 0
INVARIANTS
    OnlyIdleWorkersChosen
    NoIdleWorkerForgotten
PROPERTIES
    EverythingSettles
    AttachmentsAreAudited
CHECK_DEADLOCK FALSE
