\* Two links and three announcements, two connections that die: what a stale
\* buffer holds is in network order after the first, in host order after the second.
SPECIFICATION Spec
CONSTANTS
    Msgs <- MCMsgs
    Urls <- MCUrls
    DiscordUrls = {}
    TrustedUrls = {}
    ImageUrls = {"image"}
    Workers = {"checker", "fast", "slow"}
    WireLinks <- MCWireLinks
    WireInfos <- MCWireInfos
    Nobody = Nobody
    MaxLinks = 2
    MaxReady = 3
    MaxDrops = 2
INVARIANTS
    TypeOK
    BuffersConsistent
    SemaphoresCountElements
    NeverPopsEmptyQueue
    NothingLostOrDuplicated
    QueuesSorted
    HostOrderInside
    ServersAnnouncedTheirKind
PROPERTY ImplementsDispatcher
CHECK_DEADLOCK FALSE
