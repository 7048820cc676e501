SPECIFICATION FairSpec
CONSTANTS
    Chunks = 3
    Window = 2
    Slots = 2
    QueueCapacity = 3
    MaxSessions = 2
    MaxFaults = 2
    FaultyKinds = {"loss", "garble", "kill", "change", "open", "write", "commit", "abort", "late"}
CHECK_DEADLOCK FALSE
INVARIANTS
    PublishedWhole
    HostInformed
    NothingLost
PROPERTIES
    BothEnd
    UploadSucceeds
