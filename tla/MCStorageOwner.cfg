SPECIFICATION FairSpec
CONSTANTS
    QueueCapacity = 5
    Limit <- MCLimit
    Buffers <- MCBuffers
    ReadsAs <- MCQuiet
    Chunks = 2
    MaxUploads = 1
    MaxFaults = 1
    FaultyKinds = {"begin", "write"}
INVARIANTS
    MailboxNeverOverflows
    UploadsApart
PROPERTIES
    DisplayServed
