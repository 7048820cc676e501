SPECIFICATION Spec
CONSTANTS
    QueueCapacity = 2
    Limit <- MCLimit
    Buffers <- MCBuffers
    ReadsAs <- MCQuiet
    Chunks = 2
    MaxUploads = 2
    MaxFaults = 1
    FaultyKinds = {"read", "scan", "begin", "write"}
CHECK_DEADLOCK FALSE
INVARIANTS
    RequestsSettle
