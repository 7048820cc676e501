SPECIFICATION Spec
CONSTANTS
    QueueCapacity = 5
    Limit <- MCLimit
    Buffers <- MCBuffers
    ReadsAs <- MCQuiet
    Chunks = 1
    MaxUploads = 2
    MaxFaults = 1
    FaultyKinds = {"commit"}
INVARIANTS
    AffinityHasHolder
