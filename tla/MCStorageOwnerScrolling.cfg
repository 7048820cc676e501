SPECIFICATION Spec
CONSTANTS
    QueueCapacity = 5
    Limit <- MCLimit
    Buffers <- MCBuffers
    ReadsAs <- MCScrolling
    Chunks = 1
    MaxUploads = 0
    MaxFaults = 0
    FaultyKinds = {}
INVARIANTS
    BuffersReturned
