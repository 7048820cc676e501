SPECIFICATION MCSpec
CONSTANTS
    LastBlock = 2
    CacheBlocks = 2
    BatchBlocks = 2
    MaxWrites = 3
    MaxStreamFaults = 2
    Clusters = {1, 2, 3, 4}
    HostFiles = {"book"}
    MaxSize = 2
    MaxChanges = 2
    MaxUploads = 2
    MaxRawFaults = 2
INVARIANTS
    ReadsLatestAlways
CHECK_DEADLOCK FALSE
