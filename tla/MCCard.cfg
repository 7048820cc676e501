SPECIFICATION MCSpec
CONSTANTS
    LastBlock = 2
    CacheBlocks = 2
    BatchBlocks = 2
    MaxWrites = 2
    MaxStreamFaults = 2
    Clusters = {1, 2, 3, 4}
    HostFiles = {"book"}
    MaxSize = 2
    MaxChanges = 2
    MaxUploads = 2
    MaxRawFaults = 2
CHECK_DEADLOCK FALSE
INVARIANTS
    CacheSound
    UploadsSound
    StateSurvives
