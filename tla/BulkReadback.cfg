SPECIFICATION FairSpec
CONSTANTS
    Chunks = 5
    Window = 4
    Slots = 4
    QueueCapacity = 4
    Programs = {"readback", "read"}
    MaxSessions = 2
    MaxStatus = 2
    MaxFaults = 2
    FaultyKinds = {"loss", "garble", "kill", "output", "size", "read", "late"}
CHECK_DEADLOCK FALSE
INVARIANTS
    SavedWhole
    PipelineSound
PROPERTIES
    ReadbackSucceeds
