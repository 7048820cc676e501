SPECIFICATION Spec
CONSTANTS
    Chunks = 3
    Window = 2
    Slots = 2
    QueueCapacity = 3
    MaxSessions = 1
    MaxFaults = 1
    FaultyKinds = {"loss"}
INVARIANTS
    LossRecovered
CHECK_DEADLOCK FALSE
