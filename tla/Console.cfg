SPECIFICATION Spec
CONSTANTS
    PageCount = 2
    EventCapacity = 2
    QueueCapacity = 2
    DoneCapacity = 2
    Keys = {"Select"}
    Commands = {"goto", "white"}
    MaxBurst = 3
    MaxRequests = 3
    MaxStops = 1
    MaxFaults = 2
    MaxPowers = 1
CHECK_DEADLOCK FALSE
INVARIANTS
    AnswerOwed
    ConsoleNotStuck
    ReaderAgrees
PROPERTIES
    OverlayYields
