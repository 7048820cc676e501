SPECIFICATION Spec
CONSTANTS
    Books <- MCBooks
    InitialDirs <- MCDirs
    DirSlots = 4
    Budget = 2
    RunLength = 2
    MaxEntries = 3
    Rows = 2
    Generations = 8
    FirstGeneration = 7
    MaxActs = 1
    MaxFaults = 1
    MaxCrashes = 0
    MaxEvents = 2
INVARIANT UploadReleased
CHECK_DEADLOCK FALSE
