SPECIFICATION Spec
CONSTANTS
    Books <- MCBooks
    InitialDirs <- MCDirs
    DirSlots = 4
    Budget = 2
    RunLength = 2
    MaxEntries = 3
    Rows = 2
    Generations = 8
    FirstGeneration = 7
    MaxActs = 2
    MaxFaults = 1
    MaxCrashes = 1
    MaxEvents = 3
CHECK_DEADLOCK FALSE
INVARIANTS
    LibraryTruth
    ProgressKept
PROPERTIES
    SelectedNeverLost
    SelectionKept
