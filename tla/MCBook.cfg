SPECIFICATION Spec
CONSTANTS
    PageBytes = 4
    RowWidth = 16
    LogicalWidth = 4
    LogicalHeight = 3
    ChunkRows = 2
    MaxRun = 3
    DataAlignment = 16
    Capacities = {1, 5}
    Pictures <- MCPictures
    Sources <- MCSources
    Damaged <- MCDamaged
CHECK_DEADLOCK FALSE
INVARIANTS
    LayoutKeepsFlow
    LinksLandOnText
    CompiledIsValid
    SilentMeansSame
    DeviceReads
