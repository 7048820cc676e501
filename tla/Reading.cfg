SPECIFICATION Spec
CONSTANTS
    Books = {1, 2}
    PageCount = 2
    QueueCapacity = 2
    HostRequests = {"pattern"}
    MaxPresses = 3
    MaxPower = 1
    MaxChanges = 1
    MaxFaults = 1
CHECK_DEADLOCK FALSE
INVARIANTS
    ShownIsSaved
PROPERTIES
    CommitShown
    RefreshesRight
