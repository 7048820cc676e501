SPECIFICATION Spec
CONSTANTS
    Books = {1}
    PageCount = 2
    QueueCapacity = 2
    HostRequests = {}
    MaxPresses = 3
    MaxPower = 0
    MaxChanges = 0
    MaxFaults = 0
INVARIANTS
    ButtonsMatch
CHECK_DEADLOCK FALSE
