CONSTANTS
    NoJob = none
    Jobs = {j1}
    last = other
    Users <- MCUsers
    Owner <- MCOwner
    Legacy = {}
    QueueLimit = 1
    MaxActivePerUser = 0
    MaxParallel = 1
    HasDeadline = FALSE
    HasLifetime = FALSE
    KeepWorkingData = FALSE
    MaxStops = 0
    MaxPauses = 1
    MaxFaults = 0
SPECIFICATION Spec
INVARIANTS CancelledLeavesNoWork
CHECK_DEADLOCK FALSE
