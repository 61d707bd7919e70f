CONSTANTS
    NoJob = none
    Jobs = {j1, j2}
    last = other
    Users <- MCUsers
    Owner <- MCOwner
    Legacy = {j2}
    QueueLimit = 2
    MaxActivePerUser = 0
    MaxParallel = 1
    HasDeadline = FALSE
    HasLifetime = TRUE
    KeepWorkingData = FALSE
    MaxStops = 1
    MaxPauses = 0
    MaxFaults = 0
SPECIFICATION FairSpec
PROPERTIES QueuedIsTaken RunEnds PausedExpires
CHECK_DEADLOCK FALSE
