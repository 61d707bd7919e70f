CONSTANTS
    NoJob = none
    Jobs = {j1}
    last = other
    Users <- MCUsers
    Owner <- MCOwner
    Legacy = {}
    QueueLimit = 1
    MaxActivePerUser = 0
    MaxParallel = 2
    HasDeadline = TRUE
    HasLifetime = TRUE
    KeepWorkingData = FALSE
    MaxStops = 2
    MaxPauses = 2
    MaxFaults = 1
SPECIFICATION Spec
INVARIANTS IInv DiscardIsSafe ReportIsThere
PROPERTIES KilledPauseKeepsWork StopsWhenAsked KeepsPromise
CHECK_DEADLOCK FALSE
