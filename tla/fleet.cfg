CONSTANTS
    NoJob = none
    Jobs = {j1, j2}
    last = other
    Users <- MCUsers
    Owner <- MCOwner
    Legacy = {}
    QueueLimit = 2
    MaxActivePerUser = 1
    MaxParallel = 2
    HasDeadline = FALSE
    HasLifetime = TRUE
    KeepWorkingData = FALSE
    MaxStops = 1
    MaxPauses = 1
    MaxFaults = 1
SPECIFICATION FleetSpec
INVARIANTS PlacesAreCounted RunningIsOwned UserIsBounded
PROPERTIES SettledStays
SYMMETRY Symmetry
CHECK_DEADLOCK FALSE
