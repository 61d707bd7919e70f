CONSTANTS
    Workers = {w1, w2}
    Api = api
    None = None
    MaxTakes = 1
    MaxRequests = 2
    MaxFaults = 1
SPECIFICATION Spec
INVARIANTS IInv OneAnalysis DeadIsDead CancelIsAsked QueuedIsReachable
PROPERTIES RemovalIsSafe KeepsLease DeadIsPaused RequestIsMet
CHECK_DEADLOCK FALSE
