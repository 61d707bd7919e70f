CONSTANTS
    None = none
    Ids = {a, b}
    Users = {u}
    Owner <- MCOwner
    Jobs = {j}
    Requests = {r1, r2}
    MaxRecordingsPerUser = 1
    MaxCalls = 3
    MaxFaults = 1
SPECIFICATION Spec
INVARIANTS QuotaHolds RecordingIsThere InputIsThere NothingIsLeft
PROPERTIES SweptInTheEnd
CHECK_DEADLOCK FALSE
