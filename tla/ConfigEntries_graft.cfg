SPECIFICATION Spec
CONSTANTS
    Vehicles = {v1, v2}
    NoId = none
    SccVin = {v1, v2}
    EhgVin = {v1}
    EhgListed = {v1}
    HasScu = {v1}
    EntryIds = {e1, e2}
    Flows = {f1}
    Accounts = {a1, a2}
    Legacy = {}
    EhgMayFail = TRUE
    MaxMoves = 1
CHECK_DEADLOCK FALSE
INVARIANTS EntryIsOneVehicle
