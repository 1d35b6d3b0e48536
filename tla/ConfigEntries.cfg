SPECIFICATION Spec
CONSTANTS
    Vehicles = {v1, v2}
    NoId = none
    SccVin = {v1, v2}
    EhgVin = {v1}
    EhgListed = {v1}
    HasScu = {v1}
    EntryIds = {e1, e2}
    Flows = {f1, f2}
    Accounts = {a1, a2}
    Legacy = {e1}
    EhgMayFail = TRUE
    MaxMoves = 1
SYMMETRY MCSymmetry
INVARIANTS UniqueIdsDiffer TokenIsForTheStoredVehicle
PROPERTIES MintedTokensAreKept
CHECK_DEADLOCK FALSE
