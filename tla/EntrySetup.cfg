SPECIFICATION FairSpec
CONSTANTS
    NFiles = 2
    e1 = e1
    Entries = {e1, e2}
    Requests <- MCRequests
    MaxPacks = 1
    MaxFaults = 1
    MaxLate = 1
    BaseReloads = TRUE
INVARIANTS PackIsWhole CoordinatorsHaveAnEntry
 
CHECK_DEADLOCK FALSE
