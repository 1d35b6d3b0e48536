CONSTANTS
    Requests = {r1, r2}
    MaxExpiries = 2
    MaxFaults = 2
SPECIFICATION FairSpec
INVARIANTS SuccessIsOneExecution
PROPERTIES NoWriteAfterReturn RequestsEnd
CHECK_DEADLOCK FALSE
