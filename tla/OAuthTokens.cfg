CONSTANTS
    Accounts = {a, b}
    FirstAccount = a
    MaxIssued = 4
    MaxFaults = 2
SPECIFICATION FairSpec
INVARIANTS StoredRefreshTokenWorks TokensAreOfTheAccount
PROPERTIES  SetupsEnd
CHECK_DEADLOCK FALSE
