CONSTANTS
    Commands = {c1, c2}
    Verifications = {v1}
    MaxFaults = 2
SPECIFICATION FairSpec
INVARIANTS LinkHasOneUser
PROPERTIES ImplementsExclusiveLink EveryTaskEnds
CHECK_DEADLOCK FALSE
