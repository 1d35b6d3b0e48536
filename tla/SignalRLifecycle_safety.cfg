SPECIFICATION Spec
CONSTANTS
    Commands = {}
    Verifications = {v1}
    MaxFailures = 2
    ReauthAfter = 3
    InitialBackoff <- MCInitialBackoff
    MaxBackoff <- MCMaxBackoff
    RapidDropCooldown <- MCRapidDropCooldown
    Unreachable <- MCUnreachable
    UnreachablePolls = 1
    MaxFaults = 3
INVARIANTS OneLiveSession
PROPERTIES ImplementsSessionService
