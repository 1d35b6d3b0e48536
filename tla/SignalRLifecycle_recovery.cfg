SPECIFICATION FairSpec
CONSTANTS
    Commands = {c1}
    Verifications = {}
    MaxFailures = 2
    ReauthAfter = 2
    InitialBackoff <- MCInitialBackoff
    MaxBackoff <- MCMaxBackoff
    RapidDropCooldown <- MCRapidDropCooldown
    Unreachable <- MCUnreachable
    UnreachablePolls = 2
    MaxFaults = 2
PROPERTIES   CommandsUseTheCurrentSession
