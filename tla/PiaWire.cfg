SPECIFICATION WireSpec
CONSTANTS
    Commands <- MCCommands
    Catalogs <- MCCatalogs
    Reports <- MCReports
    Noises <- MCNoises
    MaxRequests = 2
    MaxFrames = 2
INVARIANTS WireTypeOK CommandIsUnderstood FramesAreWhole AnswersReachTheirRequest 
CHECK_DEADLOCK FALSE
