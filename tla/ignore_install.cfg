SPECIFICATION Spec
CONSTANTS
    Runs <- AllRuns
    StartFiles <- Starts
    StartTracked = {{}, {"private"}}
    EditShapes <- Shapes
    Mishaps = {"recovery", "sync", "staging", "restore", "crash"}
    MaxEdits = 3
INVARIANTS
    UserBytesRetained
    SuccessProtects
    KeepsProtection
    FailureRestores
    DoneNeedsNoFix
CHECK_DEADLOCK FALSE
