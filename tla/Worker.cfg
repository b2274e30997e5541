SPECIFICATION Spec
CONSTANTS
    Answers <- Batch
    Longest = 2
    MaxTurns = 2
    MaxCalls = 2
    MaxAttempts = 2
    MaxContext = 2
    Results = {done, redone}
    MaxCrashes = 1
    MaxRefusals = 1
    None = None
INVARIANTS
    WorkerInv
    ReceiptsAreTrue
PROPERTIES
    ResultsAreWanted
    WorkEnds
CHECK_DEADLOCK FALSE
