SPECIFICATION StoreSpec
CONSTANTS
    Processes = {p1, p2}
    MaxOperations = 3
    MaxEdits = 1
    MaxHead = 2
    MaxCrashes = 1
    None = None
INVARIANTS
    StoreInv
PROPERTIES
    NothingIsUndone
    OperationsEnd
CHECK_DEADLOCK FALSE
