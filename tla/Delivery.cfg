SPECIFICATION Spec
CONSTANTS
    Policies <- PushOrDocument
    Code = {"good", "bad"}
    Flagged = {"bad"}
    MaxEdits = 2
    MaxCrashes = 1
    MaxAttempts = 2
    Base = Base
    Foreign = Foreign
    Above = Above
    None = None
INVARIANTS
    DeliveryInv
PROPERTIES
    BranchIsRespected
    DeliverySettles
CHECK_DEADLOCK FALSE
