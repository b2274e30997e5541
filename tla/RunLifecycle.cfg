\* Runs that are replanned, delivered, repaired, and that have two developers.
CONSTANTS
    Settings <- Runs
    StepNames = {"develop", "port", "test", "review"}
SPECIFICATION Spec
INVARIANTS
    RunInv
    OnlyApprovedWork
    WorkIsOrdered
    DeliveryIsEarned
PROPERTIES
    PastIsFixed
CHECK_DEADLOCK FALSE
