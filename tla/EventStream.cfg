SPECIFICATION StreamSpec
CONSTANTS
    Settings <- Both
    Parents <- Plan
    TaskOf <- Task
    PerMs = 2
    Short = {4}
    QueueSize = 1
    Window = 2
    MaxInFlight = 2
    Nothing = Nothing
INVARIANTS
    ConsoleInv
    TimingInv
PROPERTIES
    ViewNeverGoesBack
    EventsAreSeen
CHECK_DEADLOCK FALSE
