SPECIFICATION Spec
CONSTANTS
    Clients = {c1, c2, c3, c4}
    MaxSize = 3
    MinSize = 2
INVARIANTS
    LentOnce
    WaitsForSomething
    ClosedWhenIdle
PROPERTIES
    EventuallyDone
CHECK_DEADLOCK FALSE
