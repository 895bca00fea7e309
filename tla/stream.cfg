SPECIFICATION FairSpec
CONSTANTS
    c1 = c1
    c2 = c2
    c3 = c3
    c4 = c4
    Calls <- FourCalls
    Rows = 5
    PageSize = 2
    MaxPauses = 1
    MaxFailures = 1
INVARIANTS
    
    Backpressure
PROPERTIES
    EventuallyEnds
    CursorReleased
CHECK_DEADLOCK FALSE
