SPECIFICATION Spec
CONSTANTS
    r1 = r1
    r2 = r2
    r3 = r3
    Requests <- MCTwo
    CloseRequests <- NoCodes
    NoRequest = none
    PushCodes <- EventOnly
    Exclusive = TRUE
    MaxSockets = 1
    MaxPushes = 1
INVARIANT ResultOfTheOperation
CHECK_DEADLOCK FALSE
