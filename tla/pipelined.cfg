SPECIFICATION Spec
CONSTANTS
    r1 = r1
    r2 = r2
    r3 = r3
    Requests <- MCRequests
    CloseRequests <- CloseFirst
    NoRequest = none
    PushCodes <- BothPushes
    Exclusive = FALSE
    MaxSockets = 2
    MaxPushes = 2
INVARIANTS
    NoRunaway
    ReplyOrder
PROPERTIES
    ImplementsRequestChannel
CHECK_DEADLOCK FALSE
