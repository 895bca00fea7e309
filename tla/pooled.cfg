SPECIFICATION FairSpec
CONSTANTS
    r1 = r1
    r2 = r2
    r3 = r3
    Requests <- MCRequests
    CloseRequests <- CloseFirst
    NoRequest = none
    PushCodes <- BothPushes
    Exclusive = TRUE
    MaxSockets = 2
    MaxPushes = 2
INVARIANTS
    RepliesMatch
    HandshakeFirst
PROPERTIES
    EventuallySettled
CHECK_DEADLOCK FALSE
