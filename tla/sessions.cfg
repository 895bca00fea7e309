SPECIFICATION FairSpec
CONSTANTS
    db1 = db1
    db2 = db2
    o1 = o1
    o2 = o2
    s1 = s1
    s2 = s2
    k1 = k1
    Managers <- TwoManagers
    Sends <- SendTwo
    Opens <- OpenTwo
    Closes <- CloseOne
    Of <- Spread
    MaxSessions = 4
    MaxFaults = 2
INVARIANTS
    ConnectionsGoBack
    ExecutedOnce
    NewSessionOnRetry
PROPERTIES
    EventuallyDone
CHECK_DEADLOCK FALSE
