SPECIFICATION FairSpec
CONSTANTS
    h1 = h1
    h2 = h2
    a1 = a1
    Hosts <- TwoHosts
    Admins <- OneAdmin
    Rounds = {1, 2}
    MaxFaults = 3
INVARIANTS
    NobodyForgotten
    OfflineIsAnnounced
    AdminCleansUp
PROPERTIES
    EventuallyOnline
    EventuallyDecided
CHECK_DEADLOCK FALSE
