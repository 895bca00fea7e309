SPECIFICATION FairSpec
CONSTANTS
    k1 = k1
    m1 = m1
    c1 = c1
    c2 = c2
    w1 = w1
    d1 = d1
    NoTask = none
    Units <- UnitOne
    Manual <- ManualOne
    Calls <- TwoCalls
    Writes <- OneWrite
    Deletes <- OneDelete
    Times = 10
    MaxTx = 2
    MaxExecs = 1
    MaxFailures = 1
INVARIANTS
    CommitComplete
    ReadYourWrites
    WorkIsCommitted
PROPERTIES
    EventuallySettled
CHECK_DEADLOCK FALSE
