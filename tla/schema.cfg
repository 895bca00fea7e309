SPECIFICATION Spec
CONSTANTS
    Dbs = {d1, d2}
    Callers = {c1, c2}
    Names = {"Migration"}
    Props = {"id", "appliedAt"}
    MaxCalls = 2
    MaxLosses = 1
    Directory <- MCDirectory
    MaxRuns = 2
INVARIANTS
    OwnChangesStay
    
PROPERTIES
    AppliedInOrder
    
CHECK_DEADLOCK FALSE
