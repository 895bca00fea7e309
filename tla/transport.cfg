SPECIFICATION Spec
CONSTANTS
    MaxCalls = 2
    Hosts <- MCHosts
    PoolMax = 2
    MaxRetries = 1
    MaxFaults = 3
INVARIANTS
    ExecutedAgain
    FailsOver
    
PROPERTIES
    EventuallySettled
CHECK_DEADLOCK FALSE
