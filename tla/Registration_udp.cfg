CONSTANTS
    MaxAttempts = 2
    TimeoutCount = 2
    MaxExchanges = 3
SPECIFICATION FairSpec
INVARIANTS NumbersInOrder DeregisterIsLast
PROPERTIES StopsDeregistered ShutdownCompletes
CHECK_DEADLOCK FALSE
