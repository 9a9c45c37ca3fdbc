CONSTANTS
    MaxAttempts = 2
    TimeoutCount = 2
    MaxExchanges = 4
SPECIFICATION Spec
PROPERTY DeregistersWhenAccepted
CHECK_DEADLOCK FALSE
