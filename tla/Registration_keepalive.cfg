CONSTANTS
    MaxAttempts = 2
    TimeoutCount = 2
    MaxExchanges = 4
SPECIFICATION Spec
INVARIANT OneKeepalive
CHECK_DEADLOCK FALSE
