CONSTANTS
    MaxAttempts = 2
    MaxConns = 2
SPECIFICATION Spec
INVARIANT RetryIsKeptAlive
CHECK_DEADLOCK FALSE
