CONSTANTS
    MaxAttempts = 2
    MaxConns = 2
SPECIFICATION Spec
INVARIANT ShutdownReleases
CHECK_DEADLOCK FALSE
