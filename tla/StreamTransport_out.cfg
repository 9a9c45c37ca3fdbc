CONSTANTS
    MaxAttempts = 2
    MaxConns = 2
SPECIFICATION FairSpec
INVARIANTS OneConnectionBeats
PROPERTIES DroppedConnectionRedials ShutdownCompletes
CHECK_DEADLOCK FALSE
