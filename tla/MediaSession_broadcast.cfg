CONSTANTS
    c1 = c1
    c2 = c2
    b1 = b1
    b2 = b2
    None = None
    CallId <- OneCall
    CSeq <- OneCSeq
    BroadcastId <- TwoBroadcasts
    AudioSink = TRUE
    MaxSessions = 3
SPECIFICATION Spec
INVARIANTS BroadcastCompletedOnce
CHECK_DEADLOCK FALSE
