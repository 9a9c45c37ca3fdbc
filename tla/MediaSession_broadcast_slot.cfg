CONSTANTS
    c1 = c1
    c2 = c2
    b1 = b1
    b2 = b2
    None = None
    CallId <- TwoCalls
    CSeq <- TwoCSeqs
    BroadcastId <- TwoBroadcasts
    AudioSink = TRUE
    MaxSessions = 3
SPECIFICATION FairSpec
INVARIANT OneSession
CHECK_DEADLOCK FALSE
