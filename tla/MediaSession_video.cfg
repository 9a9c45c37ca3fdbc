CONSTANTS
    c1 = c1
    c2 = c2
    b1 = b1
    b2 = b2
    None = None
    CallId <- TwoCalls
    CSeq <- TwoCSeqs
    BroadcastId = {}
    AudioSink = TRUE
    MaxSessions = 3
SPECIFICATION FairSpec
INVARIANTS OneSession ShutdownReleases
PROPERTIES ImplementsSingleSession ReplacedSessionsDrain
CHECK_DEADLOCK FALSE
