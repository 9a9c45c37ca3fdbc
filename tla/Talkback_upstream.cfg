SPECIFICATION FairTalkbackSpec
CONSTANTS
    Offers <- MCSessions
    FrameLength = {0, 80, 4000}
    MaxFrame = 2048
    Numbers = 2
    ClockSpace = 100
    MaxPushed = 3
    MaxInvites = 2
INVARIANTS
    StreamFollowsFrames
    OwnFramesLabelled
PROPERTIES
    QueueDrains
CHECK_DEADLOCK FALSE
