CONSTANTS
    None = None
    MediaTime <- MCTimes
    RangeStart <- MCRangeStart
    Recording <- MCRecording
    Command <- MCCommand
    RangeEnd = 5
    CtlCapacity = 1
    Horizon = 4
    MaxInfo = 2
SPECIFICATION FairSpec
PROPERTY EachFrameEmitted
CHECK_DEADLOCK FALSE
