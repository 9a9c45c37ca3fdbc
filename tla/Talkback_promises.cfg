SPECIFICATION TalkbackSpec
CONSTANTS
    Offers <- MCOffers
    FrameLength = {0, 80, 4000}
    MaxFrame = 2048
    Numbers = 2
    ClockSpace = 100
    MaxPushed = 3
    MaxInvites = 2
CHECK_DEADLOCK FALSE
INVARIANTS
    AnswerKept
    PayloadFitsType
    VideoGoesToItsPort
    NoPanic
