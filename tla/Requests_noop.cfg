CONSTANTS
    Absent = Absent
    Junk = Junk
    Hosts <- MCHosts
    ActedOn <- MCActedOn
    Bodies <- MCBodies
    LaterBodies <- MCLater
    OwnDevice = "d"
    ExtraChannels <- MCExtra
    Segments <- MCSegments
    InfoData <- MCInfoData
    PageItems = 2
    MaxRequests = 2
    MaxCopies = 2
    MaxDrops = 1
SPECIFICATION RequestsSpec
INVARIANT NoOpKeepsReject
CHECK_DEADLOCK FALSE
