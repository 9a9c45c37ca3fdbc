CONSTANTS
    alarm = alarm
    position = position
    d1 = d1
    d2 = d2
    h1 = h1
    h2 = h2
    None = None
    Event <- TwoEvents
    Position <- position
    Dialog <- TwoDialogs
    CSeq = {1}
    Host <- TwoHosts
    PositionSource = TRUE
    MaxBookings = 2
    MaxNumber = 3
SPECIFICATION FairSpec
INVARIANTS NumbersNotShared OnePositionTask
PROPERTIES ReplacedTasksEnd PositionServed
CHECK_DEADLOCK FALSE
