CONSTANTS
    alarm = alarm
    position = position
    d1 = d1
    d2 = d2
    h1 = h1
    h2 = h2
    None = None
    Event <- TwoEvents
    Position <- position
    Dialog <- OneDialog
    CSeq = {1, 2}
    Host <- OneHost
    PositionSource = FALSE
    MaxBookings = 2
    MaxNumber = 4
SPECIFICATION Spec
PROPERTY NumbersAdvance
CHECK_DEADLOCK FALSE
