CONSTANTS
    Absent = Absent
    DeviceId = DeviceId
    ServerId = ServerId
    Sign2R2First = FALSE
    Workers = {w1}
    IncomingNotePolicy = "reject"
    IncludeCert = TRUE
    Provisioned = FALSE
    MaxExchanges = 3
    MaxRestarts = 1
    MaxChallenges = 3
SPECIFICATION Spec
INVARIANTS RegisteredAgree OwnHandshakeKey OneKeyPerRegister
PROPERTIES NotesVerify
CHECK_DEADLOCK FALSE
