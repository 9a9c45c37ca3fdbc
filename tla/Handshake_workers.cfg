CONSTANTS
    Absent = Absent
    DeviceId = DeviceId
    ServerId = ServerId
    Sign2R2First = FALSE
    Workers = {w1, w2}
    IncomingNotePolicy = "reject"
    IncludeCert = TRUE
    Provisioned = FALSE
    MaxExchanges = 1
    MaxRestarts = 0
    MaxChallenges = 3
SPECIFICATION Spec
INVARIANT OneKeyPerRegister
CHECK_DEADLOCK FALSE
