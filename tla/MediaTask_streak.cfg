SPECIFICATION Spec
CONSTANTS
    MaxChunk = 8
    LengthCap = 24
    Content <- MCContent
    Gap = {0, 40, 200000}
    MaxPayload = 30
    SeqSpace = 4
    ClockSpace = 9000001
    TearDownAus = 2
    MaxAus = 3
CHECK_DEADLOCK FALSE
INVARIANTS
    TornDownUnsent
