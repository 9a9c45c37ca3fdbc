SPECIFICATION FairSpec
CONSTANTS
    Conn = {c1}
    Script <- MCInvite
    Tls = FALSE
    Window = 2
    None = none
PROPERTIES
    ShutdownStopsMedia
CHECK_DEADLOCK FALSE
