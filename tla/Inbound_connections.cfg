SPECIFICATION FairSpec
CONSTANTS
    Conn = {c1, c2}
    Script <- MCScript
    Tls = TRUE
    Window = 2
    None = none
INVARIANTS
    MessagesFramed
    BindingIsServed
PROPERTIES
    NewestKeepsBinding
    ShutdownEndsHandlers
CHECK_DEADLOCK FALSE
