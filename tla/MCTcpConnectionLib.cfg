SPECIFICATION SafeSpec
CONSTANTS
    SockSize = 2
    MaxSent = 6
    MaxReply = 3
    MaxAsked = 3
    DataKinds = {TRUE}
    Signed = FALSE
CHECK_DEADLOCK FALSE
INVARIANTS StreamIntact
