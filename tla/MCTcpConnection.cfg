SPECIFICATION Spec
CONSTANTS
    SockSize = 2
    MaxSent = 6
    MaxReply = 3
    MaxAsked = 3
    DataKinds = {TRUE, FALSE}
    Signed = TRUE
CHECK_DEADLOCK FALSE
INVARIANTS StreamIntact WriteEventIffBuffered
PROPERTIES NothingAfterClose InboundIsRead EndIsNoticed
