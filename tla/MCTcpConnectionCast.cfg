SPECIFICATION Spec
CONSTANTS
    SockSize = 2
    MaxSent = 6
    MaxReply = 3
    MaxAsked = 3
    DataKinds = {FALSE}
    Signed = TRUE
CHECK_DEADLOCK FALSE
PROPERTIES BufferedIsSent
