SPECIFICATION Spec
CONSTANTS
    CR = CR
    LF = LF
    NoByte = NoByte
    Byte = {CR, LF, x}
    INIT_BUFFER_SIZE = 2
    MaxChunk = 3
    MaxSize = 5
CHECK_DEADLOCK FALSE
INVARIANTS FindsReadable
PROPERTIES GrowsForNeed IsQueue
