SPECIFICATION Spec
CONSTANTS
    Fds = {2, 3, 4, 5}
    LISTEN = 1
    WAKE = 0
    INIT_POLL_SIZE = 4
    InitEntries = 2
INVARIANTS TypeOK OneSlotEach
PROPERTIES AddedIsWatched ReadyIsRead
CHECK_DEADLOCK FALSE
