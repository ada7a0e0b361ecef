SPECIFICATION SafeSpec
CONSTANTS
    m = m
    io = io
    io2 = io2
    c1 = c1
    c2 = c2
    c3 = c3
    c4 = c4
    f1 = f1
    f2 = f2
    Threads = {m, io, io2}
    MainThread = m
    Channels = {c1, c2, c3}
    Fds = {f1, f2}
    Fd <- MCFdTwo
    LoopData = {c1, c3}
    SocketBuf = 1
    Wake = Wake
    Listen = Listen
    NoFd = NoFd
    NULL = NULL
INVARIANTS NoCrash Confinement NoLostWakeup WatchedIsCurrent InterestIsAsked
PROPERTIES WalkIsStable ImplementsRegistry
CHECK_DEADLOCK FALSE
