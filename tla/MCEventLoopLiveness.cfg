SPECIFICATION Spec
CONSTANTS
    m = m
    io = io
    io2 = io2
    c1 = c1
    c2 = c2
    c3 = c3
    c4 = c4
    f1 = f1
    f2 = f2
    Threads = {m, io}
    MainThread = m
    Channels = {c1, c2, c3, c4}
    Fds = {f1, f2}
    Fd <- MCFd
    LoopData = {}
    SocketBuf = 2
    Wake = Wake
    Listen = Listen
    NoFd = NoFd
    NULL = NULL
PROPERTIES PendingIsHandled AcceptedIsWatched
CHECK_DEADLOCK FALSE
