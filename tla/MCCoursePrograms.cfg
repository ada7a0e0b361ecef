SPECIFICATION Spec
CONSTANTS
    Programs = {"nonblocking", "poll", "epoll", "fork", "thread", "grace", "queue", "heartbeat", "readers", "datagrams", "connected"}
    c1 = c1  c2 = c2  c3 = c3
    Clients = {c1, c2, c3}
    Letter <- MCLetter
    MaxSent <- MCMaxSent
    Slow = {c1}
    SendBuf = 1
    None = None
    FD_INIT_SIZE = 3
    INIT_SIZE = 3
    MAX_LINE = 3
    LINE_SIZE = 1
    LineSent <- MCLineSent
    MAXLINE = 6
    PieceSize = 1
    Number = 3
    Connections = 5
    Spurious = 2
    KEEP_ALIVE_TIME = 10
    KEEP_ALIVE_INTERVAL = 3
    KEEP_ALIVE_PROBETIMES = 3
    SleepingTimes = {0, 4, 8, 9}
    Functions = {"readline", "readline_2", "read_line", "read_message"}
    Streams <- MCStreams
    Messages <- MCMessages
    Limit = 3
    Lengths = {0, 1, 2}
PROPERTIES LineIsAnswered EndIsHandled ConnectionIsServed
INVARIANTS
    TypeOK RepliesInOrder InOrder NoIdleWorker LiveServerIsKept SilenceIsNoticed RecordsIntact
CHECK_DEADLOCK FALSE
