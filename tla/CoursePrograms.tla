--------------------------- MODULE CoursePrograms ---------------------------
(***************************************************************************)
(* The programs of the course that are complete in themselves, side by     *)
(* side: a behaviour runs one of them, the one that program names, and the *)
(* variables of the others keep their first values.  The six echo servers  *)
(* share the clients and the sockets of Sockets, and the properties that   *)
(* any of them should have are stated here once.                           *)
(***************************************************************************)
EXTENDS Sockets, SequencesExt, FiniteSetsExt

CONSTANTS
    Programs,                           \* those that are looked at
    None, FD_INIT_SIZE, INIT_SIZE,      \* of the echo servers
    MAX_LINE, LINE_SIZE, LineSent,
    MAXLINE, PieceSize,
    Number, Connections, Spurious,      \* of the queue of chapter 26
    KEEP_ALIVE_TIME, KEEP_ALIVE_INTERVAL, KEEP_ALIVE_PROBETIMES,
    SleepingTimes,                      \* of the heartbeat
    Functions, Streams, Messages, Limit,    \* of the readers
    Lengths                             \* of the datagrams

VARIABLES
    program,
    buffer, event_set, edges, missed, worker, sigchld,
    fd, front, rear, pushed, popped, thread, spurious, overrun,
    client, heartbeats, tv, typed, server, sleepingTime, nap, pings, pongs, silent, quiet,
    function, written, stream, arrived, got, line, field, msg_length, records, status, ahead,
    lines, waits, shown, requests, answers, message, count, running, damaged, lost, copied,
    unanswered, queue, peer, mixed

serverVars == <<buffer, event_set, edges, missed, worker, sigchld>>
queueVars == <<fd, front, rear, pushed, popped, thread, spurious, overrun>>
heartbeatVars == <<client, heartbeats, tv, typed, server, sleepingTime, nap,
                   pings, pongs, silent, quiet>>
readerVars == <<function, written, stream, arrived, got, line, field, msg_length,
                records, status, ahead>>
datagramVars == <<lines, waits, shown, requests, answers, message, count, running,
                  damaged, lost, copied, unanswered, queue, peer, mixed>>
vars == <<program, sockets, serverVars, queueVars, heartbeatVars, readerVars, datagramVars>>

Nonblocking == INSTANCE NonblockingServer
Poll == INSTANCE PollServer WITH MAXLINE <- PieceSize
Epoll == INSTANCE EpollServer WITH Listen <- None
Fork == INSTANCE ForkServer WITH MAX_LINE <- LINE_SIZE, MaxSent <- LineSent
Thread == INSTANCE ThreadServer WITH MAX_LINE <- LINE_SIZE, MaxSent <- LineSent
Grace == INSTANCE GraceServer
Queue == INSTANCE BlockQueue WITH Workers <- Clients, pc <- thread
Ping == INSTANCE Heartbeat
Reader == INSTANCE Readers WITH taken <- got
Datagram == INSTANCE Datagrams WITH Lines <- MaxSent
Connected == INSTANCE ConnectedDatagrams WITH Lines <- MaxSent, MAXLINE <- MAXLINE + 1

Servers == {"nonblocking", "poll", "epoll", "fork", "thread", "grace"}
Others == {"queue", "heartbeat", "readers", "datagrams", "connected"}

ASSUME ServersAssumption ==
    /\ Nonblocking!SizesAssumption /\ Poll!SizesAssumption /\ Fork!MaxLineAssumption
    /\ Nonblocking!NoneAssumption /\ Grace!MaxLineAssumption
    /\ LineSent \in [Clients -> Nat]
ASSUME ProgramsAssumption == Programs \subseteq Servers \cup Others
ASSUME OthersAssumption ==
    /\ Queue!WorkersAssumption /\ Queue!NumberAssumption
    /\ Ping!TimesAssumption
    /\ Reader!LimitAssumption /\ Reader!FunctionsAssumption /\ Reader!TextsAssumption
    /\ Datagram!LengthsAssumption

Init ==
    /\ program \in Programs
    /\ Nonblocking!Init /\ Poll!Init /\ Epoll!Init /\ Fork!Init
    /\ Queue!Init
    /\ Ping!Init /\ (program # "heartbeat" => sleepingTime = Min(SleepingTimes))
    /\ Reader!Init /\ (program # "readers" => function = "readline" /\ written = <<>>)
    /\ IF program = "connected"
       THEN Connected!Init /\ copied = [c \in Clients |-> FALSE]
       ELSE Datagram!Init /\ unanswered = {} /\ queue = <<>> /\ peer = {} /\ mixed = FALSE

-----------------------------------------------------------------------------
others == <<program, queueVars, heartbeatVars, readerVars, datagramVars>>

NonblockingNext ==
    /\ program = "nonblocking" /\ Nonblocking!Next
    /\ UNCHANGED <<others, event_set, edges, missed, worker, sigchld>>

PollNext ==
    /\ program = "poll" /\ Poll!Next
    /\ UNCHANGED <<others, buffer, edges, missed, worker, sigchld>>

EpollNext ==
    /\ program = "epoll" /\ Epoll!Next
    /\ UNCHANGED <<others, buffer, event_set, worker, sigchld>>

ForkNext ==
    /\ program = "fork" /\ Fork!Next
    /\ UNCHANGED <<others, buffer, event_set, edges, missed>>

ThreadNext ==
    /\ program = "thread" /\ Thread!Next
    /\ UNCHANGED <<others, buffer, event_set, edges, missed, sigchld>>

GraceNext ==
    /\ program = "grace" /\ Grace!Next
    /\ UNCHANGED <<others, serverVars>>

QueueNext ==
    /\ program = "queue" /\ Queue!Next
    /\ UNCHANGED <<program, sockets, serverVars, heartbeatVars, readerVars, datagramVars>>

HeartbeatNext ==
    /\ program = "heartbeat" /\ Ping!Next
    /\ UNCHANGED <<program, sockets, serverVars, queueVars, readerVars, datagramVars>>

ReadersNext ==
    /\ program = "readers" /\ Reader!Next
    /\ UNCHANGED <<program, sockets, serverVars, queueVars, heartbeatVars, datagramVars>>

DatagramsNext ==
    /\ program = "datagrams" /\ Datagram!Next
    /\ UNCHANGED <<program, sockets, serverVars, queueVars, heartbeatVars, readerVars,
                   unanswered, queue, peer, mixed>>

ConnectedNext ==
    /\ program = "connected" /\ Connected!Next
    /\ UNCHANGED <<program, sockets, serverVars, queueVars, heartbeatVars, readerVars, copied>>

Next ==
    \/ NonblockingNext \/ PollNext \/ EpollNext
    \/ ForkNext \/ ThreadNext \/ GraceNext
    \/ QueueNext \/ HeartbeatNext \/ ReadersNext
    \/ DatagramsNext \/ ConnectedNext

-----------------------------------------------------------------------------
(* Fairness: a process or thread that can go on does, and a client reads   *)
(* its replies, be it late.  Nothing makes a client write or end.          *)

MainThread ==
    \/ program = "nonblocking" /\ Nonblocking!Server
    \/ program = "poll" /\ Poll!Server
    \/ program = "epoll" /\ Epoll!Server
    \/ program = "thread" /\ Thread!Server
    \/ program = "grace" /\ Grace!Server

ForkParent == program = "fork" /\ Fork!Server

Worker(c) ==
    \/ program = "fork" /\ Fork!child_run(c)
    \/ program = "thread" /\ Thread!thread_run(c)

QueueWorker(w) == program = "queue" /\ Queue!block_queue_pop(w)

DatagramServer ==
    \/ program = "datagrams" /\ Datagram!Server /\ UNCHANGED <<unanswered, queue, peer, mixed>>
    \/ program = "connected" /\ Connected!Server /\ UNCHANGED copied

Shows(c) ==
    \/ program = "datagrams" /\ Datagram!recvfrom(c)
    \/ program = "connected" /\ Connected!recvfrom(c)

Delivery ==
    program = "connected" /\ \E d \in requests : Connected!arrive(d) \/ Connected!refuse(d)

Reads(c) == program \in Servers /\ alive /\ Receive(c)

Spec ==
    /\ Init /\ [][Next]_vars
    /\ WF_sockets(MainThread)
    /\ WF_<<pc, conn, worker>>(ForkParent)
    /\ \A c \in Clients : WF_<<taken, outbuf, reply, worker>>(Worker(c)) /\ WF_queueVars(QueueWorker(c))
    /\ \A c \in Slow : WF_seen(Reads(c))
    /\ WF_datagramVars(DatagramServer) /\ \A c \in Clients : WF_waits(Shows(c))
    /\ WF_requests(Delivery)

-----------------------------------------------------------------------------
TypeOK ==
    CASE program = "nonblocking" -> Nonblocking!TypeOK
      [] program = "poll" -> Poll!TypeOK
      [] program = "epoll" -> Epoll!TypeOK
      [] program = "fork" -> Fork!TypeOK
      [] program = "thread" -> Thread!TypeOK
      [] program = "grace" -> Grace!TypeOK
      [] program = "queue" -> Queue!TypeOK
      [] program = "heartbeat" -> Ping!TypeOK
      [] program = "readers" -> Reader!TypeOK
      [] program = "datagrams" -> Datagram!TypeOK
      [] OTHER -> Connected!TypeOK

\* What a server makes of the bytes of a client, and what it adds to them.
Echo(s) == IF program \in {"poll", "grace"} THEN s ELSE Rot(s)
Payload(s) == FlattenSeq([k \in DOMAIN s |-> IF s[k] = "Hi" THEN <<>> ELSE <<s[k]>>])

\* The server does not follow the connection any more; or it does, and owes
\* no answer.
Forgotten(c) ==
    CASE program = "nonblocking" -> Nonblocking!Forgotten(c)
      [] program = "poll" -> Poll!Forgotten(c)
      [] program = "epoll" -> Epoll!Forgotten(c)
      [] program = "thread" -> Thread!Forgotten(c)
      [] OTHER -> ~ alive

Excused(c) ==
    CASE program = "nonblocking" -> Nonblocking!Excused(c)
      [] program = "poll" -> Poll!Excused(c)
      [] program = "epoll" -> Epoll!Excused(c)
      [] program = "fork" -> Fork!Excused(c)
      [] program = "thread" -> Thread!Forgotten(c) \/ Thread!Excused(c)
      [] program = "grace" -> Grace!Excused(c)

\* A client gets back its own bytes, all of them, once and in order, however
\* the server's reads and writes divide them and whatever other clients do;
\* behind what an earlier connection left in the buffer of chapter 22
\* (nonblockingserver.c:50-96, pollserver.c:55-64, epoll01.c:67-86,
\* fork01.c:20-40, echo.c:18-39, graceserver.c:49-70); and a client of
\* chapters 6 and 14 the answer to its last line (udpclient.c:39-47).
RepliesInOrder ==
    /\ \A c \in Clients :
        ~ spoiled[c] => IsPrefix(Payload(reply[c]), stale[c] \o Echo(sent[c]))
    /\ IF program = "connected" THEN Connected!AnswersMatch ELSE Datagram!AnswersMatch

Owed(c) ==
    {k \in DOMAIN sent[c] : sent[c][k] = NL /\ Len(Payload(reply[c])) < Len(stale[c]) + k}

\* A line that reaches a server is answered some time, unless something that
\* the server's Excused names has come between.
LineIsAnswered ==
    []<>(\A c \in Clients :
            CASE program \in Servers -> Owed(c) = {} \/ Excused(c)
              [] program = "connected" -> Connected!Answered(c)
              [] OTHER -> Datagram!Answered(c))

\* Who ends a connection has it closed some time, and the child process that
\* served it is waited for; chap-26/thread01.c never closes one.
EndIsHandled ==
    []<>(\A c \in Clients :
            /\ conn[c] = "open" /\ ending[c] # "no" => program = "thread" \/ Forgotten(c)
            /\ worker[c] # "zombie")

\* The properties of the modules whose programs have no clients.
InOrder == Queue!InOrder
NoIdleWorker == Queue!NoIdleWorker
ConnectionIsServed == Queue!ConnectionIsServed
LiveServerIsKept == Ping!LiveServerIsKept
SilenceIsNoticed == Ping!SilenceIsNoticed
RecordsIntact == Reader!RecordsIntact
=============================================================================
