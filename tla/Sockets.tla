------------------------------ MODULE Sockets ------------------------------
(***************************************************************************)
(* The sockets that the servers of the course (chapters 11 to 26) share    *)
(* with their clients: a listening socket and one connection a client,     *)
(* as the kernel and the clients move them.  The servers are modules of    *)
(* their own that extend this one.                                         *)
(***************************************************************************)
EXTENDS Integers, Sequences

CONSTANTS
    Clients,
    Letter,         \* the letter each client types, besides the line feed
    MaxSent,        \* bound of the bytes each client writes
    Slow,           \* the clients that may be late to read their replies
    SendBuf         \* bytes of replies a connection holds unread

ASSUME LetterAssumption == Letter \in [Clients -> {"a", "n"}]
ASSUME BoundsAssumption == MaxSent \in [Clients -> Nat] /\ Slow \subseteq Clients /\ SendBuf \in Nat \ {0}

VARIABLES
    conn,       \* of each client: "idle", "backlog", "open" once accepted,
                \* "closed" by the server
    sent,       \* the bytes it has written
    taken,      \* how many of them the server has read
    ending,     \* how its side ended: "no", "fin", "rst"
    outbuf,     \* what the server has read from it to write back, where it
                \* blocks to write
    reply,      \* the bytes the server's kernel took for it
    seen,       \* how many of them it has read, if it is slow
    alive,      \* the server's process runs
    pc,         \* where its main thread is
    ready,      \* what its last select, poll or epoll_wait reported
    stale,      \* history: bytes of an earlier connection in front of its own
    spoiled     \* history: the server threw a byte away

sockets == <<conn, sent, taken, ending, outbuf, reply, seen, alive, pc, ready, stale, spoiled>>
histories == <<stale, spoiled>>
clientSide == <<sent, ending, seen>>
serverSide == <<taken, outbuf, reply>>

NL == "\n"
Byte == {"a", "n", NL}
rot13_char(b) == CASE b = "a" -> "n" [] b = "n" -> "a" [] OTHER -> b
Rot(s) == [k \in DOMAIN s |-> rot13_char(s[k])]

SocketsTypeOK ==
    /\ conn \in [Clients -> {"idle", "backlog", "open", "closed"}]
    /\ ending \in [Clients -> {"no", "fin", "rst"}]
    /\ \A c \in Clients :
          /\ sent[c] \in Seq(Byte) /\ Len(sent[c]) <= MaxSent[c]
          /\ taken[c] \in 0..Len(sent[c])
          /\ outbuf[c] \in Seq(Byte \cup {"Hi"})
          /\ reply[c] \in Seq(Byte \cup {"Hi"}) /\ seen[c] \in 0..Len(reply[c])
          /\ stale[c] \in Seq(Byte)
    /\ alive \in BOOLEAN
    /\ spoiled \in [Clients -> BOOLEAN]

\* The server listens; nobody has connected.
SocketsInit ==
    /\ conn = [c \in Clients |-> "idle"]
    /\ ending = [c \in Clients |-> "no"]
    /\ sent = [c \in Clients |-> <<>>] /\ taken = [c \in Clients |-> 0]
    /\ outbuf = [c \in Clients |-> <<>>]
    /\ reply = [c \in Clients |-> <<>>] /\ seen = [c \in Clients |-> 0]
    /\ alive = TRUE
    /\ pc = "wait" /\ ready = {}
    /\ stale = [c \in Clients |-> <<>>]
    /\ spoiled = [c \in Clients |-> FALSE]

-----------------------------------------------------------------------------
(* What a server sees of a connection.                                     *)

Backlog == {c \in Clients : conn[c] = "backlog"}
Unread(c) == SubSeq(sent[c], taken[c] + 1, Len(sent[c]))
Readable(c) == Unread(c) # <<>> \/ ending[c] # "no"
Room(c) == IF c \in Slow THEN SendBuf - (Len(reply[c]) - seen[c]) ELSE SendBuf

First(s, n) == SubSeq(s, 1, IF n < Len(s) THEN n ELSE Len(s))

\* error(1, ...) and the signals that end the process
Exit ==
    /\ alive' = FALSE
    /\ UNCHANGED <<conn, serverSide>>

\* A write or send that blocks: it goes on until the socket has taken all.
send(c) ==
    /\ Room(c) > 0
    /\ reply' = [reply EXCEPT ![c] = @ \o First(outbuf[c], Room(c))]
    /\ outbuf' = [outbuf EXCEPT ![c] = SubSeq(@, Room(c) + 1, Len(@))]

-----------------------------------------------------------------------------
(* The clients.                                                            *)

\* Bound: the clients that write nothing come when the others are there.
Connect(c) ==
    /\ conn[c] = "idle"
    /\ MaxSent[c] = 0 => \A d \in Clients : MaxSent[d] > 0 => conn[d] = "open"
    /\ conn' = [conn EXCEPT ![c] = "backlog"]
    /\ UNCHANGED <<clientSide, serverSide>>

\* A client that writes nothing keeps its connection.
Active(c) == ending[c] = "no" /\ MaxSent[c] > 0

\* What is written before the connection is accepted waits in the socket, as
\* if it were written just after.
Write(c) ==
    /\ conn[c] = "open" /\ Active(c)
    /\ Len(sent[c]) < MaxSent[c]
    /\ \E b \in {Letter[c], NL} : sent' = [sent EXCEPT ![c] = Append(@, b)]
    /\ UNCHANGED <<conn, ending, seen, serverSide>>

\* shutdown(fd, 1), and close while nothing is left to read
ShutdownWrite(c) ==
    /\ conn[c] \in {"backlog", "open"} /\ Active(c)
    /\ ending' = [ending EXCEPT ![c] = "fin"]
    /\ UNCHANGED <<conn, sent, seen, serverSide>>

\* nonblockingclient.c: SO_LINGER of 0 and close.  A connection that nobody
\* has accepted may leave the backlog.
Reset(c) ==
    /\ conn[c] \in {"backlog", "open"} /\ Active(c)
    /\ ending' = [ending EXCEPT ![c] = "rst"]
    /\ conn' \in {conn, [conn EXCEPT ![c] = IF @ = "backlog" THEN "closed" ELSE @]}
    /\ UNCHANGED <<sent, seen, serverSide>>

Receive(c) ==
    /\ c \in Slow
    /\ seen[c] < Len(reply[c]) /\ ending[c] # "rst"
    /\ seen' = [seen EXCEPT ![c] = Len(reply[c])]
    /\ UNCHANGED <<conn, sent, ending, serverSide>>

Client(c) ==
    /\ alive
    /\ Connect(c) \/ Write(c) \/ ShutdownWrite(c) \/ Reset(c) \/ Receive(c)
    /\ UNCHANGED <<alive, pc, ready, histories>>
=============================================================================
