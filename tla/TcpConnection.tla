--------------------------- MODULE TcpConnection ---------------------------
(***************************************************************************)
(* One tcp_connection in the thread of its event loop: what the callbacks  *)
(* of its channel read and write, the output buffer that holds what the    *)
(* socket did not take, and the write event that empties it.  The peer and *)
(* the socket are the environment.  Translated from lib/tcp_connection.c   *)
(* and, where its C++ port differs (the type of nwrited, an event for a    *)
(* channel that is gone), from yolandapp/.                                 *)
(* The bytes the application sends are numbered 1, 2, 3, ...               *)
(***************************************************************************)
EXTENDS Integers, Sequences

CONSTANTS
    SockSize,       \* bytes the socket's send buffer holds
    MaxSent,        \* bound of the bytes the application sends
    MaxReply,       \* the longest reply to one message
    MaxAsked,       \* bound of the bytes the peer sends
    DataKinds,      \* what channel->data may be: an event loop or not
    Signed          \* the port's code (yolandapp): nwrited is an ssize_t, and
                    \* an event for a channel that is gone is ignored; in lib
                    \* nwrited is a size_t, and the channel is dereferenced

ASSUME BoundsAssumption ==
    /\ SockSize \in Nat /\ MaxSent \in Nat /\ MaxReply \in Nat /\ MaxAsked \in Nat
ASSUME KindsAssumption == DataKinds \subseteq BOOLEAN /\ Signed \in BOOLEAN

Junk == 0           \* a byte the application never sent

VARIABLES
    dataIsLoop,     \* channel->data is the event loop the cast takes it for
    registered,     \* the loop's channel map has the channel
    armed,          \* epoll watches the descriptor for writing
    writeEvent,     \* channel->events has EVENT_WRITE
    output,         \* output_buffer, from readIndex to writeIndex
    batch,          \* the events of the descriptor still to be dispatched
    thread,         \* "run", "killed" (SIGPIPE or SIGSEGV), "undefined"
    calls,          \* how often each callback of the application ran
    sent,           \* bytes the application has sent
    sock,           \* the socket's send buffer
    received,       \* what the peer has received
    shut,           \* shutdown(fd, SHUT_WR) was called
    closed,         \* close(fd) was called
    inbound,        \* bytes that wait to be read
    asked,          \* bytes the peer has sent
    peer            \* "open", "fin", "reset", "gone" (the reset was reported)

connection == <<registered, armed, writeEvent, output>>
app == <<calls, sent>>
socket == <<sock, received, shut, closed>>
environment == <<inbound, asked, peer>>
vars == <<dataIsLoop, batch, thread, connection, app, socket, environment>>

Events == {"READ", "WRITE"}
Callbacks == {"message", "writeCompleted", "closed"}

TypeOK ==
    /\ dataIsLoop \in DataKinds
    /\ registered \in BOOLEAN /\ armed \in BOOLEAN /\ writeEvent \in BOOLEAN
    /\ output \in Seq(Nat) /\ sock \in Seq(Nat) /\ received \in Seq(Nat)
    /\ Len(sock) <= SockSize
    /\ batch \in SUBSET Events
    /\ thread \in {"run", "killed", "undefined"}
    /\ calls \in [Callbacks -> Nat]
    /\ sent \in 0..MaxSent
    /\ shut \in BOOLEAN /\ closed \in BOOLEAN
    /\ asked \in 0..MaxAsked /\ inbound \in 0..asked
    /\ peer \in {"open", "fin", "reset", "gone"}

\* tcp_connection_new: registered for reading, nothing buffered.
Init ==
    /\ dataIsLoop \in DataKinds
    /\ registered = TRUE /\ armed = FALSE /\ writeEvent = FALSE
    /\ output = <<>> /\ sock = <<>> /\ received = <<>>
    /\ batch = {}
    /\ thread = "run"
    /\ calls = [c \in Callbacks |-> 0]
    /\ sent = 0
    /\ shut = FALSE /\ closed = FALSE
    /\ inbound = 0 /\ asked = 0
    /\ peer = "open"

-----------------------------------------------------------------------------
(* The peer and the socket.                                                *)

Ask ==
    /\ peer = "open"
    /\ asked < MaxAsked
    /\ asked' = asked + 1
    /\ inbound' = inbound + 1
    /\ UNCHANGED <<dataIsLoop, batch, thread, connection, app, socket, peer>>

Receive ==
    /\ sock # <<>>
    /\ peer \in {"open", "fin"}
    /\ received' = Append(received, Head(sock))
    /\ sock' = Tail(sock)
    /\ UNCHANGED <<dataIsLoop, batch, thread, connection, app, shut, closed, environment>>

Finish ==
    /\ peer = "open"
    /\ peer' = "fin"
    /\ UNCHANGED <<dataIsLoop, batch, thread, connection, app, socket, inbound, asked>>

\* A reset throws away what the peer has not received.
Reset ==
    /\ peer \in {"open", "fin"}
    /\ peer' = "reset"
    /\ sock' = <<>>
    /\ UNCHANGED <<dataIsLoop, batch, thread, connection, app, received, shut, closed,
                   inbound, asked>>

\* write(2) of n bytes: how many are taken, -1 for EAGAIN and ECONNRESET.
\* After a reset that was reported, or a shutdown, it raises SIGPIPE, which
\* the acceptor does not ignore.
Broken == shut \/ peer = "gone"
Room == SockSize - Len(sock)
Written(n) ==
    IF peer = "reset" \/ (Room = 0 /\ n > 0) THEN -1
    ELSE IF n <= Room THEN n ELSE Room
Reported == IF peer = "reset" THEN "gone" ELSE peer

-----------------------------------------------------------------------------
(* Where the application hands over data: tcp_connection_send_data.        *)

Numbered(n) == [k \in 1..n |-> sent + k]

\* What is appended to the output buffer when write(2) took w of the bytes.
\* EAGAIN leaves all of them, a reset none.
Left(data, w) ==
    IF w >= 0 THEN SubSeq(data, w + 1, Len(data))
    ELSE IF peer = "reset" THEN <<>> ELSE data

\* nwrited is a size_t: >= 0 always holds, one byte more is left than there
\* was, and it is copied from data - 1.
Left_size_t(data, w) == IF w >= 0 THEN SubSeq(data, w + 1, Len(data)) ELSE <<Junk>> \o data

\* channel_write_event_enable and _disable change the channel's events and
\* call update on channel->data, cast to an event loop.  Of what is not one
\* the thread never returns, or returns with nothing registered.
Update ==
    \/ dataIsLoop /\ armed' = writeEvent' /\ UNCHANGED thread
    \/ ~dataIsLoop /\ UNCHANGED <<armed, thread>>
    \/ ~dataIsLoop /\ thread' = "undefined" /\ UNCHANGED armed

channel_write_event_enable(left) ==
    IF left # <<>> /\ ~writeEvent
    THEN writeEvent' = TRUE /\ Update
    ELSE UNCHANGED <<writeEvent, armed, thread>>

\* Mutant: the bytes are written at once even if others are buffered.
Direct_always == TRUE

Direct == ~writeEvent /\ output = <<>>

sigpipe ==
    /\ thread' = "killed"
    /\ UNCHANGED <<armed, writeEvent, output, sock, peer>>

send_data(n) ==
    LET data == Numbered(n)
        nwrited == IF Direct THEN Written(n) ELSE 0
        left == IF Direct /\ ~Signed THEN Left_size_t(data, nwrited) ELSE Left(data, nwrited)
    IN  /\ sent' = sent + n
        /\ IF Direct /\ Broken THEN sigpipe
           ELSE /\ sock' = sock \o SubSeq(data, 1, nwrited)
                /\ peer' = IF Direct THEN Reported ELSE peer
                /\ output' = output \o left
                /\ channel_write_event_enable(left)

tcp_connection_shutdown == shut' = TRUE

-----------------------------------------------------------------------------
(* The event loop: what epoll reports, and the callbacks of the channel.   *)

Hup == peer \in {"reset", "gone"} \/ (peer = "fin" /\ shut)
Polled ==
    {e \in Events : \/ e = "READ" /\ (inbound > 0 \/ peer # "open")
                    \/ e = "WRITE" /\ armed /\ Room > 0}

epoll_wait ==
    /\ thread = "run" /\ ~closed
    /\ batch = {} /\ registered
    /\ ~Hup
    /\ batch' = Polled
    /\ UNCHANGED <<dataIsLoop, thread, connection, app, socket, environment>>

\* Mutant: an error is skipped.
error_skipped ==
    /\ thread = "run" /\ ~closed
    /\ batch = {} /\ registered
    /\ Hup
    /\ UNCHANGED vars

\* EPOLLERR or EPOLLHUP: the descriptor is closed behind the connection's
\* back, which stays in the channel map and hears nothing.
epoll_error ==
    /\ thread = "run" /\ ~closed
    /\ batch = {} /\ registered
    /\ Hup
    /\ closed' = TRUE
    /\ armed' = FALSE
    /\ UNCHANGED <<dataIsLoop, batch, thread, registered, writeEvent, output, app,
                   sock, received, shut, environment>>

Dispatch(e) ==
    /\ thread = "run"
    /\ e \in batch
    /\ e = "WRITE" => "READ" \notin batch
    /\ batch' = batch \ {e}

\* The application's message callback reads all of the input; it may send a
\* reply, and may shut the connection down after it.
message ==
    /\ inbound' = 0
    /\ calls' = [calls EXCEPT !["message"] = @ + 1]
    /\ \/ \E n \in 1..MaxReply : sent + n <= MaxSent /\ send_data(n)
       \/ UNCHANGED <<sent, output, writeEvent, armed, sock, peer, thread>>
    /\ tcp_connection_shutdown \/ UNCHANGED shut
    /\ UNCHANGED <<registered, received, closed, asked>>

\* Mutant: the channel stays registered.
handle_connection_closed_kept ==
    /\ calls' = [calls EXCEPT !["closed"] = @ + 1]
    /\ UNCHANGED <<thread, connection, sent, socket, environment>>

handle_connection_closed ==
    /\ registered' = FALSE
    /\ armed' = FALSE
    /\ calls' = [calls EXCEPT !["closed"] = @ + 1]
    /\ UNCHANGED <<thread, writeEvent, output, sent, socket, environment>>

\* Mutant: a connection whose peer has finished is closed with its last bytes unread.
handle_read_hasty ==
    /\ Dispatch("READ")
    /\ IF inbound > 0 /\ peer = "open" THEN message ELSE handle_connection_closed
    /\ UNCHANGED dataIsLoop

handle_read ==
    /\ Dispatch("READ")
    /\ IF inbound > 0 THEN message ELSE handle_connection_closed
    /\ UNCHANGED dataIsLoop

\* Mutant: the write event stays enabled when the buffer is empty.
channel_write_event_disable_never(rest) == UNCHANGED <<writeEvent, armed, thread>>

channel_write_event_disable(rest) ==
    IF rest = <<>>
    THEN writeEvent' = FALSE /\ Update
    ELSE UNCHANGED <<writeEvent, armed, thread>>

write_some(n) ==
    /\ sock' = sock \o SubSeq(output, 1, n)
    /\ output' = SubSeq(output, n + 1, Len(output))
    /\ channel_write_event_disable(output')
    /\ calls' = [calls EXCEPT !["writeCompleted"] = @ + 1]
    /\ UNCHANGED peer

\* A write event for the channel the read callback has just removed: the port
\* looks the channel up and returns, lib follows the NULL in the map.
activate_unknown ==
    /\ Dispatch("WRITE")
    /\ ~registered
    /\ thread' = IF Signed THEN thread ELSE "killed"
    /\ UNCHANGED <<dataIsLoop, connection, app, socket, environment>>

\* An error is only logged.
handle_write ==
    /\ Dispatch("WRITE")
    /\ registered
    /\ IF Broken THEN sigpipe /\ UNCHANGED calls
       ELSE IF Written(Len(output)) > 0 THEN write_some(Written(Len(output)))
       ELSE peer' = Reported /\ UNCHANGED <<thread, armed, writeEvent, output, sock, calls>>
    /\ UNCHANGED <<dataIsLoop, registered, sent, received, shut, closed, inbound, asked>>

-----------------------------------------------------------------------------
Loop == epoll_wait \/ epoll_error \/ handle_read \/ handle_write \/ activate_unknown
Next == Loop \/ Ask \/ Receive \/ Finish \/ Reset

SafeSpec == Init /\ [][Next]_vars

\* The loop runs; a peer that is there reads what it is sent.
Spec == SafeSpec /\ WF_vars(Loop) /\ WF_vars(Receive)

-----------------------------------------------------------------------------
Stream == IF peer \in {"open", "fin"} THEN received \o sock \o output ELSE received

\* What the peer receives is what the application sent, byte for byte and in
\* order, whether a byte went straight to the socket or through the output
\* buffer; and while the connection stands no byte is missing
\* (tcp_connection.c:91-123 against 31-56).
StreamIntact ==
    /\ \A k \in DOMAIN Stream : Stream[k] = k
    /\ peer \in {"open", "fin"} /\ thread = "run" => Len(Stream) = sent

\* EVENT_WRITE is on exactly while bytes are buffered, and epoll knows it: a
\* loop does not spin over an empty buffer, nor does a full one sleep.
WriteEventIffBuffered ==
    thread = "run" =>
        /\ writeEvent <=> output # <<>>
        /\ dataIsLoop /\ registered /\ ~closed => (armed <=> writeEvent)

\* No callback of the application runs after its connection-closed callback,
\* which runs at most once (tcp_connection.c:5-12): the request may be gone.
NothingAfterClose ==
    [][(\E c \in Callbacks : calls'[c] # calls[c]) => calls["closed"] = 0]_vars

\* Every byte the peer sends is read, unless the descriptor is closed on an
\* error first, or the process is gone.
InboundIsRead == inbound > 0 ~> inbound = 0 \/ closed \/ thread # "run"

\* The end of a connection is noticed.
EndIsNoticed == peer # "open" ~> ~registered \/ closed \/ thread # "run"

\* "The framework takes over the buffer's data" (tcp_connection.c:115): what
\* is left in the output buffer is sent, if the peer stays.
BufferedIsSent ==
    output # <<>> ~> output = <<>> \/ peer # "open" \/ shut
=============================================================================
