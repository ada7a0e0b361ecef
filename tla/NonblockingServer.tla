------------------------- MODULE NonblockingServer -------------------------
(***************************************************************************)
(* chap-22/nonblockingserver.c: one thread, select, non-blocking sockets,  *)
(* and an array of buffers indexed by descriptor.  A pass of its loop is   *)
(* the select, at most one accept, and the descriptors that were reported  *)
(* in ascending order; clients go on between these steps.                  *)
(***************************************************************************)
EXTENDS Sockets, FiniteSetsExt

CONSTANTS
    FD_INIT_SIZE,   \* length of the array of buffers
    MAX_LINE,       \* length of a buffer
    None            \* no client

SizesAssumption == FD_INIT_SIZE \in Nat \ {0} /\ MAX_LINE \in Nat \ {0}
NoneAssumption == None \notin Clients

VARIABLE buffer     \* of each descriptor; ready holds <<descriptor, "r" or "w">>

vars == <<sockets, buffer>>

\* Descriptor 0 listens; a connection gets the lowest number that is free.
Listen == 0
Fds == 1..FD_INIT_SIZE - 1

\* connect_fd names the client that holds the descriptor, buffer the bytes
\* before writeIndex.
alloc_Buffer == [connect_fd |-> None, buffer |-> <<>>, readIndex |-> 0, readable |-> FALSE]

TypeOK ==
    /\ SocketsTypeOK
    /\ pc \in {"wait", "accept", "scan"}
    /\ ready \subseteq ({Listen} \cup Fds) \X {"r", "w"}
    /\ \A fd \in Fds :
          LET b == buffer[fd] IN
          /\ b.connect_fd \in Clients \cup {None}
          /\ b.buffer \in Seq(Byte) /\ Len(b.buffer) <= MAX_LINE
          /\ b.readIndex \in 0..Len(b.buffer)
          /\ b.readable \in BOOLEAN

Init ==
    /\ SocketsInit
    /\ buffer = [fd \in Fds |-> alloc_Buffer]

Holder(fd) == buffer[fd].connect_fd
Pending(b) == SubSeq(b.buffer, b.readIndex + 1, Len(b.buffer))

\* The two sets that select leaves.  A connection that was reset is ready
\* for both.
Reported ==
    {<<Listen, "r">> : c \in Backlog}
      \cup {<<fd, "r">> : fd \in {f \in Fds : Holder(f) # None /\ Readable(Holder(f))}}
      \cup {<<fd, "w">> : fd \in {f \in Fds : Holder(f) # None /\ buffer[f].readable
                                     /\ (Room(Holder(f)) > 0 \/ ending[Holder(f)] = "rst")}}

select ==
    /\ pc = "wait"
    /\ Reported # {}
    /\ ready' = Reported
    /\ pc' = IF <<Listen, "r">> \in Reported THEN "accept" ELSE "scan"
    /\ UNCHANGED <<conn, clientSide, serverSide, alive, histories, buffer>>

\* buffer[fd] is taken as the last connection on fd left it.
Connected(c, fd) ==
    /\ conn' = [conn EXCEPT ![c] = "open"]
    /\ stale' = [stale EXCEPT ![c] = Pending(buffer[fd])]
    /\ buffer' = [buffer EXCEPT ![fd].connect_fd = c]

Free == {fd \in Fds : Holder(fd) = None}
Opened == {c \in Clients : conn[c] = "open"}

\* accept fails, and ends the process, if the connection has left the
\* backlog meanwhile.  A descriptor past the array ends it too, except for
\* the first, which the test "fd > FD_INIT_SIZE" lets through: the process
\* is lost, or the connection is remembered nowhere.
accept ==
    /\ pc = "accept"
    /\ ready' = ready \ {<<Listen, "r">>}
    /\ pc' = IF ready' = {} THEN "wait" ELSE "scan"
    /\ \/ Backlog = {} /\ Exit /\ UNCHANGED <<stale, buffer>>
       \/ \E c \in Backlog :
             \/ Free # {} /\ Connected(c, Min(Free)) /\ UNCHANGED <<serverSide, alive>>
             \/ Free = {} /\ Exit /\ UNCHANGED <<stale, buffer>>
             \/ /\ Free = {} /\ Cardinality(Opened) < FD_INIT_SIZE
                /\ conn' = [conn EXCEPT ![c] = "open"]
                /\ UNCHANGED <<serverSide, alive, stale, buffer>>
    /\ UNCHANGED <<clientSide, spoiled>>

-----------------------------------------------------------------------------
\* Everything the socket holds, until recv returns EAGAIN, 0 or an error;
\* what does not fit is dropped.
onSocketRead(b, c) ==
    [b EXCEPT !.buffer = First(@ \o Rot(Unread(c)), MAX_LINE),
              !.readable = @ \/ NL \in Range(Unread(c))]

\* Mutant: a partial send starts again from the front of the buffer.
onSocketWrite_again(b, n) ==
    IF n = Len(Pending(b)) THEN [b EXCEPT !.buffer = <<>>, !.readIndex = 0, !.readable = FALSE]
    ELSE b

\* n bytes were sent: the buffer is used again once it is drained.
onSocketWrite(b, n) ==
    IF n = Len(Pending(b)) THEN [b EXCEPT !.buffer = <<>>, !.readIndex = 0, !.readable = FALSE]
    ELSE [b EXCEPT !.readIndex = @ + n]

\* connect_fd = 0 and close; the rest of the buffer stays as it is.
close(fd, b, c) ==
    /\ conn' = [conn EXCEPT ![c] = "closed"]
    /\ buffer' = [buffer EXCEPT ![fd] = [b EXCEPT !.connect_fd = None]]
    /\ UNCHANGED reply

\* One turn of the for loop over the descriptors.
handle(fd) ==
    LET c == Holder(fd)
        reading == <<fd, "r">> \in ready
        b == IF reading THEN onSocketRead(buffer[fd], c) ELSE buffer[fd]
        sending == First(Pending(b), Room(c))
    IN
    /\ pc = "scan"
    /\ fd = Min({event[1] : event \in ready})
    /\ ready' = ready \ {<<fd, "r">>, <<fd, "w">>}
    /\ pc' = IF ready' = {} THEN "wait" ELSE "scan"
    /\ taken' = [taken EXCEPT ![c] = IF reading THEN Len(sent[c]) ELSE @]
    /\ spoiled' = [spoiled EXCEPT ![c] =
                      @ \/ (reading /\ Len(buffer[fd].buffer) + Len(Unread(c)) > MAX_LINE)]
    /\ \/ reading /\ ending[c] # "no" /\ close(fd, b, c)
       \/ /\ ~ (reading /\ ending[c] # "no") /\ <<fd, "w">> \notin ready
          /\ buffer' = [buffer EXCEPT ![fd] = b]
          /\ UNCHANGED <<conn, reply>>
       \/ /\ ~ (reading /\ ending[c] # "no") /\ <<fd, "w">> \in ready
          /\ \/ ending[c] = "rst" /\ close(fd, b, c)
             \/ /\ ending[c] # "rst"
                /\ reply' = [reply EXCEPT ![c] = @ \o sending]
                /\ buffer' = [buffer EXCEPT ![fd] = onSocketWrite(b, Len(sending))]
                /\ UNCHANGED conn
    /\ UNCHANGED <<clientSide, outbuf, alive, stale>>

Server == alive /\ (select \/ accept \/ \E fd \in Fds : handle(fd))

Next == Server \/ \E c \in Clients : Client(c) /\ UNCHANGED buffer

\* The process has ended, or the connection fell past the array.
Forgotten(c) ==
    \/ ~ alive
    \/ conn[c] = "open" /\ \A fd \in Fds : Holder(fd) # c

\* A line is answered unless its client ends before, or bytes were dropped.
Excused(c) == Forgotten(c) \/ ending[c] # "no" \/ spoiled[c]
=============================================================================
