---------------------------- MODULE EpollServer ----------------------------
(***************************************************************************)
(* chap-23/epoll01.c: one thread, edge-triggered epoll, non-blocking       *)
(* sockets.  The loop that answers a connection counts with the variables  *)
(* of the loop over the batch, n and i, so the rest of the batch is lost;  *)
(* one connection is accepted an edge, however many have arrived.          *)
(***************************************************************************)
EXTENDS Sockets

CONSTANT Listen     \* the listening socket

VARIABLES
    edges,      \* the descriptors that epoll has to report; ready holds the
                \* events that are left of the batch: <<descriptor, "in" or "err">>
    missed      \* history: the clients whose last edge was lost

vars == <<sockets, edges, missed>>

TypeOK ==
    /\ SocketsTypeOK
    /\ pc \in {"wait", "batch"}
    /\ edges \subseteq Clients \cup {Listen}
    /\ ready \subseteq (Clients \cup {Listen}) \X {"in", "err"}
    /\ missed \subseteq Clients

Init ==
    /\ SocketsInit
    /\ edges = {}
    /\ missed = {}

Opened == {c \in Clients : conn[c] = "open"}

\* A descriptor on which something has arrived is not reported if nothing is
\* left to read on it.
Reported ==
    {<<s, "in">> : s \in {Listen : c \in Backlog} \cap edges}
      \cup {<<c, IF ending[c] = "rst" THEN "err" ELSE "in">> :
               c \in {d \in Opened \cap edges : Readable(d)}}

epoll_wait ==
    /\ pc = "wait"
    /\ Reported # {}
    /\ ready' = Reported
    /\ edges' = {}
    /\ pc' = "batch"
    /\ UNCHANGED <<conn, clientSide, serverSide, alive, histories, missed>>

\* accept fails, and ends the process, if the connection has left the
\* backlog.  What is on a connection already is an edge; the others that have
\* arrived with it wait for another edge.
accept ==
    /\ <<Listen, "in">> \in ready
    /\ \/ Backlog = {} /\ Exit /\ UNCHANGED <<edges, missed>>
       \/ \E c \in Backlog :
             /\ conn' = [conn EXCEPT ![c] = "open"]
             /\ edges' = edges \cup {c}
             /\ missed' = (missed \cup Backlog) \ {c}
             /\ UNCHANGED <<serverSide, alive>>
    /\ ready' = ready \ {<<Listen, "in">>}
    /\ pc' = IF ready' = {} THEN "wait" ELSE "batch"
    /\ UNCHANGED <<clientSide, histories>>

\* EPOLLERR: close, and on to the next event.
epoll_error(c) ==
    /\ <<c, "err">> \in ready
    /\ conn' = [conn EXCEPT ![c] = "closed"]
    /\ ready' = ready \ {<<c, "err">>}
    /\ pc' = IF ready' = {} THEN "wait" ELSE "batch"
    /\ UNCHANGED <<clientSide, serverSide, alive, histories, edges, missed>>

\* The inner loop, until read returns EAGAIN or 0.  write may take only a
\* part, and the rest is forgotten; a socket that takes nothing ends the
\* process, and so does a connection that was reset after the event.
serve(c) ==
    /\ <<c, "in">> \in ready
    /\ IF ending[c] = "rst" \/ (Unread(c) # <<>> /\ Room(c) = 0)
       THEN Exit /\ UNCHANGED <<spoiled, missed>>
       ELSE /\ taken' = [taken EXCEPT ![c] = Len(sent[c])]
            /\ reply' = [reply EXCEPT ![c] = @ \o First(Rot(Unread(c)), Room(c))]
            /\ spoiled' = [spoiled EXCEPT ![c] = @ \/ Len(Unread(c)) > Room(c)]
            /\ conn' = [conn EXCEPT ![c] = IF ending[c] = "fin" THEN "closed" ELSE @]
            /\ missed' = (missed \cup {d \in Opened : \E e \in ready : e[1] = d}
                            \cup {d \in Backlog : <<Listen, "in">> \in ready}) \ {c}
            /\ UNCHANGED <<outbuf, alive>>
    /\ ready' = {}
    /\ pc' = "wait"
    /\ UNCHANGED <<clientSide, stale, edges>>

Server ==
    /\ alive
    /\ epoll_wait \/ accept \/ \E c \in Clients : epoll_error(c) \/ serve(c)

\* An edge: a connection, bytes or the end have arrived.
Arrives(c) ==
    /\ Client(c)
    /\ edges' = edges \cup {s \in {c, Listen} : IF s = c THEN sent' # sent \/ ending' # ending
                                                ELSE conn'[c] = "backlog" /\ conn[c] = "idle"}
    /\ UNCHANGED missed

Next == Server \/ \E c \in Clients : Arrives(c)

\* The process has ended, or an edge of the connection was lost.
Forgotten(c) == ~ alive \/ c \in missed

\* A line is answered unless its client resets the connection, or bytes of
\* the answer were lost.
Excused(c) == Forgotten(c) \/ ending[c] = "rst" \/ spoiled[c]
=============================================================================
