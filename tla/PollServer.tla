----------------------------- MODULE PollServer -----------------------------
(***************************************************************************)
(* chap-21/pollserver.c: one thread, poll over a table of descriptors, and *)
(* sockets that block.                                                     *)
(***************************************************************************)
EXTENDS Sockets, FiniteSetsExt

CONSTANTS
    INIT_SIZE,      \* length of the table, the listening socket's entry included
    MAXLINE,        \* bytes a read returns at most
    None            \* no client: the fd of a free entry, -1

SizesAssumption == INIT_SIZE \in Nat \ {0} /\ MAXLINE \in Nat \ {0}

VARIABLE event_set  \* the client of each entry; ready holds entries

vars == <<sockets, event_set>>

Listen == 0
Entries == 1..INIT_SIZE - 1

TypeOK ==
    /\ SocketsTypeOK
    /\ pc \in {"wait", "accept", "scan"}
    /\ ready \subseteq {Listen} \cup Entries
    /\ event_set \in [Entries -> Clients \cup {None}]

Init ==
    /\ SocketsInit
    /\ event_set = [e \in Entries |-> None]

Reported ==
    {Listen : c \in Backlog}
      \cup {e \in Entries : event_set[e] # None /\ Readable(event_set[e])}

poll ==
    /\ pc = "wait"
    /\ Reported # {}
    /\ ready' = Reported
    /\ pc' = IF Listen \in Reported THEN "accept" ELSE "scan"
    /\ UNCHANGED <<conn, clientSide, serverSide, alive, histories, event_set>>

\* Mutant: the test for a free entry takes any entry.
Free_any == Entries

Free == {e \in Entries : event_set[e] = None}

\* accept blocks if the connection has left the backlog: then this step
\* waits for another one.  A full table ends the process.
accept ==
    /\ pc = "accept"
    /\ \E c \in Backlog :
          IF Free # {}
          THEN /\ conn' = [conn EXCEPT ![c] = "open"]
               /\ event_set' = [event_set EXCEPT ![Min(Free)] = c]
               /\ UNCHANGED <<serverSide, alive>>
          ELSE Exit /\ UNCHANGED event_set
    /\ ready' = ready \ {Listen}
    /\ pc' = IF ready' = {} THEN "wait" ELSE "scan"
    /\ UNCHANGED <<clientSide, histories>>

\* read, and one write of what was read.
echo(e, c) ==
    \/ /\ outbuf[c] = <<>> /\ Unread(c) # <<>>
       /\ outbuf' = [outbuf EXCEPT ![c] = First(Unread(c), MAXLINE)]
       /\ taken' = [taken EXCEPT ![c] = @ + Len(outbuf'[c])]
       /\ UNCHANGED <<conn, reply, alive, event_set>>
    \/ /\ outbuf[c] # <<>>
       /\ IF ending[c] = "rst" THEN Exit
          ELSE send(c) /\ UNCHANGED <<conn, taken, alive>>
       /\ UNCHANGED event_set

\* read returned 0 or ECONNRESET.
close(e, c) ==
    /\ outbuf[c] = <<>> /\ Unread(c) = <<>>
    /\ conn' = [conn EXCEPT ![c] = "closed"]
    /\ event_set' = [event_set EXCEPT ![e] = None]
    /\ UNCHANGED <<serverSide, alive>>

\* One descriptor of the loop, until what was read of it is written;
\* ready_number counts what is left of ready.
scan(e) ==
    LET c == event_set[e] IN
    /\ pc = "scan"
    /\ e = Min(ready)
    /\ echo(e, c) \/ close(e, c)
    /\ ready' = IF alive' /\ outbuf'[c] # <<>> THEN ready ELSE ready \ {e}
    /\ pc' = IF ready' = {} THEN "wait" ELSE "scan"
    /\ UNCHANGED <<clientSide, histories>>

Server == alive /\ (poll \/ accept \/ \E e \in Entries : scan(e))

Next == Server \/ \E c \in Clients : Client(c) /\ UNCHANGED event_set

\* The process has ended, or accept waits for a connection that has gone.
Forgotten(c) == ~ alive \/ (pc = "accept" /\ Backlog = {})

\* A line is answered unless its client resets the connection.
Excused(c) == Forgotten(c) \/ ending[c] = "rst"
=============================================================================
