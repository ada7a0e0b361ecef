---------------------------- MODULE GraceServer ----------------------------
(***************************************************************************)
(* chap-11: graceserver.c accepts one connection and answers each piece    *)
(* that it reads after a sleep of five seconds; SIGPIPE is left to end it. *)
(* Its client, graceclient.c, either shuts down its side of the connection *)
(* or closes it, and gets the answers that are due only in the first case. *)
(***************************************************************************)
EXTENDS Sockets

CONSTANT MAXLINE    \* the length of message and of send_line

MaxLineAssumption == MAXLINE \in Nat

vars == sockets

TypeOK ==
    /\ SocketsTypeOK
    /\ pc \in {"wait", "read", "sleep", "send"}

Init == SocketsInit

\* One client is accepted; nobody else is, ever.
accept ==
    /\ pc = "wait"
    /\ \E c \in Backlog : conn' = [conn EXCEPT ![c] = "open"]
    /\ pc' = "read"
    /\ UNCHANGED <<clientSide, serverSide, alive, ready, histories>>

\* "Hi, " stands for four bytes.
Hi == 4

\* What has arrived, with a 0 behind it; the end of the stream and an error
\* end the process.  A message of MAXLINE bytes, and a reply as long, are
\* written past the end of their arrays: the process is lost, or what is
\* sent is something else.
read(c) ==
    LET message == First(Unread(c), MAXLINE) IN
    /\ conn[c] = "open" /\ pc = "read"
    /\ Readable(c)
    /\ \/ message = <<>> /\ Exit /\ UNCHANGED <<pc, spoiled>>
       \/ /\ message # <<>>
          /\ Len(message) + Hi >= MAXLINE
          /\ Exit /\ UNCHANGED <<pc, spoiled>>
       \/ /\ message # <<>>
          /\ taken' = [taken EXCEPT ![c] = @ + Len(message)]
          /\ outbuf' = [outbuf EXCEPT ![c] = <<"Hi">> \o message]
          /\ spoiled' = [spoiled EXCEPT ![c] = @ \/ Len(message) + Hi >= MAXLINE]
          /\ pc' = "sleep"
          /\ UNCHANGED <<conn, reply, alive>>
    /\ UNCHANGED <<clientSide, ready, stale>>

sleep ==
    /\ pc = "sleep"
    /\ pc' = "send"
    /\ UNCHANGED <<conn, clientSide, serverSide, alive, ready, histories>>

\* To a connection that was reset: SIGPIPE, or ECONNRESET and error(1, ...).
answer(c) ==
    /\ conn[c] = "open" /\ pc = "send"
    /\ IF ending[c] = "rst" THEN Exit
       ELSE send(c) /\ UNCHANGED <<conn, taken, alive>>
    /\ pc' = IF outbuf'[c] = <<>> THEN "read" ELSE pc
    /\ UNCHANGED <<clientSide, ready, histories>>

Server == alive /\ (accept \/ sleep \/ \E c \in Clients : read(c) \/ answer(c))

Next == Server \/ \E c \in Clients : Client(c)

\* A message is answered even if its client has shut down its side.
Excused(c) == ~ alive \/ ending[c] = "rst" \/ spoiled[c]
=============================================================================
