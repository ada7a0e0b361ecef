------------------------------ MODULE LineEcho ------------------------------
(***************************************************************************)
(* The loop with which the servers of chapters 25 and 26 serve one         *)
(* connection, each in a process or thread of its own (child_run of        *)
(* fork01.c, loop_echo of echo.c): it reads a byte at a time, on a socket  *)
(* that blocks, and sends each line when its line feed has come.           *)
(***************************************************************************)
EXTENDS Sockets

CONSTANT MAX_LINE

MaxLineAssumption == MAX_LINE \in Nat

VARIABLE worker     \* of each client: "none", "recv", "send", and when the
                    \* loop has ended "zombie", "reaped" or "exited"

lineVars == <<sockets, worker>>

LineTypeOK ==
    /\ SocketsTypeOK
    /\ worker \in [Clients -> {"none", "recv", "send", "zombie", "reaped", "exited"}]
    /\ \A c \in Clients : Len(outbuf[c]) <= MAX_LINE + 1

LineInit ==
    /\ SocketsInit
    /\ worker = [c \in Clients |-> "none"]

\* Mutant: the test of the length lets one byte too many through.
Stored_past(line, b) ==
    IF Len(line) <= MAX_LINE + 1 THEN Append(line, rot13_char(b)) ELSE line

\* sizeof(outbuf) is MAX_LINE + 1; a byte that finds the buffer full is
\* dropped, a line feed too.
Stored(line, b) ==
    IF Len(line) < MAX_LINE + 1 THEN Append(line, rot13_char(b)) ELSE line

recv(c) ==
    /\ worker[c] = "recv" /\ Unread(c) # <<>>
    /\ taken' = [taken EXCEPT ![c] = @ + 1]
    /\ outbuf' = [outbuf EXCEPT ![c] = Stored(@, Head(Unread(c)))]
    /\ spoiled' = [spoiled EXCEPT ![c] = @ \/ Len(outbuf[c]) = MAX_LINE + 1]
    /\ worker' = [worker EXCEPT ![c] = IF Head(Unread(c)) = NL THEN "send" ELSE @]
    /\ UNCHANGED <<conn, clientSide, reply, alive, pc, ready, stale>>

\* The result of send is not looked at: to a connection that was reset
\* nothing is sent.
answer(c) ==
    /\ worker[c] = "send"
    /\ IF ending[c] = "rst"
       THEN outbuf' = [outbuf EXCEPT ![c] = <<>>] /\ UNCHANGED <<taken, reply>>
       ELSE send(c) /\ UNCHANGED taken
    /\ worker' = [worker EXCEPT ![c] = IF outbuf'[c] = <<>> THEN "recv" ELSE @]
    /\ UNCHANGED <<conn, clientSide, alive, pc, ready, histories>>

\* recv returned 0 or failed.
Ended(c) == worker[c] = "recv" /\ Unread(c) = <<>> /\ ending[c] # "no"

\* A line is answered unless its client resets the connection, or bytes of
\* it were dropped.
Excused(c) == ending[c] = "rst" \/ spoiled[c]
=============================================================================
