---------------------------- MODULE ThreadServer ----------------------------
(***************************************************************************)
(* chap-26/thread01.c and echo.c: a detached thread for each connection.   *)
(* A thread that fails to read ends the process, and nothing closes the    *)
(* descriptor of a thread that has returned.                               *)
(***************************************************************************)
EXTENDS LineEcho

vars == lineVars

TypeOK == LineTypeOK
Init == LineInit

\* The result of pthread_create is not looked at.  The thread gets the
\* descriptor by value.
accept ==
    /\ \E c \in Backlog :
          /\ conn' = [conn EXCEPT ![c] = "open"]
          /\ worker' \in {worker, [worker EXCEPT ![c] = "recv"]}
    /\ UNCHANGED <<clientSide, serverSide, alive, pc, ready, histories>>

\* recv fails on a connection that was reset, unless send has met the error
\* before it: then it returns 0.
thread_return(c) ==
    /\ Ended(c)
    /\ \/ ending[c] = "rst" /\ Exit
       \/ UNCHANGED <<conn, serverSide, alive>>
    /\ worker' = [worker EXCEPT ![c] = "exited"]
    /\ UNCHANGED <<clientSide, pc, ready, histories>>

Server == alive /\ accept
thread_run(c) == alive /\ (recv(c) \/ answer(c) \/ thread_return(c))

Next ==
    \/ Server
    \/ \E c \in Clients : thread_run(c)
    \/ \E c \in Clients : Client(c) /\ UNCHANGED worker

\* The process has ended, or no thread could be created for the connection.
Forgotten(c) == ~ alive \/ (conn[c] = "open" /\ worker[c] = "none")
=============================================================================
