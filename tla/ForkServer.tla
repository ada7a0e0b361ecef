----------------------------- MODULE ForkServer -----------------------------
(***************************************************************************)
(* chap-25/fork01.c: a child process for each connection.  The handler of  *)
(* SIGCHLD waits for the children that have ended; the signal is a flag    *)
(* of the process, so the ends of several children may raise it once.      *)
(***************************************************************************)
EXTENDS LineEcho

VARIABLE sigchld    \* SIGCHLD is pending

vars == <<lineVars, sigchld>>

TypeOK ==
    /\ LineTypeOK
    /\ pc \in {"wait", "handler"}
    /\ sigchld \in BOOLEAN

Init == LineInit /\ sigchld = FALSE

\* accept is restarted after the handler.  If fork fails, its result -1
\* takes the branch of the parent, which closes the connection.
accept ==
    /\ pc = "wait" /\ ~ sigchld
    /\ \E c \in Backlog :
          \/ /\ conn' = [conn EXCEPT ![c] = "open"]
             /\ worker' = [worker EXCEPT ![c] = "recv"]
          \/ conn' = [conn EXCEPT ![c] = "closed"] /\ UNCHANGED worker
    /\ UNCHANGED <<clientSide, serverSide, alive, pc, ready, histories, sigchld>>

sigchld_delivered ==
    /\ pc = "wait" /\ sigchld
    /\ pc' = "handler"
    /\ sigchld' = FALSE
    /\ UNCHANGED <<conn, clientSide, serverSide, alive, ready, histories, worker>>

Zombies == {c \in Clients : worker[c] = "zombie"}

\* Mutant: the handler waits for one child.
waitpid_again_never == "wait"

waitpid_again == "handler"

\* One turn of the loop; SIGCHLD is blocked meanwhile, and stays pending.
sigchld_handler ==
    /\ pc = "handler"
    /\ \/ \E c \in Zombies :
             worker' = [worker EXCEPT ![c] = "reaped"] /\ pc' = waitpid_again
       \/ Zombies = {} /\ pc' = "wait" /\ UNCHANGED worker
    /\ UNCHANGED <<conn, clientSide, serverSide, alive, ready, histories, sigchld>>

\* The child's copy of the descriptor was the last one.
exit(c) ==
    /\ Ended(c)
    /\ worker' = [worker EXCEPT ![c] = "zombie"]
    /\ conn' = [conn EXCEPT ![c] = "closed"]
    /\ sigchld' = TRUE
    /\ UNCHANGED <<clientSide, serverSide, alive, pc, ready, histories>>

Server == accept \/ sigchld_delivered \/ sigchld_handler
child_run(c) ==
    \/ (recv(c) \/ answer(c)) /\ UNCHANGED sigchld
    \/ exit(c)

Next ==
    \/ Server
    \/ \E c \in Clients : child_run(c)
    \/ \E c \in Clients : Client(c) /\ UNCHANGED <<worker, sigchld>>
=============================================================================
