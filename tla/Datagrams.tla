----------------------------- MODULE Datagrams -----------------------------
(***************************************************************************)
(* Chapter 6: udpclient.c sends each line that is typed in a datagram, and *)
(* waits for one datagram before it takes the next line; udpserver.c       *)
(* answers each that it receives with "Hi, " before it.  The network may   *)
(* lose a datagram, deliver it late or deliver it twice.                   *)
(***************************************************************************)
EXTENDS Integers, Sequences

CONSTANTS
    Clients,
    Lines,          \* bound: how many lines are typed at each client
    Lengths,        \* of the lines, without the newline
    MAXLINE         \* the length of message and of send_line

LengthsAssumption == MAXLINE \in Nat /\ Lengths \subseteq 0..MAXLINE - 1

VARIABLES
    lines,          \* the lengths of the lines that each client has sent
    waits,          \* the client is in recvfrom
    shown,          \* the lines of which it has shown the answers
    requests, answers,      \* the datagrams that are under way
    message,        \* the one that the server answers, in a set of its own
    count,
    running,        \* the server process
    damaged,        \* history: an array of it was written past its end,
    lost, copied    \* the network lost, copied one of the client's datagrams

clientVars == <<lines, waits, shown>>
serverVars == <<message, count, running, damaged>>
vars == <<clientVars, serverVars, requests, answers, lost, copied>>

\* A line by its number; copy tells the network's second one from the first.
Datagram == [client : Clients, line : Nat \ {0}, copy : BOOLEAN]

TypeOK ==
    /\ \A c \in Clients : lines[c] \in Seq(Lengths) /\ shown[c] \in Seq(1..Len(lines[c]))
    /\ waits \in [Clients -> BOOLEAN]
    /\ \A d \in requests \cup message \cup answers : d \in Datagram /\ d.line <= Len(lines[d.client])
    /\ \A d, e \in message : d = e
    /\ count \in Nat
    /\ running \in BOOLEAN /\ damaged \in BOOLEAN
    /\ {lost, copied} \subseteq [Clients -> BOOLEAN]

Init ==
    /\ lines = [c \in Clients |-> <<>>] /\ shown = lines
    /\ waits = [c \in Clients |-> FALSE] /\ lost = waits /\ copied = waits
    /\ requests = {} /\ answers = {}
    /\ message = {} /\ count = 0
    /\ running = TRUE /\ damaged = FALSE

-----------------------------------------------------------------------------
(* A client.  It never gives up, and never sends a line again.             *)

\* A line that is typed at c.
sendto(c) ==
    /\ ~ waits[c] /\ Len(lines[c]) < Lines[c]
    /\ \E n \in Lengths : lines' = [lines EXCEPT ![c] = Append(@, n)]
    /\ requests' = requests \cup {[client |-> c, line |-> Len(lines'[c]), copy |-> FALSE]}
    /\ waits' = [waits EXCEPT ![c] = TRUE]
    /\ UNCHANGED <<shown, answers, serverVars, lost, copied>>

\* Any datagram will do; who sent it is not looked at.
recvfrom(c) ==
    /\ waits[c]
    /\ \E d \in answers :
        /\ d.client = c
        /\ answers' = answers \ {d}
        /\ shown' = [shown EXCEPT ![c] = Append(@, d.line)]
    /\ waits' = [waits EXCEPT ![c] = FALSE]
    /\ UNCHANGED <<lines, requests, serverVars, lost, copied>>

-----------------------------------------------------------------------------
(* The server.                                                             *)

receive ==
    /\ running /\ message = {}
    /\ \E d \in requests : message' = {d} /\ requests' = requests \ {d}
    /\ UNCHANGED <<clientVars, answers, count, running, damaged, lost, copied>>

\* "Hi, " stands for four bytes.
Hi == 4

\* A greeting of MAXLINE bytes and more ends past its array: the process is
\* lost, or goes on with what it overwrote.
answer ==
    /\ running
    /\ \E d \in message :
        \/ /\ damaged' = (damaged \/ lines[d.client][d.line] + Hi >= MAXLINE)
           /\ answers' = answers \cup {d}
           /\ count' = count + 1
           /\ UNCHANGED running
        \/ /\ lines[d.client][d.line] + Hi >= MAXLINE
           /\ running' = FALSE
           /\ UNCHANGED <<damaged, answers, count>>
    /\ message' = {}
    /\ UNCHANGED <<clientVars, requests, lost, copied>>

Server == receive \/ answer

\* SIGINT, at any time.
recvfrom_int ==
    /\ running
    /\ running' = FALSE
    /\ UNCHANGED <<clientVars, message, count, damaged, requests, answers, lost, copied>>

-----------------------------------------------------------------------------
(* The network.  Bound: it loses one datagram and copies one, once.        *)

Lose(d) ==
    /\ \A c \in Clients : ~ lost[c]
    /\ \/ d \in requests /\ requests' = requests \ {d} /\ UNCHANGED answers
       \/ d \in answers /\ answers' = answers \ {d} /\ UNCHANGED requests
    /\ lost' = [lost EXCEPT ![d.client] = TRUE]
    /\ UNCHANGED <<clientVars, serverVars, copied>>

Copy(d) ==
    /\ \A c \in Clients : ~ copied[c]
    /\ LET twice == {d, [d EXCEPT !.copy = TRUE]} IN
       \/ d \in requests /\ requests' = requests \cup twice /\ UNCHANGED answers
       \/ d \in answers /\ answers' = answers \cup twice /\ UNCHANGED requests
    /\ copied' = [copied EXCEPT ![d.client] = TRUE]
    /\ UNCHANGED <<clientVars, serverVars, lost>>

Next ==
    \/ Server \/ recvfrom_int
    \/ \E c \in Clients : sendto(c) \/ recvfrom(c)
    \/ \E d \in requests \cup answers : Lose(d) \/ Copy(d)

-----------------------------------------------------------------------------
\* What a client shows after its k-th line is the answer to that line, be
\* datagrams lost or late: it has one line under way at most.  Only a network
\* that delivers one twice breaks this (udpclient.c:39-47, udpserver.c:35-46).
AnswersMatch ==
    \A c \in Clients :
        ~ damaged /\ ~ copied[c] =>
            /\ \A k \in DOMAIN shown[c] : shown[c][k] = k
            /\ Len(shown[c]) = Len(lines[c]) - (IF waits[c] THEN 1 ELSE 0)

\* A client waits no longer, or lost a datagram, or has lost the server.
Answered(c) == waits[c] => lost[c] \/ ~ running
=============================================================================
