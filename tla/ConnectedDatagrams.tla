------------------------- MODULE ConnectedDatagrams -------------------------
(***************************************************************************)
(* Chapter 14: udpconnectserver.c connects its socket to the first client  *)
(* that it hears, and greets what comes until that is "goodbye";           *)
(* udpconnectclient.c connects its own, and so is told when a datagram     *)
(* finds nobody.  The server writes each message over the one before, and  *)
(* no 0 behind it.  A line says goodbye or not: that the rest of an older  *)
(* one could complete the word is left out.                                *)
(***************************************************************************)
EXTENDS Integers, Sequences

CONSTANTS
    Clients,
    Lines,          \* bound: how many lines are typed at each client
    Lengths,        \* of the lines, without the newline
    MAXLINE         \* the length of message and of send_line

VARIABLES
    lines,          \* the lines that each client has sent
    waits,          \* "no", "recv", or "ended": told that nobody is there
    shown,          \* the answers that each client has shown
    requests, answers,      \* the datagrams that are under way
    message,        \* the bytes of the array message up to a 0
    unanswered,     \* message is to be answered: its client, in a set
    queue,          \* the datagrams in the server's socket
    peer,           \* to whom the socket is connected, in a set
    count,
    running,        \* the server process
    damaged,        \* history: an array of it was written past its end,
    mixed,          \* it heard another client than the one it answers,
    lost            \* the network lost a datagram of the client

clientVars == <<lines, waits, shown>>
serverVars == <<message, unanswered, queue, peer, count, running, damaged, mixed>>
vars == <<clientVars, serverVars, requests, answers, lost>>

\* A byte by the client and the line it is of; line 0 is one never set.
Byte == [client : Clients, line : Nat]
Text(c, k) == [i \in 1..lines[c][k].length |-> [client |-> c, line |-> k]]

TypeOK ==
    /\ \A c \in Clients :
        /\ lines[c] \in Seq([length : Lengths, goodbye : BOOLEAN])
        /\ \A k \in DOMAIN shown[c] : shown[c][k] \in Seq(Byte)
    /\ waits \in [Clients -> {"no", "recv", "ended"}]
    /\ \A d \in requests : d.client \in Clients /\ d.line \in DOMAIN lines[d.client]
    /\ \A a \in answers : a.client \in peer /\ a.number \in Nat /\ a.text \in Seq(Byte)
    /\ message \in Seq(Byte) /\ unanswered \subseteq peer /\ queue \in Seq([client : Clients, line : Nat])
    /\ peer \subseteq Clients /\ \A c, d \in peer : c = d
    /\ count \in Nat
    /\ running \in BOOLEAN /\ damaged \in BOOLEAN /\ mixed \in BOOLEAN
    /\ lost \in [Clients -> BOOLEAN]

Init ==
    /\ lines = [c \in Clients |-> <<>>] /\ shown = lines
    /\ waits = [c \in Clients |-> "no"]
    /\ lost = [c \in Clients |-> FALSE]
    /\ requests = {} /\ answers = {}
    /\ message = <<>> /\ unanswered = {} /\ queue = <<>> /\ peer = {} /\ count = 0
    /\ running = TRUE /\ damaged = FALSE /\ mixed = FALSE

-----------------------------------------------------------------------------
sendto(c) ==
    /\ waits[c] = "no" /\ Len(lines[c]) < Lines[c]
    /\ \E n \in Lengths, goodbye \in BOOLEAN :
        lines' = [lines EXCEPT ![c] = Append(@, [length |-> n, goodbye |-> goodbye])]
    /\ requests' = requests \cup {[client |-> c, line |-> Len(lines'[c])]}
    /\ waits' = [waits EXCEPT ![c] = "recv"]
    /\ UNCHANGED <<shown, answers, serverVars, lost>>

recvfrom(c) ==
    /\ waits[c] = "recv"
    /\ \E a \in answers :
        /\ a.client = c
        /\ answers' = answers \ {a}
        /\ shown' = [shown EXCEPT ![c] = Append(@, a.text)]
    /\ waits' = [waits EXCEPT ![c] = "no"]
    /\ UNCHANGED <<lines, requests, serverVars, lost>>

-----------------------------------------------------------------------------
(* The network and the sockets.  What was in the socket before it was      *)
(* connected stays there, whoever sent it.  Bound: one datagram is lost,   *)
(* and none is copied.                                                     *)

Heeds(d) == running /\ (peer = {} \/ d.client \in peer)

arrive(d) ==
    /\ Heeds(d)
    /\ requests' = requests \ {d}
    /\ queue' = Append(queue, d)
    /\ UNCHANGED <<clientVars, message, unanswered, peer, count, running, damaged, mixed,
                   answers, lost>>

\* ECONNREFUSED in the client's recvfrom: error(1, ...).
refuse(d) ==
    /\ ~ Heeds(d)
    /\ requests' = requests \ {d}
    /\ waits' = [waits EXCEPT ![d.client] = "ended"]
    /\ UNCHANGED <<lines, shown, serverVars, answers, lost>>

Lose(d) ==
    /\ \A c \in Clients : ~ lost[c]
    /\ \/ d \in requests /\ requests' = requests \ {d} /\ UNCHANGED answers
       \/ d \in answers /\ answers' = answers \ {d} /\ UNCHANGED requests
    /\ lost' = [lost EXCEPT ![d.client] = TRUE]
    /\ UNCHANGED <<clientVars, serverVars>>

-----------------------------------------------------------------------------
(* The server.                                                             *)

\* The array after a recv of text: behind it are the bytes that it did not
\* reach; past the 0 of all before, bytes that were never set, a 0 or not.
Overwritten(text) ==
    IF Len(text) > Len(message)
    THEN {text, Append(text, [text[1] EXCEPT !.line = 0])}
    ELSE {text \o SubSeq(message, Len(text) + 1, Len(message))}

\* The first message gets a 0 behind it, and the socket its peer.
connect ==
    /\ running /\ peer = {} /\ queue # <<>>
    /\ message' = Text(Head(queue).client, Head(queue).line)
    /\ peer' = {Head(queue).client}
    /\ queue' = Tail(queue)
    /\ running' = ~ lines[Head(queue).client][Head(queue).line].goodbye
    /\ unanswered' = IF running' THEN peer' ELSE {}
    /\ UNCHANGED <<clientVars, requests, answers, count, damaged, mixed, lost>>

\* "Hi, " stands for four bytes.
Hi == 4

\* A greeting of MAXLINE bytes and more ends past its array: the process is
\* lost, or goes on with what it overwrote.
send ==
    /\ running
    /\ \E c \in unanswered :
        \/ /\ damaged' = (damaged \/ Len(message) + Hi >= MAXLINE)
           /\ answers' = answers \cup {[client |-> c, number |-> count, text |-> message]}
           /\ UNCHANGED running
        \/ /\ Len(message) + Hi >= MAXLINE
           /\ running' = FALSE
           /\ UNCHANGED <<damaged, answers>>
    /\ unanswered' = {}
    /\ UNCHANGED <<clientVars, message, queue, peer, count, mixed, requests, lost>>

recv ==
    /\ running /\ peer # {} /\ unanswered = {} /\ queue # <<>>
    /\ LET d == Head(queue) IN
       /\ message' \in Overwritten(Text(d.client, d.line))
       /\ mixed' = (mixed \/ d.client \notin peer)
       /\ running' = ~ lines[d.client][d.line].goodbye
    /\ queue' = Tail(queue)
    /\ count' = count + 1
    /\ unanswered' = IF running' THEN peer ELSE {}
    /\ UNCHANGED <<clientVars, peer, damaged, requests, answers, lost>>

\* SIGINT, at any time.
recvfrom_int ==
    /\ running
    /\ running' = FALSE
    /\ UNCHANGED <<clientVars, message, unanswered, queue, peer, count, damaged, mixed,
                   requests, answers, lost>>

Server == connect \/ send \/ recv

Next ==
    \/ Server \/ recvfrom_int
    \/ \E c \in Clients : sendto(c) \/ recvfrom(c)
    \/ \E d \in requests : arrive(d) \/ refuse(d)
    \/ \E d \in requests \cup answers : Lose(d)

-----------------------------------------------------------------------------
\* The answer to a line begins with that line, and what is behind it is not
\* of another client; it may be left from an earlier line
\* (udpconnectserver.c:41-68).
AnswersMatch ==
    ~ damaged /\ ~ mixed =>
        \A c \in Clients : \A k \in DOMAIN shown[c] :
            LET n == lines[c][k].length
                text == shown[c][k]
            IN  /\ n <= Len(text) /\ SubSeq(text, 1, n) = Text(c, k)
                /\ \A i \in n + 1..Len(text) : text[i].client = c /\ text[i].line < k

\* A client waits no longer, or lost a datagram, or has lost the server: to
\* its own goodbye, to somebody else, or altogether.
Answered(c) == waits[c] = "recv" => lost[c] \/ ~ running \/ mixed
=============================================================================
