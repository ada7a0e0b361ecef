----------------------------- MODULE HttpServer -----------------------------
(***************************************************************************)
(* The HTTP server over one TCP connection: the main thread that sets the  *)
(* connection up, the event loop that receives messages, the parser that   *)
(* turns them into a request and the response that is sent to it.          *)
(* Translated from lib/http_server.c, lib/http_request.c and the end of    *)
(* lib/tcp_server.c; the tcp_connection below it is TcpConnection.tla, of  *)
(* which only what reaches the callbacks is kept.                          *)
(* Requests are well formed.  What is told apart in them: the lines, where *)
(* each ends, the version and the Connection header.                       *)
(***************************************************************************)
EXTENDS Integers, Sequences, SequencesExt

CONSTANTS
    Kinds,          \* the requests clients make
    MaxRequests,    \* bound of the requests of the connection
    Clients,        \* "waits" for each answer, or "pipelines"
    ThreadNums,     \* how many I/O threads the server may have
    Partial         \* messages may end inside a request

Versions == {"HTTP/1.0", "HTTP/1.1"}

ASSUME KindsAssumption ==
    Kinds \subseteq [version : Versions, connection : {"none", "close", "keep"}]
ASSUME BoundsAssumption == MaxRequests \in Nat /\ ThreadNums \subseteq Nat
ASSUME ClientsAssumption == Clients \subseteq {"waits", "pipelines"} /\ Partial \in BOOLEAN

VARIABLES
    client, threadNum,
    asked,          \* the requests the client has sent
    wire,           \* what it has sent and is not read yet
    fin,            \* it sends no more
    main,           \* where the main thread is: "accept", "registered", "established"
    data,           \* tcpConnection->data is the http_server
    httpServer,     \* what http_onMessage has read of it, when it was called
    request,        \* tcpConnection->request
    input,          \* input_buffer
    answered,       \* the urls of the requests that were answered
    shut,           \* the server has shut the connection down
    thread          \* the loop's thread: "loop", "parse", "closed",
                    \* "undefined" (NULL dereferenced), "killed" (SIGPIPE)

environment == <<client, threadNum, asked, fin>>
connection == <<data, httpServer, request, input, answered, shut>>
vars == <<environment, wire, main, connection, thread>>

-----------------------------------------------------------------------------
(* Lines.  The url of the n-th request is n.                               *)

CRLF == [line |-> "CRLF", url |-> 0, value |-> ""]
StatusLine(n, version) == [line |-> "status", url |-> n, value |-> version]
HeaderLine(value) == [line |-> "Connection", url |-> 0, value |-> value]

Encoded(n, r) ==
    <<StatusLine(n, r.version), CRLF>>
        \o (IF r.connection = "none" THEN <<>> ELSE <<HeaderLine(r.connection), CRLF>>)
        \o <<CRLF>>

-----------------------------------------------------------------------------
http_request_new ==
    [current_state |-> "REQUEST_STATUS", url |-> 0, version |-> "", connection |-> "none"]

NULL == [http_request_new EXCEPT !.current_state = "NULL"]

\* Mutants: the request stays done, or its headers stay.
http_request_reset_forgotten(r) == r
http_request_reset_headers(r) == [r EXCEPT !.current_state = "REQUEST_STATUS"]

http_request_reset(r) == http_request_new

\* The first header of a name is the one that is found.
http_request_add_header(r, value) ==
    [r EXCEPT !.connection = IF @ = "none" THEN value ELSE @]

\* A missing header of an HTTP/1.0 request is passed to strncmp as NULL.
http_request_close_connection(r) ==
    IF r.connection = "close" THEN "close"
    ELSE IF r.version = "HTTP/1.0" /\ r.connection = "none" THEN "undefined"
    ELSE "keep"

TypeOK ==
    /\ client \in Clients /\ threadNum \in ThreadNums
    /\ asked \in Seq(Kinds) /\ Len(asked) <= MaxRequests
    /\ main \in {"accept", "registered", "established"}
    /\ fin \in BOOLEAN /\ data \in BOOLEAN /\ httpServer \in BOOLEAN /\ shut \in BOOLEAN
    /\ answered \in Seq(1..Len(asked))
    /\ request \in
         [current_state : {"NULL", "REQUEST_STATUS", "REQUEST_HEADERS", "REQUEST_DONE"},
          url : 0..Len(asked), version : {""} \cup Versions,
          connection : {"none", "close", "keep"}]
    /\ thread \in {"loop", "parse", "closed", "undefined", "killed"}

Init ==
    /\ client \in Clients /\ threadNum \in ThreadNums
    /\ asked = <<>> /\ wire = <<>> /\ fin = FALSE
    /\ main = "accept"
    /\ data = FALSE /\ httpServer = FALSE /\ request = NULL /\ input = <<>>
    /\ answered = <<>> /\ shut = FALSE
    /\ thread = "loop"

-----------------------------------------------------------------------------
(* The client.                                                             *)

\* A client that waits has had all its answers and not asked to close.
MaySend ==
    client = "waits" => /\ Len(answered) = Len(asked)
                        /\ \A k \in DOMAIN asked : asked[k].connection # "close"

Send(r) ==
    /\ ~fin /\ MaySend
    /\ thread \in {"loop", "parse"}
    /\ Len(asked) < MaxRequests
    /\ asked' = Append(asked, r)
    /\ wire' = wire \o Encoded(Len(asked) + 1, r)
    /\ UNCHANGED <<client, threadNum, fin, main, connection, thread>>

Finish ==
    /\ ~fin
    /\ fin' = TRUE
    /\ UNCHANGED <<client, threadNum, asked, wire, main, connection, thread>>

-----------------------------------------------------------------------------
(* The main thread: handle_connection_established.                         *)

\* http_onConnectionCompleted makes the request, then the channel is added
\* to a loop.
tcp_connection_new ==
    /\ main = "accept"
    /\ main' = "registered"
    /\ request' = http_request_new
    /\ UNCHANGED <<environment, wire, data, httpServer, input, answered, shut, thread>>

set_connection_data ==
    /\ main = "registered"
    /\ main' = "established"
    /\ data' = TRUE
    /\ UNCHANGED <<environment, wire, httpServer, request, input, answered, shut, thread>>

\* Mutant: the callback is over as soon as the channel is added.
MayRun_registered == main # "accept"

\* Without I/O threads the main thread runs the loop, after its callback.
MayRun == main = "established" \/ (threadNum > 0 /\ main = "registered")

-----------------------------------------------------------------------------
(* The thread of the connection's loop.                                    *)

\* Both directions are over: EPOLLHUP, and the descriptor is closed.
epoll_error ==
    /\ MayRun /\ thread = "loop"
    /\ shut /\ fin
    /\ thread' = "closed"
    /\ UNCHANGED <<environment, wire, main, connection>>

EndsRequest(n) == \A m \in DOMAIN wire : m = n + 1 => wire[m].line = "status"

\* http_onMessage is called with what was received so far; it reads
\* tcpConnection->data before it parses.
handle_read ==
    /\ MayRun /\ thread = "loop"
    /\ ~(shut /\ fin)
    /\ \E n \in 1..Len(wire) :
          /\ Partial \/ EndsRequest(n)
          /\ input' = input \o SubSeq(wire, 1, n)
          /\ wire' = SubSeq(wire, n + 1, Len(wire))
    /\ thread' = "parse"
    /\ httpServer' = data
    /\ UNCHANGED <<environment, main, data, request, answered, shut>>

http_onConnectionClosed ==
    /\ MayRun /\ thread = "loop"
    /\ fin /\ ~shut /\ wire = <<>>
    /\ request' = NULL
    /\ thread' = "closed"
    /\ UNCHANGED <<environment, wire, main, data, httpServer, input, answered, shut>>

(* parse_http_request: one turn of its loop.                               *)

Parsing(state) == thread = "parse" /\ request.current_state = state

\* Mutants: the line is consumed and its CRLF is not, or is counted twice.
consume_line(k) == SubSeq(input, k, Len(input))
consume_twice(k) == SubSeq(input, k + 2, Len(input))

Consumed(k) == SubSeq(input, k + 1, Len(input))

FirstCRLF(k) == input[k] = CRLF /\ \A j \in 1..k - 1 : input[j] # CRLF

process_status_line ==
    /\ Parsing("REQUEST_STATUS")
    /\ \E k \in DOMAIN input :
          /\ FirstCRLF(k) /\ k > 1
          /\ request' = [request EXCEPT !.url = input[1].url, !.version = input[1].value,
                                        !.current_state = "REQUEST_HEADERS"]
          /\ input' = Consumed(k)
    /\ UNCHANGED <<environment, wire, main, data, httpServer, answered, shut, thread>>

parse_header ==
    /\ Parsing("REQUEST_HEADERS")
    /\ \E k \in DOMAIN input :
          /\ FirstCRLF(k) /\ k > 1
          /\ request' = http_request_add_header(request, input[1].value)
          /\ input' = Consumed(k)
    /\ UNCHANGED <<environment, wire, main, data, httpServer, answered, shut, thread>>

\* A line without a colon is the last.
parse_last ==
    /\ Parsing("REQUEST_HEADERS")
    /\ input # <<>> /\ FirstCRLF(1)
    /\ request' = [request EXCEPT !.current_state = "REQUEST_DONE"]
    /\ input' = Consumed(1)
    /\ UNCHANGED <<environment, wire, main, data, httpServer, answered, shut, thread>>

\* The rest of http_onMessage.  The request callback is reached through
\* httpServer; a response to a connection that was shut down raises SIGPIPE.
http_onMessage ==
    /\ Parsing("REQUEST_DONE")
    /\ IF ~httpServer \/ shut
       THEN /\ thread' = IF ~httpServer THEN "undefined" ELSE "killed"
            /\ UNCHANGED connection
       ELSE LET close == http_request_close_connection(request)
            IN  /\ answered' = Append(answered, request.url)
                /\ thread' = IF close = "undefined" THEN "undefined" ELSE "loop"
                /\ shut' = (close = "close")
                /\ request' = http_request_reset(request)
                /\ UNCHANGED <<data, httpServer, input>>
    /\ UNCHANGED <<environment, wire, main>>

-----------------------------------------------------------------------------
Main == tcp_connection_new \/ set_connection_data
Loop ==
    \/ epoll_error \/ handle_read \/ http_onConnectionClosed
    \/ process_status_line \/ parse_header \/ parse_last \/ http_onMessage

Next ==
    \/ \E r \in Kinds : Send(r)
    \/ Finish
    \/ Main
    \/ Loop

\* Both threads run.
Spec == Init /\ [][Next]_vars /\ WF_vars(Main) /\ WF_vars(Loop)

-----------------------------------------------------------------------------
\* Responses go out in the order of the requests, one for each
\* (http_server.c:41-116).
AnsweredInOrder == \A k \in DOMAIN answered : answered[k] = k

\* Between two messages what is buffered, or not read yet, is exactly the
\* requests that were not answered: the parser consumes no byte of the next
\* request and leaves none of the last (http_server.c:41-84).
UnansweredIsBuffered ==
    thread = "loop" =>
        LET unanswered ==
                [k \in 1..Len(asked) - Len(answered) |->
                    Encoded(Len(answered) + k, asked[Len(answered) + k])]
        IN  input \o wire = FlattenSeq(unanswered)

\* The server shuts a connection down if, and only if, a request it has
\* answered asked for it: no header outlives its request
\* (http_request.c:36-82).
ClosesAsAsked ==
    thread = "loop" => (shut <=> \E k \in DOMAIN answered : asked[k].connection = "close")

LacksHeader(k) == asked[k].version = "HTTP/1.0" /\ asked[k].connection = "none"

\* A client that waits for each answer gets it, from a server whose main
\* thread does the I/O, unless an earlier request was an HTTP/1.0 request
\* without a Connection header (http_server.c:89-118).  With I/O threads
\* tcpConnection->data may be used before it is set (tcp_server.c:152).
WaitingClientIsAnswered ==
    \A n \in 1..MaxRequests :
        client = "waits" /\ threadNum = 0 /\ Len(asked) >= n
            ~> \/ Len(answered) >= n
               \/ thread = "undefined" /\ \E k \in DOMAIN answered : LacksHeader(k)

\* "Not all of the data may have been received, so the case of insufficient
\* data must be handled" (http_server.c:88): the parser's loop always has a
\* line to go on with.
PartialIsHandled ==
    thread = "parse" =>
        request.current_state = "REQUEST_DONE" \/ \E k \in DOMAIN input : input[k] = CRLF
=============================================================================
