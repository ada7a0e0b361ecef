-------------------------- MODULE HttpServerProofs --------------------------
(***************************************************************************)
(* The safety properties of HttpServer.tla, for all requests, any bound of *)
(* their number and every way the stream is cut into messages.             *)
(*                                                                         *)
(* The invariant is about the stream, what is buffered and what is on the  *)
(* wire together: how a message is cut moves bytes from one to the other   *)
(* and does not change it.  At each state of the parser the stream is the  *)
(* part of the current request that was not consumed, followed by the      *)
(* requests not reached; a turn of the parser takes one line and its CRLF  *)
(* from the front.                                                         *)
(***************************************************************************)
EXTENDS HttpServer, LibraryLemmas

-----------------------------------------------------------------------------
(* What the client sends.                                                  *)

Line ==
    [line : {"CRLF", "status", "Connection"}, url : Nat,
     value : {"", "none", "close", "keep"} \cup Versions]

\* What follows the status line.
HeadersOf(header) ==
    (IF header = "none" THEN <<>> ELSE <<HeaderLine(header), CRLF>>) \o <<CRLF>>

\* The requests after the first n, one after the other.
Owed(requests, n) ==
    [k \in 1..Len(requests) - n |-> Encoded(n + k, requests[n + k])]
Rest(requests, n) == FlattenSeq(Owed(requests, n))

LEMMA KindFields ==
    ASSUME NEW r \in Kinds
    PROVE  r.version \in Versions /\ r.connection \in {"none", "close", "keep"}
BY KindsAssumption

LEMMA LineTypes ==
    /\ CRLF \in Line
    /\ \A n \in Nat, v \in Versions : StatusLine(n, v) \in Line /\ StatusLine(n, v) # CRLF
    /\ \A c \in {"none", "close", "keep"} : HeaderLine(c) \in Line /\ HeaderLine(c) # CRLF
<1>1. CRLF \in Line
  BY DEF CRLF, Line
<1>2. ASSUME NEW n \in Nat, NEW v \in Versions
      PROVE  StatusLine(n, v) \in Line /\ StatusLine(n, v) # CRLF
  BY DEF StatusLine, CRLF, Line
<1>3. ASSUME NEW c \in {"none", "close", "keep"}
      PROVE  HeaderLine(c) \in Line /\ HeaderLine(c) # CRLF
  BY DEF HeaderLine, CRLF, Line
<1> QED BY <1>1, <1>2, <1>3

LEMMA Regroup ==
    ASSUME NEW p \in Seq(Line), NEW q \in Seq(Line), NEW r \in Seq(Line)
    PROVE  (p \o q) \o r = p \o (q \o r)
BY ConcatAssociative, SMTT(30)

LEMMA HeadersParts ==
    ASSUME NEW c \in {"none", "close", "keep"}
    PROVE  /\ HeadersOf(c) \in Seq(Line)
           /\ c = "none" => HeadersOf(c) = <<CRLF>>
           /\ c # "none" => HeadersOf(c) = <<HeaderLine(c), CRLF>> \o <<CRLF>>
<1>1. <<>> \in Seq(Line) /\ <<CRLF>> \in Seq(Line) /\ <<HeaderLine(c), CRLF>> \in Seq(Line)
  BY LineTypes
<1>2. CASE c = "none"
  <2>1. <<>> \o <<CRLF>> = <<CRLF>>
    BY <1>1, ConcatEmptySeq
  <2> QED BY <1>1, <1>2, <2>1 DEF HeadersOf
<1>3. CASE c # "none"
  <2>1. HeadersOf(c) = <<HeaderLine(c), CRLF>> \o <<CRLF>>
    BY <1>3 DEF HeadersOf
  <2> QED BY <1>1, <1>3, <2>1, ConcatProperties
<1> QED BY <1>2, <1>3

LEMMA EncodedParts ==
    ASSUME NEW n \in Nat, NEW r \in Kinds
    PROVE  /\ Encoded(n, r) \in Seq(Line)
           /\ <<StatusLine(n, r.version), CRLF>> \in Seq(Line)
           /\ HeadersOf(r.connection) \in Seq(Line)
           /\ Encoded(n, r) = <<StatusLine(n, r.version), CRLF>> \o HeadersOf(r.connection)
<1> DEFINE status == <<StatusLine(n, r.version), CRLF>>
           header == IF r.connection = "none" THEN <<>>
                     ELSE <<HeaderLine(r.connection), CRLF>>
           last == <<CRLF>>
<1>1. status \in Seq(Line) /\ header \in Seq(Line) /\ last \in Seq(Line)
  BY KindFields, LineTypes
<1>2. HeadersOf(r.connection) = header \o last /\ Encoded(n, r) = (status \o header) \o last
  BY Zenon DEF HeadersOf, Encoded
<1> HIDE DEF status, header, last
<1>3. (status \o header) \o last = status \o (header \o last)
  BY <1>1, Regroup
<1>4. header \o last \in Seq(Line)
  BY <1>1, ConcatProperties
<1>5. status \o (header \o last) \in Seq(Line)
  BY <1>1, <1>4, ConcatProperties
<1> QED BY <1>1, <1>2, <1>3, <1>4, <1>5, Zenon DEF status

LEMMA OwedType ==
    ASSUME NEW requests \in Seq(Kinds), NEW n \in 0..Len(requests)
    PROVE  /\ Owed(requests, n) \in Seq(Seq(Line))
           /\ Len(Owed(requests, n)) = Len(requests) - n
           /\ Rest(requests, n) \in Seq(Line)
<1>1. Len(requests) \in Nat /\ Len(requests) - n \in Nat
  BY LenProperties
<1>2. ASSUME NEW k \in 1..Len(requests) - n
      PROVE  Encoded(n + k, requests[n + k]) \in Seq(Line)
  <2>1. n + k \in Nat /\ n + k \in 1..Len(requests)
    BY <1>1
  <2>2. requests[n + k] \in Kinds
    BY <2>1, ElementOfSeq
  <2> QED BY <2>1, <2>2, EncodedParts
<1>3. Owed(requests, n) \in [1..Len(requests) - n -> Seq(Line)]
  BY <1>2 DEF Owed
<1>4. Owed(requests, n) \in Seq(Seq(Line)) /\ Len(Owed(requests, n)) = Len(requests) - n
  BY <1>1, <1>3
<1> QED BY <1>4, FlattenType DEF Rest

\* The request after the first n comes first.
LEMMA RestSteps ==
    ASSUME NEW requests \in Seq(Kinds), NEW n \in Nat, n < Len(requests)
    PROVE  Rest(requests, n) = Encoded(n + 1, requests[n + 1]) \o Rest(requests, n + 1)
<1> DEFINE x == Encoded(n + 1, requests[n + 1])
           s == Owed(requests, n)
           t == Owed(requests, n + 1)
<1>1. /\ Len(requests) \in Nat /\ n \in 0..Len(requests) /\ n + 1 \in 0..Len(requests)
      /\ n + 1 \in Nat /\ n + 1 \in 1..Len(requests)
  BY LenProperties
<1>2. requests[n + 1] \in Kinds
  BY <1>1, ElementOfSeq
<1>3. x \in Seq(Line)
  BY <1>1, <1>2, EncodedParts
<1>4. /\ s \in Seq(Seq(Line)) /\ t \in Seq(Seq(Line))
      /\ Len(s) = Len(requests) - n /\ Len(t) = Len(requests) - (n + 1)
  BY <1>1, OwedType
<1>5. ASSUME NEW k \in 1..Len(s)
      PROVE  s[k] = IF k <= 1 THEN <<x>>[k] ELSE t[k - 1]
  <2>1. s[k] = Encoded(n + k, requests[n + k])
    BY <1>4 DEF Owed
  <2>2. CASE k = 1
    BY <2>1, <2>2
  <2>3. CASE k # 1
    <3>1. k - 1 \in 1..Len(requests) - (n + 1) /\ (n + 1) + (k - 1) = n + k
      BY <1>1, <1>4, <2>3
    <3>2. t[k - 1] = Encoded((n + 1) + (k - 1), requests[(n + 1) + (k - 1)])
      BY <3>1, Zenon DEF Owed
    <3>3. t[k - 1] = s[k]
      BY <2>1, <3>1, <3>2, Zenon
    <3>4. ~ k <= 1
      BY <2>3
    <3> QED BY <3>3, <3>4
  <2> QED BY <2>2, <2>3
<1> HIDE DEF x, s, t
<1>6. s = <<x>> \o t
  <2>1. <<x>> \in Seq(Seq(Line)) /\ Len(<<x>>) = 1
    BY <1>3
  <2> DEFINE u == <<x>> \o t
  <2>2. /\ u \in Seq(Seq(Line)) /\ Len(u) = 1 + Len(t)
        /\ \A k \in 1..1 + Len(t) : u[k] = IF k <= 1 THEN <<x>>[k] ELSE t[k - 1]
    BY <1>4, <2>1, ConcatProperties
  <2> HIDE DEF u
  <2>3. Len(s) = Len(u)
    BY <1>1, <1>4, <2>2
  <2>4. \A k \in 1..Len(s) : s[k] = u[k]
    BY <1>1, <1>4, <1>5, <2>2, <2>3
  <2>5. s = u
    BY <1>4, <2>2, <2>3, <2>4, SeqEqual
  <2> QED BY <2>5 DEF u
<1>7. FlattenSeq(s) = x \o FlattenSeq(t)
  BY <1>3, <1>4, <1>6, FlattenCons
<1> QED BY <1>7 DEF Rest, s, t, x

LEMMA RestEnds ==
    ASSUME NEW requests \in Seq(Kinds)
    PROVE  Rest(requests, Len(requests)) = <<>>
<1>1. Len(requests) \in Nat
  BY LenProperties
<1>2. /\ Owed(requests, Len(requests)) \in Seq(Seq(Line))
      /\ Len(Owed(requests, Len(requests))) = 0
  BY <1>1, OwedType
<1>3. Owed(requests, Len(requests)) = <<>>
  BY <1>2, EmptySeq
<1> QED BY <1>3, FlattenEmpty DEF Rest

\* One more request is sent.
LEMMA RestGrows ==
    ASSUME NEW requests \in Seq(Kinds), NEW n \in 0..Len(requests), NEW r \in Kinds
    PROVE  Rest(Append(requests, r), n) = Rest(requests, n) \o Encoded(Len(requests) + 1, r)
<1> DEFINE more == Append(requests, r)
           x == Encoded(Len(requests) + 1, r)
           s == Owed(requests, n)
           t == Owed(more, n)
           u == Append(s, x)
<1>1. /\ more \in Seq(Kinds) /\ Len(requests) \in Nat /\ Len(more) = Len(requests) + 1
      /\ \A k \in 1..Len(requests) : more[k] = requests[k]
      /\ more[Len(requests) + 1] = r
  BY AppendProperties, LenProperties
<1> HIDE DEF more
<1>2. x \in Seq(Line)
  <2>1. Len(requests) + 1 \in Nat
    BY <1>1
  <2> QED BY <2>1, EncodedParts
<1>3. /\ s \in Seq(Seq(Line)) /\ t \in Seq(Seq(Line))
      /\ Len(s) = Len(requests) - n /\ Len(t) = Len(more) - n
  <2>1. n \in 0..Len(more)
    BY <1>1
  <2> QED BY <1>1, <2>1, OwedType
<1>4. \A k \in 1..Len(more) - n : t[k] = Encoded(n + k, more[n + k])
  BY DEF Owed
<1>5. \A k \in 1..Len(requests) - n : s[k] = Encoded(n + k, requests[n + k])
  BY DEF Owed
<1> HIDE DEF s, t, x
<1>6. /\ u \in Seq(Seq(Line)) /\ Len(u) = Len(s) + 1
      /\ \A k \in 1..Len(s) : u[k] = s[k]
      /\ u[Len(s) + 1] = x
  BY <1>2, <1>3, AppendProperties
<1> HIDE DEF u
<1>7. ASSUME NEW k \in 1..Len(t) PROVE t[k] = u[k]
  <2>1. n + k \in 1..Len(more) /\ k \in 1..Len(more) - n
    BY <1>1, <1>3
  <2>2. t[k] = Encoded(n + k, more[n + k])
    BY <1>4, <2>1
  <2>3. CASE k <= Len(s)
    <3>1. k \in 1..Len(s) /\ k \in 1..Len(requests) - n /\ n + k \in 1..Len(requests)
      BY <1>1, <1>3, <2>1, <2>3
    <3>2. more[n + k] = requests[n + k] /\ u[k] = s[k]
      BY <1>1, <1>6, <3>1
    <3>3. s[k] = Encoded(n + k, requests[n + k])
      BY <1>5, <3>1
    <3> QED BY <2>2, <3>2, <3>3
  <2>4. CASE ~ k <= Len(s)
    <3>1. k = Len(s) + 1 /\ n + k = Len(requests) + 1
      <4>1. k \in Int /\ n \in Int /\ Len(requests) \in Int /\ k <= Len(more) - n
        BY <1>1, <2>1
      <4>2. k <= Len(requests) + 1 - n /\ ~ k <= Len(requests) - n
        BY <1>1, <1>3, <2>4, <4>1
      <4>3. k = Len(requests) - n + 1 /\ n + k = Len(requests) + 1
        BY <4>1, <4>2
      <4>4. Len(s) = Len(requests) - n
        BY <1>3
      <4> QED BY <4>3, <4>4, Zenon
    <3> QED BY <1>1, <1>6, <2>2, <3>1, Zenon DEF x
  <2> QED BY <2>3, <2>4
<1>8. t = u
  <2>1. Len(t) = Len(u)
    BY <1>1, <1>3, <1>6
  <2> QED BY <1>3, <1>6, <1>7, <2>1, SeqEqual
<1>9. FlattenSeq(u) = FlattenSeq(s) \o x
  BY <1>2, <1>3, FlattenAppend DEF u
<1> QED BY <1>8, <1>9 DEF Rest, s, t, x, more

-----------------------------------------------------------------------------
(* What the parser takes from the front of the stream.                     *)

Stream == input \o wire

\* A line is taken with its CRLF, however much more is buffered.
LEMMA TakesLine ==
    ASSUME input \in Seq(Line), wire \in Seq(Line),
           NEW l \in Line, l # CRLF, NEW rest \in Seq(Line),
           Stream = <<l, CRLF>> \o rest,
           NEW k \in DOMAIN input, FirstCRLF(k)
    PROVE  /\ k > 1 /\ input[1] = l
           /\ Consumed(k) \in Seq(Line) /\ Consumed(k) \o wire = rest
<1> DEFINE p == <<l, CRLF>>
<1>1. p \in Seq(Line) /\ Len(p) = 2 /\ p[1] = l /\ p[2] = CRLF
  BY LineTypes
<1>2. input \o wire = p \o rest
  BY DEF Stream
<1> HIDE DEF p
<1>3. Len(input) \in Nat /\ k \in 1..Len(input)
  BY LenProperties
<1>4. \A i \in 1..Len(input) : i <= Len(p) => input[i] = p[i]
  BY <1>1, <1>2, ConcatFront
<1>5. input[1] = l
  BY <1>1, <1>3, <1>4
<1>6. k # 1
  BY <1>5 DEF FirstCRLF
<1>7. 2 <= Len(input) /\ input[2] = CRLF
  BY <1>1, <1>3, <1>4, <1>6
<1>8. k = 2
  <2>1. ASSUME k > 2 PROVE FALSE
    <3>1. 2 \in 1..k - 1
      BY <1>3, <2>1
    <3> QED BY <1>7, <3>1 DEF FirstCRLF
  <2> QED BY <1>3, <1>6, <2>1
<1>9. /\ SubSeq(input, Len(p) + 1, Len(input)) \in Seq(Line)
      /\ SubSeq(input, Len(p) + 1, Len(input)) \o wire = rest
  <2>1. p \in Seq(Line) /\ Len(p) <= Len(input)
    BY <1>1, <1>7
  <2> QED BY <1>2, <2>1, ConcatRest, ZenonT(30)
<1> QED BY <1>1, <1>5, <1>8, <1>9 DEF Consumed

\* So is the empty line.
LEMMA TakesLast ==
    ASSUME input \in Seq(Line), wire \in Seq(Line), NEW rest \in Seq(Line),
           Stream = <<CRLF>> \o rest,
           NEW k \in DOMAIN input, FirstCRLF(k)
    PROVE  k = 1 /\ Consumed(k) \in Seq(Line) /\ Consumed(k) \o wire = rest
<1> DEFINE p == <<CRLF>>
<1>1. p \in Seq(Line) /\ Len(p) = 1 /\ p[1] = CRLF
  BY LineTypes
<1>2. input \o wire = p \o rest
  BY DEF Stream
<1> HIDE DEF p
<1>3. Len(input) \in Nat /\ k \in 1..Len(input)
  BY LenProperties
<1>4. \A i \in 1..Len(input) : i <= Len(p) => input[i] = p[i]
  BY <1>1, <1>2, ConcatFront
<1>5. input[1] = CRLF
  BY <1>1, <1>3, <1>4
<1>6. k = 1
  <2>1. ASSUME k > 1 PROVE FALSE
    <3>1. 1 \in 1..k - 1
      BY <1>3, <2>1
    <3> QED BY <1>5, <3>1 DEF FirstCRLF
  <2> QED BY <1>3, <2>1
<1>7. /\ SubSeq(input, Len(p) + 1, Len(input)) \in Seq(Line)
      /\ SubSeq(input, Len(p) + 1, Len(input)) \o wire = rest
  <2>1. p \in Seq(Line) /\ Len(p) <= Len(input)
    BY <1>1, <1>3
  <2> QED BY <1>2, <2>1, ConcatRest, ZenonT(30)
<1> QED BY <1>1, <1>6, <1>7 DEF Consumed

-----------------------------------------------------------------------------
(* The invariant.                                                          *)

\* The request that is parsed, if the last was answered.
Current == Len(answered) + 1

\* Its status line was read, and is in the request.
StatusRead ==
    /\ Current <= Len(asked)
    /\ request.url = Current /\ request.version = asked[Current].version

StreamOK ==
    /\ request.current_state \in {"NULL", "REQUEST_STATUS"} =>
          Stream = Rest(asked, Len(answered))
    /\ request.current_state = "REQUEST_HEADERS" =>
          /\ StatusRead
          /\ \/ /\ request.connection = "none"
                /\ Stream = HeadersOf(asked[Current].connection) \o Rest(asked, Current)
             \/ /\ request.connection = asked[Current].connection
                /\ Stream = <<CRLF>> \o Rest(asked, Current)
    /\ request.current_state = "REQUEST_DONE" =>
          /\ StatusRead
          /\ request.connection = asked[Current].connection
          /\ Stream = Rest(asked, Current)

\* Which requests the threads meet.
PhaseOK ==
    /\ main = "accept" => request = NULL /\ input = <<>> /\ thread = "loop"
    /\ request.current_state = "REQUEST_STATUS" => request = http_request_new
    /\ main # "accept" /\ thread = "loop" => request.current_state = "REQUEST_STATUS"
    /\ thread = "parse" => request.current_state # "NULL" /\ main # "accept"

ShutOK == shut <=> \E k \in DOMAIN answered : asked[k].connection = "close"

Requests(urls) ==
    [current_state : {"NULL", "REQUEST_STATUS", "REQUEST_HEADERS", "REQUEST_DONE"},
     url : urls, version : {""} \cup Versions, connection : {"none", "close", "keep"}]

Runs == thread \in {"loop", "parse"}

HttpType ==
    /\ TypeOK
    /\ input \in Seq(Line) /\ wire \in Seq(Line)
    /\ Len(answered) <= Len(asked)

HttpInv ==
    /\ HttpType
    /\ AnsweredInOrder
    /\ PhaseOK
    /\ Runs => StreamOK /\ ShutOK

LEMMA RequestsGrow ==
    ASSUME NEW urls, NEW more, urls \subseteq more, NEW r \in Requests(urls)
    PROVE  r \in Requests(more)
BY DEF Requests

\* New requests, and the fields of the missing one.
LEMMA NewRequests ==
    ASSUME NEW n \in Nat
    PROVE  /\ NULL \in Requests(0..n) /\ http_request_new \in Requests(0..n)
           /\ NULL.current_state = "NULL"
           /\ http_request_new.current_state = "REQUEST_STATUS"
<1>1. http_request_new \in Requests(0..n) /\ http_request_new.current_state = "REQUEST_STATUS"
  <2>1. 0 \in 0..n
    OBVIOUS
  <2> QED BY <2>1 DEF http_request_new, Requests
<1> DEFINE r == http_request_new
<1>2. r \in Requests(0..n) /\ NULL = [r EXCEPT !.current_state = "NULL"]
  BY <1>1 DEF NULL
<1> HIDE DEF r
<1>3. NULL \in Requests(0..n) /\ NULL.current_state = "NULL"
  BY <1>2 DEF Requests
<1> QED BY <1>1, <1>3

LEMMA InitHolds == Init => HttpInv
<1> SUFFICES ASSUME Init PROVE HttpInv
  OBVIOUS
<1>1. HttpType
  <2>1. /\ asked \in Seq(Kinds) /\ Len(asked) = 0
        /\ answered \in Seq(1..Len(asked)) /\ Len(answered) = 0
        /\ wire \in Seq(Line) /\ input \in Seq(Line)
    BY DEF Init
  <2>2. request \in Requests(0..Len(asked))
    BY <2>1, NewRequests DEF Init
  <2>3. Len(asked) <= MaxRequests /\ Len(answered) <= Len(asked)
    BY <2>1, BoundsAssumption
  <2>4. /\ client \in Clients /\ threadNum \in ThreadNums
        /\ main \in {"accept", "registered", "established"}
        /\ fin \in BOOLEAN /\ shut \in BOOLEAN
        /\ data \in BOOLEAN /\ httpServer \in BOOLEAN
        /\ thread \in {"loop", "parse", "closed", "undefined", "killed"}
    BY DEF Init
  <2> QED BY <2>1, <2>2, <2>3, <2>4, Zenon DEF HttpType, TypeOK, Requests
<1>2. AnsweredInOrder /\ PhaseOK /\ ShutOK
  <2>1. DOMAIN answered = {} /\ shut = FALSE
    BY DEF Init
  <2>2. main = "accept" /\ request = NULL /\ input = <<>> /\ thread = "loop"
    BY DEF Init
  <2>3. request.current_state = "NULL"
    BY <2>2, NewRequests
  <2> QED BY <2>1, <2>2, <2>3 DEF AnsweredInOrder, PhaseOK, ShutOK
<1>3. StreamOK
  <2>1. asked \in Seq(Kinds) /\ Len(asked) = Len(answered) /\ Stream = <<>> \o <<>>
    BY DEF Init, Stream
  <2>2. Stream = Rest(asked, Len(answered))
    BY <2>1, RestEnds, ConcatEmptySeq
  <2>3. request.current_state = "NULL"
    BY DEF Init, NULL, http_request_new
  <2> QED BY <2>2, <2>3 DEF StreamOK
<1> QED BY <1>1, <1>2, <1>3 DEF HttpInv

-----------------------------------------------------------------------------
(* The steps of the client and of the main thread.                         *)

LEMMA SendStep ==
    ASSUME HttpInv, NEW r \in Kinds, Send(r)
    PROVE  HttpInv'
<1> DEFINE x == Encoded(Len(asked) + 1, r)
<1>1. /\ asked \in Seq(Kinds) /\ Len(asked) \in Nat /\ Len(answered) \in Nat
      /\ Len(answered) <= Len(asked) /\ Len(asked) < MaxRequests
      /\ answered \in Seq(1..Len(asked))
      /\ input \in Seq(Line) /\ wire \in Seq(Line)
  BY LenProperties DEF HttpInv, HttpType, TypeOK, Send
<1>2. /\ asked' \in Seq(Kinds) /\ Len(asked') = Len(asked) + 1
      /\ \A k \in 1..Len(asked) : asked'[k] = asked[k]
  BY <1>1, AppendProperties DEF Send
<1>3. x \in Seq(Line)
  <2>1. Len(asked) + 1 \in Nat
    BY <1>1
  <2> QED BY <2>1, EncodedParts
<1>4. wire' = wire \o x /\ wire' \in Seq(Line)
  BY <1>1, <1>3, ConcatProperties DEF Send
<1>5. /\ UNCHANGED <<client, threadNum, fin, main, connection, thread>>
      /\ Runs
  BY DEF Send, Runs
<1>6. Stream' = Stream \o x
  <2> HIDE DEF x
  <2>1. input \o (wire \o x) = (input \o wire) \o x
    BY <1>1, <1>3, Regroup
  <2>2. Stream' = input \o (wire \o x)
    BY <1>4, <1>5 DEF Stream, connection
  <2> QED BY <2>1, <2>2 DEF Stream
<1>7. \A n \in 0..Len(asked) : Rest(asked', n) = Rest(asked, n) \o x
  BY <1>1, RestGrows DEF Send
<1>8. \A n \in 0..Len(asked) : Rest(asked, n) \in Seq(Line)
  BY <1>1, OwedType
<1>9. HttpType'
  <2>1. answered' \in Seq(1..Len(asked'))
    <3>1. 1..Len(asked) \subseteq 1..Len(asked')
      BY <1>1, <1>2
    <3>2. answered \in Seq(1..Len(asked'))
      BY <1>1, <3>1, SeqMonotonic
    <3> QED BY <1>5, <3>2 DEF connection
  <2>2. request' \in Requests(0..Len(asked'))
    <3>1. request \in Requests(0..Len(asked)) /\ request' = request
      BY <1>5 DEF connection, HttpInv, HttpType, TypeOK, Requests
    <3>2. 0..Len(asked) \subseteq 0..Len(asked')
      BY <1>1, <1>2
    <3> QED BY <3>1, <3>2, RequestsGrow
  <2>3. Len(asked') <= MaxRequests
    BY <1>1, <1>2, BoundsAssumption
  <2>4. /\ client' \in Clients /\ threadNum' \in ThreadNums
        /\ main' \in {"accept", "registered", "established"}
        /\ fin' \in BOOLEAN /\ data' \in BOOLEAN /\ httpServer' \in BOOLEAN /\ shut' \in BOOLEAN
        /\ thread' \in {"loop", "parse", "closed", "undefined", "killed"}
    BY <1>5 DEF connection, HttpInv, HttpType, TypeOK
  <2>5. input' \in Seq(Line) /\ Len(answered') <= Len(asked')
    BY <1>1, <1>2, <1>5 DEF connection
  <2> QED BY <1>2, <1>4, <2>1, <2>2, <2>3, <2>4, <2>5 DEF HttpType, TypeOK, Requests
<1>10. AnsweredInOrder' /\ PhaseOK'
  BY <1>5 DEF HttpInv, AnsweredInOrder, PhaseOK, connection
<1>11. ShutOK'
  <2>1. \A k \in DOMAIN answered : asked'[k] = asked[k]
    <3>1. \A k \in DOMAIN answered : k \in 1..Len(asked)
      BY <1>1
    <3> QED BY <1>2, <3>1
  <2>2. ShutOK /\ answered' = answered /\ shut' = shut
    BY <1>5 DEF HttpInv, connection
  <2> QED BY <2>1, <2>2 DEF ShutOK
<1>12. StreamOK'
  <2>1. /\ StreamOK /\ request' = request /\ Len(answered') = Len(answered)
        /\ Current' = Current
    BY <1>5 DEF HttpInv, connection, Current
  <2>2. CASE request.current_state \in {"NULL", "REQUEST_STATUS"}
    <3>1. Stream = Rest(asked, Len(answered)) /\ Len(answered) \in 0..Len(asked)
      BY <1>1, <2>1, <2>2 DEF StreamOK
    <3>2. Stream' = Rest(asked', Len(answered'))
      BY <1>6, <1>7, <2>1, <3>1
    <3> QED BY <2>1, <2>2, <3>2 DEF StreamOK
  <2>3. CASE request.current_state \in {"REQUEST_HEADERS", "REQUEST_DONE"}
    <3>1. StatusRead
      BY <2>1, <2>3 DEF StreamOK
    <3>2. Current \in 0..Len(asked) /\ Current \in 1..Len(asked)
      BY <1>1, <3>1 DEF StatusRead, Current
    <3>3. asked'[Current] = asked[Current]
      BY <1>2, <3>2
    <3>4. StatusRead'
      <4>1. Current <= Len(asked')
        BY <1>1, <1>2, <3>2
      <4> QED BY <2>1, <3>1, <3>3, <4>1 DEF StatusRead
    <3> DEFINE c == asked[Current].connection
    <3>5. HeadersOf(c) \in Seq(Line) /\ <<CRLF>> \in Seq(Line)
      <4>1. asked[Current] \in Kinds
        BY <1>1, <3>2, ElementOfSeq
      <4> QED BY <4>1, KindFields, HeadersParts, LineTypes
    <3>6. ASSUME NEW p \in Seq(Line), Stream = p \o Rest(asked, Current)
          PROVE  Stream' = p \o Rest(asked', Current)
      <4> DEFINE q == Rest(asked, Current)
      <4>1. q \in Seq(Line)
        BY <1>8, <3>2
      <4>2. Rest(asked', Current) = q \o x
        BY <1>7, <3>2
      <4>3. Stream' = (p \o q) \o x
        BY <1>6, <3>6
      <4> HIDE DEF q, x
      <4>4. (p \o q) \o x = p \o (q \o x)
        BY <1>3, <3>6, <4>1, Regroup
      <4> QED BY <4>2, <4>3, <4>4
    <3>7. CASE request.current_state = "REQUEST_HEADERS"
      <4>1. CASE request.connection = "none" /\ Stream = HeadersOf(c) \o Rest(asked, Current)
        <5>1. Stream' = HeadersOf(c) \o Rest(asked', Current)
          BY <3>5, <3>6, <4>1
        <5> QED BY <2>1, <3>3, <3>4, <3>7, <4>1, <5>1 DEF StreamOK
      <4>2. CASE request.connection = c /\ Stream = <<CRLF>> \o Rest(asked, Current)
        <5>1. Stream' = <<CRLF>> \o Rest(asked', Current)
          BY <3>5, <3>6, <4>2
        <5> QED BY <2>1, <3>3, <3>4, <3>7, <4>2, <5>1 DEF StreamOK
      <4> QED BY <2>1, <3>7, <4>1, <4>2 DEF StreamOK
    <3>8. CASE request.current_state = "REQUEST_DONE"
      <4>1. Stream' = Rest(asked', Current)
        BY <1>6, <1>7, <2>1, <3>2, <3>8 DEF StreamOK
      <4>2. request.connection = c
        BY <2>1, <3>8 DEF StreamOK
      <4> QED BY <2>1, <3>3, <3>4, <3>8, <4>1, <4>2 DEF StreamOK
    <3> QED BY <2>3, <3>7, <3>8
  <2>4. request.current_state \in {"NULL", "REQUEST_STATUS", "REQUEST_HEADERS", "REQUEST_DONE"}
    BY DEF HttpInv, HttpType, TypeOK
  <2> QED BY <2>2, <2>3, <2>4
<1> QED BY <1>9, <1>10, <1>11, <1>12 DEF HttpInv

LEMMA FinishStep ==
    ASSUME HttpInv, Finish
    PROVE  HttpInv'
<1>1. /\ UNCHANGED <<client, threadNum, asked, wire, main, data, httpServer, request,
                     input, answered, shut, thread>>
      /\ fin' \in BOOLEAN
  BY DEF Finish, connection
<1>2. HttpType'
  BY <1>1, Zenon DEF HttpInv, HttpType, TypeOK
<1>3. AnsweredInOrder' /\ PhaseOK' /\ (ShutOK' <=> ShutOK) /\ (Runs' <=> Runs)
  BY <1>1, Zenon DEF HttpInv, AnsweredInOrder, PhaseOK, Runs, ShutOK
<1>4. StreamOK' <=> StreamOK
  BY <1>1, Zenon DEF StreamOK, Stream, StatusRead, Current
<1> QED BY <1>2, <1>3, <1>4 DEF HttpInv

LEMMA tcp_connection_newStep ==
    ASSUME HttpInv, tcp_connection_new
    PROVE  HttpInv'
<1>1. /\ UNCHANGED <<client, threadNum, asked, fin, wire, data, httpServer, input,
                     answered, shut, thread>>
      /\ main = "accept" /\ main' = "registered"
      /\ request = NULL /\ request' = http_request_new
      /\ thread = "loop"
  BY Zenon DEF tcp_connection_new, environment, HttpInv, PhaseOK
<1>2. HttpType'
  <2>1. request' \in Requests(0..Len(asked'))
    <3>1. Len(asked') \in Nat
      BY <1>1, LenProperties DEF HttpInv, HttpType, TypeOK
    <3> QED BY <1>1, <3>1, NewRequests
  <2>2. main' \in {"accept", "registered", "established"}
    BY <1>1
  <2> QED BY <1>1, <2>1, <2>2, Zenon DEF HttpInv, HttpType, TypeOK, Requests
<1>3. request.current_state = "NULL" /\ request'.current_state = "REQUEST_STATUS"
  BY <1>1, NewRequests
<1>4. AnsweredInOrder' /\ (ShutOK' <=> ShutOK) /\ (Runs' <=> Runs)
  BY <1>1, Zenon DEF HttpInv, AnsweredInOrder, Runs, ShutOK
<1>5. PhaseOK'
  BY <1>1, <1>3 DEF PhaseOK
<1>6. StreamOK => StreamOK'
  BY <1>1, <1>3 DEF StreamOK, Stream
<1> QED BY <1>2, <1>4, <1>5, <1>6 DEF HttpInv

LEMMA set_connection_dataStep ==
    ASSUME HttpInv, set_connection_data
    PROVE  HttpInv'
<1>1. /\ UNCHANGED <<client, threadNum, asked, fin, wire, request, input, answered, shut, thread>>
      /\ main = "registered" /\ main' = "established" /\ data' = TRUE /\ httpServer' = httpServer
  BY DEF set_connection_data, environment
<1>2. HttpType'
  <2>1. main' \in {"accept", "registered", "established"} /\ data' \in BOOLEAN
    BY <1>1
  <2>2. httpServer' \in BOOLEAN
    BY <1>1, Zenon DEF HttpInv, HttpType, TypeOK
  <2> QED BY <1>1, <2>1, <2>2, Zenon DEF HttpInv, HttpType, TypeOK
<1>3. AnsweredInOrder' /\ (ShutOK' <=> ShutOK) /\ (Runs' <=> Runs)
  BY <1>1, Zenon DEF HttpInv, AnsweredInOrder, Runs, ShutOK
<1>4. PhaseOK'
  BY <1>1 DEF HttpInv, PhaseOK
<1>5. StreamOK' <=> StreamOK
  BY <1>1, Zenon DEF StreamOK, Stream, StatusRead, Current
<1> QED BY <1>2, <1>3, <1>4, <1>5 DEF HttpInv

-----------------------------------------------------------------------------
(* The steps of the loop's thread.                                         *)

LEMMA epoll_errorStep ==
    ASSUME HttpInv, epoll_error
    PROVE  HttpInv'
<1>1. /\ UNCHANGED <<client, threadNum, asked, fin, wire, main, data, httpServer, request,
                     input, answered,
                     shut>>
      /\ thread' = "closed"
  BY DEF epoll_error, environment, connection
<1>2. main # "accept"
  BY DEF epoll_error, MayRun
<1>3. HttpType'
  <2>1. thread' \in {"loop", "parse", "closed", "undefined", "killed"}
    BY <1>1
  <2> QED BY <1>1, <2>1, Zenon DEF HttpInv, HttpType, TypeOK
<1>4. AnsweredInOrder' /\ ~ Runs'
  BY <1>1 DEF HttpInv, AnsweredInOrder, Runs
<1>5. PhaseOK'
  BY <1>1, <1>2 DEF HttpInv, PhaseOK
<1> QED BY <1>3, <1>4, <1>5 DEF HttpInv

LEMMA http_onConnectionClosedStep ==
    ASSUME HttpInv, http_onConnectionClosed
    PROVE  HttpInv'
<1>1. /\ UNCHANGED <<client, threadNum, asked, fin, wire, main, data, httpServer, input,
                     answered, shut>>
      /\ request' = NULL /\ thread' = "closed"
  BY DEF http_onConnectionClosed, environment
<1>2. main # "accept"
  BY DEF http_onConnectionClosed, MayRun
<1>3. HttpType'
  <2>1. request' \in Requests(0..Len(asked'))
    <3>1. Len(asked') \in Nat
      BY <1>1, LenProperties DEF HttpInv, HttpType, TypeOK
    <3> QED BY <1>1, <3>1, NewRequests
  <2>2. thread' \in {"loop", "parse", "closed", "undefined", "killed"}
    BY <1>1
  <2> QED BY <1>1, <2>1, <2>2, Zenon DEF HttpInv, HttpType, TypeOK, Requests
<1>4. AnsweredInOrder' /\ ~ Runs'
  BY <1>1 DEF HttpInv, AnsweredInOrder, Runs
<1>5. PhaseOK'
  BY <1>1, <1>2, NewRequests DEF PhaseOK
<1> QED BY <1>3, <1>4, <1>5 DEF HttpInv

\* What arrives leaves the wire and is at the end of the buffer.
LEMMA handle_readStep ==
    ASSUME HttpInv, handle_read
    PROVE  HttpInv'
<1>1. /\ UNCHANGED <<client, threadNum, asked, fin, main, data, request, answered, shut>>
      /\ thread = "loop" /\ thread' = "parse" /\ httpServer' = data
  BY DEF handle_read, environment
<1>2. main # "accept"
  BY DEF handle_read, MayRun
<1>3. request.current_state = "REQUEST_STATUS"
  BY <1>1, <1>2 DEF HttpInv, PhaseOK
<1>4. PICK n \in 1..Len(wire) : /\ input' = input \o SubSeq(wire, 1, n)
                                /\ wire' = SubSeq(wire, n + 1, Len(wire))
  BY DEF handle_read
<1>5. input \in Seq(Line) /\ wire \in Seq(Line) /\ Len(wire) \in Nat
  BY LenProperties DEF HttpInv, HttpType
<1> DEFINE front == SubSeq(wire, 1, n)
           back == SubSeq(wire, n + 1, Len(wire))
<1>6. front \in Seq(Line) /\ back \in Seq(Line) /\ wire = front \o back
  BY <1>5, SplitAt
<1> HIDE DEF front, back
<1>7. input' = input \o front /\ wire' = back
  BY <1>4 DEF front, back
<1>8. input' \in Seq(Line) /\ wire' \in Seq(Line)
  BY <1>5, <1>6, <1>7, ConcatProperties
<1>9. Stream' = Stream
  <2>1. (input \o front) \o back = input \o (front \o back)
    BY <1>5, <1>6, Regroup
  <2> QED BY <1>6, <1>7, <2>1 DEF Stream
<1>10. HttpType'
  <2>1. thread' \in {"loop", "parse", "closed", "undefined", "killed"}
    BY <1>1
  <2>2. httpServer' \in BOOLEAN
    BY <1>1, Zenon DEF HttpInv, HttpType, TypeOK
  <2> QED BY <1>1, <1>8, <2>1, <2>2, Zenon DEF HttpInv, HttpType, TypeOK
<1>11. AnsweredInOrder' /\ (ShutOK' <=> ShutOK) /\ Runs
  BY <1>1 DEF HttpInv, AnsweredInOrder, ShutOK, Runs
<1>12. PhaseOK'
  BY <1>1, <1>2, <1>3 DEF HttpInv, PhaseOK
<1>13. StreamOK => StreamOK'
  BY <1>1, <1>3, <1>9 DEF StreamOK
<1> QED BY <1>10, <1>11, <1>12, <1>13 DEF HttpInv

\* A turn of the parser that takes a line, and changes the fields of the
\* request: what its proof has to show of the new stream.
LEMMA ParsedInv ==
    ASSUME HttpInv, thread = "parse",
           request' \in Requests(0..Len(asked)),
           request'.current_state \in {"REQUEST_HEADERS", "REQUEST_DONE"},
           input' \in Seq(Line),
           UNCHANGED <<environment, wire, main, data, httpServer, answered, shut, thread>>,
           StreamOK'
    PROVE  HttpInv'
<1>1. UNCHANGED <<client, threadNum, asked, fin, wire, main, data, httpServer, answered, shut,
                  thread>>
  BY DEF environment
<1>2. HttpType'
  BY <1>1, Zenon DEF HttpInv, HttpType, TypeOK, Requests
<1>3. Runs /\ AnsweredInOrder' /\ (ShutOK' <=> ShutOK)
  BY <1>1 DEF HttpInv, AnsweredInOrder, ShutOK, Runs
<1>4. PhaseOK'
  BY <1>1 DEF HttpInv, PhaseOK
<1> QED BY <1>2, <1>3, <1>4 DEF HttpInv

\* The stream starts with the status line of the current request: there is
\* one if anything is left of the stream.
LEMMA process_status_lineStep ==
    ASSUME HttpInv, process_status_line
    PROVE  HttpInv'
<1>1. /\ thread = "parse" /\ request.current_state = "REQUEST_STATUS"
      /\ UNCHANGED <<environment, wire, main, data, httpServer, answered, shut, thread>>
      /\ asked' = asked /\ wire' = wire /\ answered' = answered
  BY DEF process_status_line, Parsing, environment
<1>2. PICK k \in DOMAIN input :
        /\ FirstCRLF(k)
        /\ request' = [request EXCEPT !.url = input[1].url, !.version = input[1].value,
                                      !.current_state = "REQUEST_HEADERS"]
        /\ input' = Consumed(k)
  BY DEF process_status_line
<1>3. /\ asked \in Seq(Kinds) /\ Len(asked) \in Nat /\ Len(answered) \in Nat
      /\ Len(answered) <= Len(asked) /\ input \in Seq(Line) /\ wire \in Seq(Line)
      /\ request \in Requests(0..Len(asked))
  BY LenProperties DEF HttpInv, HttpType, TypeOK, Requests
<1>4. Stream = Rest(asked, Len(answered)) /\ request = http_request_new
  BY <1>1 DEF HttpInv, Runs, StreamOK, PhaseOK
<1>5. Len(answered) < Len(asked)
  <2>1. ASSUME Len(answered) = Len(asked) PROVE FALSE
    <3>1. input \o wire = <<>>
      BY <1>3, <1>4, <2>1, RestEnds DEF Stream
    <3>2. Len(input) + Len(wire) = 0 /\ Len(input) \in Nat /\ Len(wire) \in Nat
      <4>1. Len(input \o wire) = Len(input) + Len(wire)
        BY <1>3, ConcatProperties
      <4>2. Len(<<>>) = 0
        OBVIOUS
      <4> QED BY <1>3, <3>1, <4>1, <4>2, LenProperties
    <3>3. Len(input) = 0 /\ k \in 1..Len(input)
      BY <1>3, <3>2, LenProperties
    <3> QED BY <3>3
  <2> QED BY <1>3, <2>1
<1> DEFINE r == asked[Current]
           l == StatusLine(Current, r.version)
           headers == HeadersOf(r.connection)
           rest == Rest(asked, Current)
<1>6. Current \in 1..Len(asked) /\ Current \in Nat
  BY <1>3, <1>5 DEF Current
<1>7. r \in Kinds /\ r.version \in Versions
  BY <1>3, <1>6, ElementOfSeq, KindFields
<1>8. /\ l \in Line /\ l # CRLF /\ l.url = Current /\ l.value = r.version
      /\ <<l, CRLF>> \in Seq(Line) /\ headers \in Seq(Line) /\ rest \in Seq(Line)
      /\ Encoded(Current, r) = <<l, CRLF>> \o headers
  <2>1. l \in Line /\ l # CRLF /\ l.url = Current /\ l.value = r.version
    BY <1>6, <1>7, LineTypes DEF StatusLine
  <2>2. /\ <<l, CRLF>> \in Seq(Line) /\ headers \in Seq(Line)
        /\ Encoded(Current, r) = <<l, CRLF>> \o headers
    BY <1>6, <1>7, EncodedParts
  <2>3. rest \in Seq(Line)
    BY <1>3, <1>6, OwedType
  <2> QED BY <2>1, <2>2, <2>3
<1>9. Stream = Encoded(Current, r) \o rest
  BY <1>3, <1>4, <1>5, RestSteps DEF Current
<1> HIDE DEF l, headers, rest
<1>10. Stream = <<l, CRLF>> \o (headers \o rest) /\ headers \o rest \in Seq(Line)
  <2> DEFINE p == <<l, CRLF>>
  <2>1. p \in Seq(Line) /\ Stream = (p \o headers) \o rest
    BY <1>8, <1>9
  <2> HIDE DEF p
  <2>2. (p \o headers) \o rest = p \o (headers \o rest)
    BY <1>8, <2>1, Regroup
  <2>3. headers \o rest \in Seq(Line)
    BY <1>8, ConcatProperties
  <2> QED BY <2>1, <2>2, <2>3 DEF p
<1>11. input[1] = l /\ input' \in Seq(Line) /\ input' \o wire = headers \o rest
  BY <1>2, <1>3, <1>8, <1>10, TakesLine
<1>12. /\ request'.url = Current /\ request'.version = r.version
       /\ request'.connection = "none" /\ request'.current_state = "REQUEST_HEADERS"
       /\ request' \in Requests(0..Len(asked))
  <2>1. request.connection = "none"
    BY <1>4 DEF http_request_new
  <2>2. input[1].url = Current /\ input[1].value = r.version /\ Current \in 0..Len(asked)
    BY <1>6, <1>8, <1>11
  <2> QED BY <1>2, <1>3, <1>7, <2>1, <2>2 DEF Requests
<1>13. StreamOK'
  <2>1. Current' = Current
    BY <1>1 DEF Current
  <2>2. StatusRead'
    BY <1>1, <1>3, <1>6, <1>12, <2>1 DEF StatusRead
  <2>3. Stream' = HeadersOf(asked'[Current'].connection) \o Rest(asked', Current')
    BY <1>1, <1>11, <2>1 DEF Stream, headers, rest
  <2> QED BY <1>12, <2>2, <2>3 DEF StreamOK
<1> QED BY <1>1, <1>11, <1>12, <1>13, ParsedInv

\* What the two turns below share: the stream and the request between the
\* status line and the empty line.
LEMMA HeadersRead ==
    ASSUME HttpInv, Parsing("REQUEST_HEADERS")
    PROVE  /\ thread = "parse"
           /\ asked \in Seq(Kinds) /\ Len(asked) \in Nat
           /\ input \in Seq(Line) /\ wire \in Seq(Line)
           /\ request \in Requests(0..Len(asked)) /\ StatusRead
           /\ Current \in 1..Len(asked)
           /\ asked[Current].connection \in {"none", "close", "keep"}
           /\ Rest(asked, Current) \in Seq(Line)
           /\ \/ /\ request.connection = "none" /\ asked[Current].connection # "none"
                 /\ Stream = <<HeaderLine(asked[Current].connection), CRLF>>
                                \o (<<CRLF>> \o Rest(asked, Current))
              \/ /\ request.connection = asked[Current].connection
                 /\ Stream = <<CRLF>> \o Rest(asked, Current)
<1>1. thread = "parse" /\ request.current_state = "REQUEST_HEADERS"
  BY DEF Parsing
<1>2. /\ asked \in Seq(Kinds) /\ Len(asked) \in Nat /\ Len(answered) \in Nat
      /\ input \in Seq(Line) /\ wire \in Seq(Line) /\ request \in Requests(0..Len(asked))
  BY LenProperties DEF HttpInv, HttpType, TypeOK, Requests
<1>3. StreamOK /\ StatusRead
  BY <1>1 DEF HttpInv, Runs, StreamOK
<1>4. Current \in 1..Len(asked)
  BY <1>2, <1>3 DEF StatusRead, Current
<1> DEFINE c == asked[Current].connection
           rest == Rest(asked, Current)
<1>5. c \in {"none", "close", "keep"} /\ rest \in Seq(Line)
  <2>1. asked[Current] \in Kinds /\ Current \in 0..Len(asked)
    BY <1>2, <1>4, ElementOfSeq
  <2> QED BY <1>2, <2>1, KindFields, OwedType
<1>6. \/ request.connection = "none" /\ Stream = HeadersOf(c) \o rest
      \/ request.connection = c /\ Stream = <<CRLF>> \o rest
  BY <1>1, <1>3 DEF StreamOK
<1>7. \/ /\ request.connection = "none" /\ c # "none"
         /\ Stream = <<HeaderLine(c), CRLF>> \o (<<CRLF>> \o rest)
      \/ request.connection = c /\ Stream = <<CRLF>> \o rest
  <2> HIDE DEF c, rest
  <2>1. CASE request.connection = "none" /\ Stream = HeadersOf(c) \o rest /\ c # "none"
    <3> DEFINE p == <<HeaderLine(c), CRLF>>
               q == <<CRLF>>
    <3>1. p \in Seq(Line) /\ q \in Seq(Line)
      BY <1>5, LineTypes
    <3>2. Stream = (p \o q) \o rest
      BY <1>5, <2>1, HeadersParts
    <3> HIDE DEF p, q
    <3>3. (p \o q) \o rest = p \o (q \o rest)
      BY <1>5, <3>1, Regroup
    <3> QED BY <2>1, <3>2, <3>3 DEF p, q
  <2>2. CASE request.connection = "none" /\ Stream = HeadersOf(c) \o rest /\ c = "none"
    BY <1>5, <2>2, HeadersParts
  <2> QED BY <1>6, <2>1, <2>2
<1> QED BY <1>1, <1>2, <1>3, <1>4, <1>5, <1>7

\* The line is the Connection header: the empty line would be taken alone.
LEMMA parse_headerStep ==
    ASSUME HttpInv, parse_header
    PROVE  HttpInv'
<1>1. /\ Parsing("REQUEST_HEADERS") /\ request.current_state = "REQUEST_HEADERS"
      /\ UNCHANGED <<environment, wire, main, data, httpServer, answered, shut, thread>>
      /\ asked' = asked /\ wire' = wire /\ answered' = answered
  BY DEF parse_header, Parsing, environment
<1>2. PICK k \in DOMAIN input :
        /\ FirstCRLF(k) /\ k > 1
        /\ request' = http_request_add_header(request, input[1].value)
        /\ input' = Consumed(k)
  BY DEF parse_header
<1> DEFINE c == asked[Current].connection
           rest == Rest(asked, Current)
<1>3. /\ thread = "parse" /\ input \in Seq(Line) /\ wire \in Seq(Line)
      /\ request \in Requests(0..Len(asked)) /\ StatusRead
      /\ c \in {"none", "close", "keep"} /\ rest \in Seq(Line)
  BY <1>1, HeadersRead
<1>4. \/ /\ request.connection = "none" /\ c # "none"
         /\ Stream = <<HeaderLine(c), CRLF>> \o (<<CRLF>> \o rest)
      \/ Stream = <<CRLF>> \o rest
  BY <1>1, HeadersRead
<1> HIDE DEF c, rest
<1>5. Stream # <<CRLF>> \o rest
  <2>1. ASSUME Stream = <<CRLF>> \o rest PROVE k = 1
    BY <1>2, <1>3, <2>1, TakesLast
  <2> QED BY <1>2, <2>1
<1>6. /\ request.connection = "none" /\ c # "none"
      /\ Stream = <<HeaderLine(c), CRLF>> \o (<<CRLF>> \o rest)
  BY <1>4, <1>5
<1>7. input[1] = HeaderLine(c) /\ input' \in Seq(Line) /\ input' \o wire = <<CRLF>> \o rest
  <2>1. HeaderLine(c) \in Line /\ HeaderLine(c) # CRLF /\ <<CRLF>> \in Seq(Line)
    BY <1>3, LineTypes
  <2>2. <<CRLF>> \o rest \in Seq(Line)
    BY <1>3, <2>1, ConcatProperties
  <2> QED BY <1>2, <1>3, <1>6, <2>1, <2>2, TakesLine
<1>8. /\ request'.url = request.url /\ request'.version = request.version
      /\ request'.connection = c /\ request'.current_state = "REQUEST_HEADERS"
      /\ request' \in Requests(0..Len(asked))
  <2>1. input[1].value = c
    BY <1>7 DEF HeaderLine
  <2>2. request' = [request EXCEPT !.connection = c]
    BY <1>2, <1>6, <2>1 DEF http_request_add_header
  <2> QED BY <1>1, <1>3, <2>2 DEF Requests
<1>9. StreamOK'
  <2>1. Current' = Current
    BY <1>1 DEF Current
  <2>2. StatusRead'
    BY <1>1, <1>3, <1>8, <2>1 DEF StatusRead
  <2>3. /\ Stream' = <<CRLF>> \o Rest(asked', Current')
        /\ request'.connection = asked'[Current'].connection
    BY <1>1, <1>7, <1>8, <2>1 DEF Stream, c, rest
  <2> QED BY <1>8, <2>2, <2>3 DEF StreamOK
<1> QED BY <1>1, <1>3, <1>7, <1>8, <1>9, ParsedInv

LEMMA parse_lastStep ==
    ASSUME HttpInv, parse_last
    PROVE  HttpInv'
<1>1. /\ Parsing("REQUEST_HEADERS") /\ request.current_state = "REQUEST_HEADERS"
      /\ input # <<>> /\ FirstCRLF(1)
      /\ request' = [request EXCEPT !.current_state = "REQUEST_DONE"]
      /\ input' = Consumed(1)
      /\ UNCHANGED <<environment, wire, main, data, httpServer, answered, shut, thread>>
      /\ asked' = asked /\ wire' = wire /\ answered' = answered
  BY DEF parse_last, Parsing, environment
<1> DEFINE c == asked[Current].connection
           rest == Rest(asked, Current)
<1>2. /\ thread = "parse" /\ input \in Seq(Line) /\ wire \in Seq(Line)
      /\ request \in Requests(0..Len(asked)) /\ StatusRead
      /\ c \in {"none", "close", "keep"} /\ rest \in Seq(Line)
  BY <1>1, HeadersRead
<1>3. \/ Stream = <<HeaderLine(c), CRLF>> \o (<<CRLF>> \o rest)
      \/ request.connection = c /\ Stream = <<CRLF>> \o rest
  BY <1>1, HeadersRead
<1> HIDE DEF c, rest
<1>4. 1 \in DOMAIN input
  BY <1>1, <1>2, EmptySeq, LenProperties
<1>5. Stream # <<HeaderLine(c), CRLF>> \o (<<CRLF>> \o rest)
  <2>1. HeaderLine(c) \in Line /\ HeaderLine(c) # CRLF /\ <<CRLF>> \in Seq(Line)
    BY <1>2, LineTypes
  <2>2. <<CRLF>> \o rest \in Seq(Line)
    BY <1>2, <2>1, ConcatProperties
  <2>3. ~ 1 > 1
    OBVIOUS
  <2> QED BY <1>1, <1>2, <1>4, <2>1, <2>2, <2>3, TakesLine
<1>6. request.connection = c /\ Stream = <<CRLF>> \o rest
  BY <1>3, <1>5
<1>7. input' \in Seq(Line) /\ input' \o wire = rest
  BY <1>1, <1>2, <1>4, <1>6, TakesLast
<1>8. /\ request'.url = request.url /\ request'.version = request.version
      /\ request'.connection = c /\ request'.current_state = "REQUEST_DONE"
      /\ request' \in Requests(0..Len(asked))
  BY <1>1, <1>2, <1>6 DEF Requests
<1>9. StreamOK'
  <2>1. Current' = Current
    BY <1>1 DEF Current
  <2>2. StatusRead'
    BY <1>1, <1>2, <1>8, <2>1 DEF StatusRead
  <2>3. Stream' = Rest(asked', Current') /\ request'.connection = asked'[Current'].connection
    BY <1>1, <1>7, <1>8, <2>1 DEF Stream, c, rest
  <2> QED BY <1>8, <2>2, <2>3 DEF StreamOK
<1> QED BY <1>1, <1>2, <1>7, <1>8, <1>9, ParsedInv

\* The request that is answered is the current one, and what is left of the
\* stream are the requests after it.
LEMMA http_onMessageStep ==
    ASSUME HttpInv, http_onMessage
    PROVE  HttpInv'
<1>1. /\ thread = "parse" /\ request.current_state = "REQUEST_DONE"
      /\ UNCHANGED <<client, threadNum, asked, fin, wire, main, data, httpServer, input>>
  BY DEF http_onMessage, Parsing, environment, connection
<1>2. /\ StatusRead /\ request.connection = asked[Current].connection
      /\ Stream = Rest(asked, Current) /\ ShutOK /\ main # "accept"
  BY <1>1 DEF HttpInv, Runs, StreamOK, PhaseOK
<1>3. /\ asked \in Seq(Kinds) /\ Len(asked) \in Nat /\ Len(answered) \in Nat
      /\ answered \in Seq(1..Len(asked)) /\ Len(answered) <= Len(asked)
      /\ shut \in BOOLEAN
  BY LenProperties DEF HttpInv, HttpType, TypeOK
<1>4. CASE ~ httpServer \/ shut
  <2>1. UNCHANGED <<request, answered, shut>> /\ thread' \in {"undefined", "killed"}
    BY <1>4 DEF http_onMessage, connection
  <2>2. HttpType'
    <3>1. thread' \in {"loop", "parse", "closed", "undefined", "killed"}
      BY <2>1
    <3> QED BY <1>1, <2>1, <3>1, Zenon DEF HttpInv, HttpType, TypeOK
  <2>3. AnsweredInOrder' /\ ~ Runs' /\ PhaseOK'
    BY <1>1, <1>2, <2>1 DEF HttpInv, AnsweredInOrder, Runs, PhaseOK
  <2> QED BY <2>2, <2>3 DEF HttpInv
<1>5. CASE httpServer /\ ~ shut
  <2> DEFINE close == http_request_close_connection(request)
  <2>1. /\ answered' = Append(answered, request.url)
        /\ thread' = IF close = "undefined" THEN "undefined" ELSE "loop"
        /\ shut' = (close = "close")
        /\ request' = http_request_new
    BY <1>5 DEF http_onMessage, http_request_reset
  <2>2. close = "close" <=> asked[Current].connection = "close"
    BY <1>2 DEF http_request_close_connection
  <2> HIDE DEF close
  <2>3. request.url = Current /\ Current = Len(answered) + 1 /\ Current \in 1..Len(asked)
    BY <1>2, <1>3 DEF StatusRead, Current
  <2>4. /\ answered' \in Seq(1..Len(asked)) /\ Len(answered') = Current
        /\ \A k \in 1..Len(answered) : answered'[k] = answered[k]
        /\ answered'[Current] = Current
    BY <1>3, <2>1, <2>3, AppendProperties
  <2>5. HttpType'
    <3>1. request' \in Requests(0..Len(asked)) /\ thread' \in {"undefined", "loop"}
      BY <1>3, <2>1, NewRequests
    <3>2. Len(answered') <= Len(asked')
      BY <1>1, <2>3, <2>4
    <3>3. shut' \in BOOLEAN /\ thread' \in {"loop", "parse", "closed", "undefined", "killed"}
      BY <2>1, <3>1
    <3> QED BY <1>1, <2>4, <3>1, <3>2, <3>3, Zenon DEF HttpInv, HttpType, TypeOK, Requests
  <2>6. \A k \in DOMAIN answered' : k \in DOMAIN answered \/ k = Current
    BY <1>3, <2>3, <2>4
  <2>7. AnsweredInOrder'
    BY <1>3, <2>4, <2>6 DEF HttpInv, AnsweredInOrder
  <2>8. PhaseOK'
    BY <1>1, <1>2, <2>1, NewRequests DEF PhaseOK
  <2>9. ShutOK'
    <3>1. \A k \in DOMAIN answered : asked[k].connection # "close"
      BY <1>2, <1>5 DEF ShutOK
    <3>2. Current \in DOMAIN answered'
      BY <2>3, <2>4
    <3> QED BY <1>1, <2>1, <2>2, <2>6, <3>1, <3>2 DEF ShutOK
  <2>10. StreamOK'
    <3>1. Stream' = Rest(asked', Len(answered'))
      BY <1>1, <1>2, <2>4 DEF Stream
    <3> QED BY <2>1, <3>1, NewRequests DEF StreamOK
  <2> QED BY <2>5, <2>7, <2>8, <2>9, <2>10 DEF HttpInv
<1> QED BY <1>4, <1>5

-----------------------------------------------------------------------------
LEMMA StepHolds == HttpInv /\ [Next]_vars => HttpInv'
<1> SUFFICES ASSUME HttpInv, [Next]_vars PROVE HttpInv'
  OBVIOUS
<1>1. ASSUME NEW r \in Kinds, Send(r) PROVE HttpInv'
  BY <1>1, SendStep
<1>2. CASE Finish
  BY <1>2, FinishStep
<1>3. CASE Main
  BY <1>3, tcp_connection_newStep, set_connection_dataStep DEF Main
<1>4. CASE Loop
  BY <1>4, epoll_errorStep, handle_readStep, http_onConnectionClosedStep,
     process_status_lineStep, parse_headerStep, parse_lastStep, http_onMessageStep DEF Loop
<1>5. CASE UNCHANGED vars
  <2>1. UNCHANGED <<environment, wire, main, connection, thread>>
    BY <1>5 DEF vars
  <2>2. /\ UNCHANGED <<client, threadNum, asked, fin, wire, main, data, httpServer, request, input>>
        /\ UNCHANGED <<answered, shut, thread>>
    BY <2>1 DEF environment, connection
  <2>3. HttpType'
    BY <2>2, ZenonT(30) DEF HttpInv, HttpType, TypeOK
  <2>4. AnsweredInOrder' /\ PhaseOK' /\ (ShutOK' <=> ShutOK) /\ (Runs' <=> Runs)
    BY <2>2, Zenon DEF HttpInv, AnsweredInOrder, PhaseOK, Runs, ShutOK
  <2>5. StreamOK' <=> StreamOK
    BY <2>2, Zenon DEF StreamOK, Stream, StatusRead, Current
  <2> QED BY <2>3, <2>4, <2>5 DEF HttpInv
<1> QED BY <1>1, <1>2, <1>3, <1>4, <1>5 DEF Next

LEMMA HttpInvariant == Spec => []HttpInv
<1>1. HttpInv /\ [Next]_vars => HttpInv'
  BY StepHolds
<1> QED BY InitHolds, <1>1, PTL DEF Spec

-----------------------------------------------------------------------------
\* The states of the connection, the parser and the two threads are of the
\* types the code declares (http_request.h:9-24, http_server.c:86-140).
THEOREM TypeCorrect == Spec => []TypeOK
<1>1. HttpInv => TypeOK
  BY DEF HttpInv, HttpType
<1> QED BY <1>1, HttpInvariant, PTL

\* Responses go out in the order of the requests, one for each, however the
\* stream is cut into messages (http_server.c:41-116).
THEOREM Ordered == Spec => []AnsweredInOrder
<1>1. HttpInv => AnsweredInOrder
  BY DEF HttpInv
<1> QED BY <1>1, HttpInvariant, PTL

\* Between two messages what is buffered, or not read yet, is exactly the
\* requests that were not answered (http_server.c:41-84).
THEOREM Buffered == Spec => []UnansweredIsBuffered
<1>1. HttpInv => UnansweredIsBuffered
  <2> SUFFICES ASSUME HttpInv, thread = "loop"
               PROVE  Stream = Rest(asked, Len(answered))
    BY Zenon DEF UnansweredIsBuffered, Stream, Rest, Owed
  <2>1. StreamOK
    BY DEF HttpInv, Runs
  <2>2. request.current_state \in {"NULL", "REQUEST_STATUS"}
    <3>1. CASE main = "accept"
      BY <3>1, NewRequests DEF HttpInv, PhaseOK
    <3>2. CASE main # "accept"
      BY <3>2 DEF HttpInv, PhaseOK
    <3> QED BY <3>1, <3>2
  <2> QED BY <2>1, <2>2 DEF StreamOK
<1> QED BY <1>1, HttpInvariant, PTL

\* The connection is shut down if, and only if, an answered request asked
\* for it: no header outlives its request (http_request.c:36-82).
THEOREM ClosesRight == Spec => []ClosesAsAsked
<1>1. HttpInv => ClosesAsAsked
  BY DEF HttpInv, Runs, ShutOK, ClosesAsAsked
<1> QED BY <1>1, HttpInvariant, PTL
=============================================================================
