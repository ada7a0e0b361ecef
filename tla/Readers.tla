------------------------------ MODULE Readers ------------------------------
(***************************************************************************)
(* The functions of lib/read.c that take records out of a stream: lines    *)
(* (readline, readline_2, read_line) and messages with a header            *)
(* (read_message, on readn).  A program calls one of them again and again  *)
(* and should get the records that were written, in whatever pieces the    *)
(* stream arrives.  A read that a signal interrupts is repeated, which is  *)
(* no step.                                                                *)
(***************************************************************************)
EXTENDS Integers, SequencesExt

CONSTANTS
    Functions,      \* the functions that are called
    Streams,        \* what the peer may write, for the readers of lines
    Messages,       \* and for read_message: sequences of texts
    Limit           \* the length of the caller's buffer

\* There is room for a byte and the 0 behind it.
LimitAssumption == Limit \in Nat \ {0, 1}
FunctionsAssumption ==
    Functions \subseteq {"readline", "readline_2", "read_line", "read_message"}

\* A stream has its own bytes; a text, which fgets has returned, has some.
TextsAssumption ==
    /\ \A s \in Streams : s \in Seq(Range(s))
    /\ Messages \subseteq Seq(Seq(Nat) \ {<<>>})

NL == "\n"
CR == "\r"

VARIABLES
    function,   \* the one that is called
    written,    \* what the peer writes: texts for read_message, else bytes
    stream,     \* the bytes of it
    arrived,    \* how many have arrived
    taken,      \* how many were read
    line,       \* what the call has put into its buffer
    field,      \* of a message: "length", "type" or "body"
    msg_length,
    records,    \* what the calls have returned
    status,     \* of the last call: "ok", "closed" (0) or "error" (-1)
    ahead       \* history: a call read bytes behind its line

vars == <<function, written, stream, arrived, taken, line, field, msg_length, records, status, ahead>>
call == <<line, field, msg_length, records, status, ahead>>

\* A u_int32_t, scaled down to two bytes, the high one first.
htonl(n) == <<n \div 256, n % 256>>
ntohl(s) == 256 * s[1] + s[2]
sizeof_u_int32_t == 2

\* The client writes the type, 1, in the order of its own machine.
message(text) == htonl(Len(text)) \o <<1, 0>> \o text

StreamInit ==
    \/ /\ function = "read_message"
       /\ written \in Messages
       /\ stream = FlattenSeq([k \in DOMAIN written |-> message(written[k])])
    \/ /\ function \in {"readline", "readline_2", "read_line"}
       /\ written \in Streams
       /\ stream = written

Init ==
    /\ StreamInit /\ function \in Functions
    /\ arrived = 0 /\ taken = 0
    /\ line = <<>> /\ field = "length" /\ msg_length = 0
    /\ records = <<>> /\ status = "ok" /\ ahead = FALSE

Unread == SubSeq(stream, taken + 1, arrived)
Eof == taken = Len(stream)      \* the peer closes behind its last byte

\* The stream arrives in any pieces.
arrive ==
    /\ status = "ok"
    /\ \E n \in arrived + 1..Len(stream) : arrived' = n
    /\ UNCHANGED <<function, written, stream, taken, call>>

Return(record) == records' = Append(records, record) /\ line' = <<>> /\ UNCHANGED status
Fail(result) == status' = result /\ UNCHANGED <<line, records>>
More(bytes) == line' = bytes /\ UNCHANGED <<records, status>>

-----------------------------------------------------------------------------
Feed(s) == SelectInSeq(s, LAMBDA b : b = NL)     \* the first, or 0

Buffer == line \o Unread

\* One recv of a call, and what the call takes of it; nleft is forgotten
\* when it returns, and what was received behind the line with it.
readline ==
    /\ taken' = arrived
    /\ \/ Eof /\ Fail("closed") /\ UNCHANGED ahead
       \/ /\ Unread # <<>>
          /\ \/ /\ Feed(Buffer) \in 1..Limit - 1
                /\ Return(SubSeq(Buffer, 1, Feed(Buffer)))
                /\ ahead' = (ahead \/ Len(Buffer) > Feed(Buffer))
             \/ /\ Feed(Buffer) \notin 1..Limit - 1
                /\ IF Len(Buffer) >= Limit - 1 THEN Fail("error") ELSE More(Buffer)
                /\ UNCHANGED ahead
    /\ UNCHANGED <<field, msg_length>>

\* One byte of a call; the end of the stream is an error.
readline_2 ==
    /\ \/ Eof /\ Fail("error") /\ UNCHANGED taken
       \/ /\ Unread # <<>>
          /\ taken' = taken + 1
          /\ LET buffer == Append(line, Head(Unread)) IN
             \/ Head(Unread) = NL /\ Return(buffer)
             \/ Head(Unread) # NL /\ (IF Len(buffer) = Limit THEN Fail("error") ELSE More(buffer))
    /\ UNCHANGED <<field, msg_length, ahead>>

\* One byte, or two: the byte behind a carriage return is waited for, and is
\* taken if it is a line feed.
read_line ==
    /\ \/ /\ Eof /\ UNCHANGED taken
          /\ IF line = <<>> THEN Fail("closed") ELSE Return(line)
       \/ /\ Unread # <<>>
          /\ LET c == Head(Unread)
                 pair == Len(Unread) > 1 /\ Unread[2] = NL
                 buf == Append(line, IF c = CR THEN NL ELSE c)
             IN
             /\ c = CR => Len(Unread) > 1 \/ taken + 1 = Len(stream)
             /\ taken' = taken + (IF c = CR /\ pair THEN 2 ELSE 1)
             /\ IF Last(buf) = NL \/ Len(buf) = Limit - 1 THEN Return(buf) ELSE More(buf)
    /\ UNCHANGED <<field, msg_length, ahead>>

-----------------------------------------------------------------------------
\* Mutant: length is not counted down.
Missing_all(size) == size

\* What readn still asks for.
Missing(size) == size - Len(line)

\* One read of readn, for the length, the type or the text.  The stream
\* that ends in any of them looks like its end between two messages, and so
\* does a length of 0.
read_message ==
    LET size == IF field = "body" THEN msg_length ELSE sizeof_u_int32_t
        buffer == line \o SubSeq(Unread, 1, Min({Missing(size), Len(Unread)}))
    IN
    /\ taken' = taken + Len(buffer) - Len(line)
    /\ \/ Eof /\ Fail("closed") /\ UNCHANGED <<field, msg_length>>
       \/ /\ Unread # <<>> /\ Len(buffer) < size
          /\ More(buffer) /\ UNCHANGED <<field, msg_length>>
       \/ /\ Len(buffer) >= size /\ field = "length"
          /\ More(<<>>) /\ field' = "type" /\ msg_length' = ntohl(buffer)
       \/ /\ Len(buffer) >= size /\ field = "type"
          /\ IF msg_length > Limit THEN Fail("error")
             ELSE IF msg_length = 0 THEN Fail("closed") ELSE More(<<>>)
          /\ field' = "body" /\ UNCHANGED msg_length
       \/ /\ Len(buffer) >= size /\ field = "body"
          /\ Return(buffer) /\ field' = "length" /\ UNCHANGED msg_length
    /\ UNCHANGED ahead

Read ==
    /\ status = "ok"
    /\ \/ function = "readline" /\ readline
       \/ function = "readline_2" /\ readline_2
       \/ function = "read_line" /\ read_line
       \/ function = "read_message" /\ read_message
    /\ UNCHANGED <<function, written, stream, arrived>>

Next == arrive \/ Read

-----------------------------------------------------------------------------
TypeOK ==
    /\ 0 <= taken /\ taken <= arrived /\ arrived <= Len(stream)
    /\ Len(line) <= Limit
    /\ field \in {"length", "type", "body"}
    /\ msg_length \in Nat
    /\ \A k \in DOMAIN records : records[k] # <<>> /\ Len(records[k]) <= Limit
    /\ status \in {"ok", "closed", "error"}
    /\ ahead \in BOOLEAN

\* What read_line makes of a stream: each end of a line is a line feed.
OneEnd(s) ==
    FlattenSeq([k \in DOMAIN s |->
        IF s[k] = NL /\ k > 1 /\ s[k - 1] = CR THEN <<>>
        ELSE IF s[k] = CR THEN <<NL>> ELSE <<s[k]>>])

Text == IF function = "read_line" THEN OneEnd(stream) ELSE stream
Returned == FlattenSeq(records)
Rest == SubSeq(Text, Len(Returned) + 1, Len(Text))

\* A record of a line ends where its line does; read_line may cut one that
\* is too long, and the last one.
IsLine(record) ==
    \/ Feed(record) = Len(record)
    \/ /\ function = "read_line" /\ Feed(record) = 0
       /\ Len(record) = Limit - 1 \/ Eof

\* In whatever pieces the stream comes, the calls return its lines or texts
\* one by one and in order, up to one that is too long, and at the end of
\* the stream none is missing; for readline this holds as long as no recv
\* brings more than the rest of a line, because what it brings is lost
\* (read.c:44-130).
RecordsIntact ==
    IF function = "read_message"
    THEN /\ IsPrefix(records, written)
         /\ status = "closed" => records = written
         /\ status = "error" =>
                \E k \in DOMAIN written : k = Len(records) + 1 /\ Len(written[k]) > Limit
    ELSE ahead \/ /\ IsPrefix(Returned \o line, Text)
                  /\ \A k \in DOMAIN records : IsLine(records[k])
                  /\ status = "closed" => Feed(Rest) = 0
                  /\ status = "error" => Feed(Rest) = 0 \/ Feed(Rest) >= Limit
=============================================================================
