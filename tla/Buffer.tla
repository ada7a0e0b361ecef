------------------------------- MODULE Buffer -------------------------------
(***************************************************************************)
(* The buffer of a connection: an array in which the bytes between two     *)
(* indices are readable.  Room for more is what is left after them, or is  *)
(* made by moving them to the front, or by reallocating.  Translated from  *)
(* lib/buffer.c and from how lib/tcp_connection.c and lib/http_server.c    *)
(* advance the read index.  The array is a sequence: data[k + 1] is the    *)
(* byte at index k.                                                        *)
(***************************************************************************)
EXTENDS Integers, Sequences

CONSTANTS
    Byte,               \* the bytes told apart
    CR, LF,             \* two of them
    NoByte,             \* what memory holds before it is written
    INIT_BUFFER_SIZE,   \* of the buffer, and of socket_read's second array
    MaxChunk,           \* bound of what is appended at once
    MaxSize             \* bound of the buffer's growth

ASSUME ByteAssumption == CR \in Byte /\ LF \in Byte /\ CR # LF /\ NoByte \notin Byte
ASSUME SizeAssumption == INIT_BUFFER_SIZE \in Nat /\ MaxChunk \in Nat /\ MaxSize \in Nat

VARIABLES
    data, readIndex, writeIndex,    \* total_size is Len(data)
    passed                          \* the bytes appended or read last

vars == <<data, readIndex, writeIndex, passed>>

TypeOK ==
    /\ data \in Seq(Byte \cup {NoByte})
    /\ readIndex \in Nat /\ writeIndex \in Nat
    /\ readIndex <= writeIndex /\ writeIndex <= Len(data)
    /\ passed \in Seq(Byte)

Unwritten(n) == [k \in 1..n |-> NoByte]

\* buffer_new
Init ==
    /\ data = Unwritten(INIT_BUFFER_SIZE)
    /\ readIndex = 0 /\ writeIndex = 0
    /\ passed = <<>>

-----------------------------------------------------------------------------
(* A buffer as a value, for the operations that call each other.           *)

buffer == [data |-> data, readIndex |-> readIndex, writeIndex |-> writeIndex]

writeable(b) == Len(b.data) - b.writeIndex
readable(b) == b.writeIndex - b.readIndex
front_spare(b) == b.readIndex

\* The bytes are moved one by one, from the first on: none is overwritten
\* before it is moved.
Moved(b) ==
    [k \in DOMAIN b.data |-> IF k <= readable(b) THEN b.data[b.readIndex + k] ELSE b.data[k]]

\* Mutant: the indices are reset, the bytes stay.
MoveToFront_unmoved(b) == [b EXCEPT !.readIndex = 0, !.writeIndex = readable(b)]

MoveToFront(b) == [data |-> Moved(b), readIndex |-> 0, writeIndex |-> readable(b)]

Enlarge(b, size) ==
    [data |-> b.data \o Unwritten(size), readIndex |-> b.readIndex, writeIndex |-> b.writeIndex]

\* Mutant: nothing is ever moved.
make_room_eager(b, size) == IF writeable(b) >= size THEN b ELSE Enlarge(b, size)

make_room(b, size) ==
    IF writeable(b) >= size THEN b
    ELSE IF front_spare(b) + writeable(b) >= size THEN MoveToFront(b)
    ELSE Enlarge(b, size)

\* memcpy to the write index; past the end of the array it is lost.
Copied(b, s) ==
    [k \in DOMAIN b.data |->
        IF k - b.writeIndex \in DOMAIN s THEN s[k - b.writeIndex] ELSE b.data[k]]

Copy(b, s) ==
    [data |-> Copied(b, s), readIndex |-> b.readIndex, writeIndex |-> b.writeIndex + Len(s)]

append(b, s) == Copy(make_room(b, Len(s)), s)

Chunk == UNION {[1..n -> Byte] : n \in 1..MaxChunk}

Becomes(b) ==
    /\ Len(b.data) <= MaxSize
    /\ data' = b.data /\ readIndex' = b.readIndex /\ writeIndex' = b.writeIndex

-----------------------------------------------------------------------------
\* buffer_append, and buffer_append_string of a string that is not empty
buffer_append ==
    \E s \in Chunk : Becomes(append(buffer, s)) /\ passed' = s

buffer_append_char ==
    \E c \in Byte : Becomes(append(buffer, <<c>>)) /\ passed' = <<c>>

\* readv fills what is writeable and then a second array, whose bytes are
\* appended: one call reads all that fits in both.
buffer_socket_read ==
    \E s \in Chunk :
        LET fit == IF Len(s) <= writeable(buffer) THEN Len(s) ELSE writeable(buffer)
            filled == Copy(buffer, SubSeq(s, 1, fit))
            additional == SubSeq(s, fit + 1, Len(s))
        IN  /\ Len(additional) <= INIT_BUFFER_SIZE
            /\ Becomes(IF additional = <<>> THEN filled ELSE append(filled, additional))
            /\ passed' = s

\* Callers read no more than buffer_readable_size.
buffer_read_char ==
    /\ readIndex < writeIndex
    /\ passed' = <<data[readIndex + 1]>>
    /\ readIndex' = readIndex + 1
    /\ UNCHANGED <<data, writeIndex>>

\* handle_write, send_buffer and parse_http_request advance the read index.
advance ==
    \E n \in 1..readable(buffer) :
        readIndex' = readIndex + n /\ UNCHANGED <<data, writeIndex, passed>>

Next ==
    \/ buffer_append \/ buffer_append_char \/ buffer_socket_read
    \/ buffer_read_char \/ advance

Spec == Init /\ [][Next]_vars

-----------------------------------------------------------------------------
CRLFAt(k) == data[k + 1] = CR /\ data[k + 2] = LF

NotFound == -1

\* Mutant: the whole array is searched, as std::string::find does in
\* yolandapp/buffer.hpp.
SearchEnd_past == Len(data)

SearchEnd == writeIndex

\* memmem over the readable bytes: the first index, NULL if there is none
buffer_find_CRLF ==
    LET found == {k \in readIndex..SearchEnd - 2 : CRLFAt(k)}
    IN  IF found = {} THEN NotFound ELSE CHOOSE k \in found : \A j \in found : k <= j

-----------------------------------------------------------------------------
Contents == SubSeq(data, readIndex + 1, writeIndex)

Queue == INSTANCE ByteQueue WITH queue <- Contents

\* A buffer is a queue: no byte is lost, doubled, overtaken or made up when
\* the readable bytes are moved, the array grows or a read overflows it.
IsQueue == Queue!Spec

\* A line is only found when all of it has been received.
FindsReadable ==
    LET ends == {n \in 1..Len(Contents) - 1 : Contents[n] = CR /\ Contents[n + 1] = LF}
    IN  IF buffer_find_CRLF = NotFound THEN ends = {}
        ELSE /\ buffer_find_CRLF - readIndex + 1 \in ends
             /\ \A n \in ends : buffer_find_CRLF - readIndex + 1 <= n

\* The array only grows when the readable bytes and what is appended do not
\* fit in it wherever they are moved (buffer.c:39-51).
GrowsForNeed == [][Len(data') > Len(data) => Len(Contents') > Len(data)]_vars
=============================================================================
