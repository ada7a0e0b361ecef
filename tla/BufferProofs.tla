---------------------------- MODULE BufferProofs ----------------------------
(***************************************************************************)
(* A buffer of any size is a queue.  The invariant is that the indices are *)
(* in order and inside the array and that every byte between them has been *)
(* written; from it each operation is shown to change the readable bytes   *)
(* as the queue's operation does, whether it moves, enlarges or overflows. *)
(***************************************************************************)
EXTENDS Buffer, LibraryLemmas

USE ByteAssumption, SizeAssumption

Memory == Byte \cup {NoByte}

Valid(b) ==
    /\ b = [data |-> b.data, readIndex |-> b.readIndex, writeIndex |-> b.writeIndex]
    /\ b.data \in Seq(Memory)
    /\ b.readIndex \in Nat /\ b.writeIndex \in Nat
    /\ b.readIndex <= b.writeIndex /\ b.writeIndex <= Len(b.data)
    /\ \A k \in b.readIndex + 1..b.writeIndex : b.data[k] \in Byte

View(b) == SubSeq(b.data, b.readIndex + 1, b.writeIndex)

IInv == Valid(buffer) /\ passed \in Seq(Byte)

-----------------------------------------------------------------------------
LEMMA ViewProperties ==
    ASSUME NEW b, Valid(b)
    PROVE  /\ View(b) \in Seq(Byte) /\ Len(View(b)) = readable(b) /\ readable(b) \in Nat
           /\ \A k \in 1..readable(b) : View(b)[k] = b.data[b.readIndex + k]
<1>1. /\ b.readIndex \in Nat /\ b.writeIndex \in Nat /\ b.readIndex <= b.writeIndex
      /\ \A k \in b.readIndex + 1..b.writeIndex : b.data[k] \in Byte
  BY DEF Valid
<1>2. b.readIndex + 1 \in Int /\ b.writeIndex \in Int
  BY <1>1
<1>3. /\ View(b) \in Seq(Byte)
      /\ Len(View(b)) = IF b.readIndex + 1 <= b.writeIndex
                        THEN b.writeIndex - (b.readIndex + 1) + 1 ELSE 0
      /\ \A k \in 1..b.writeIndex - (b.readIndex + 1) + 1 :
              View(b)[k] = b.data[(b.readIndex + 1) + k - 1]
  BY <1>1, <1>2, SubSeqProperties DEF View
<1>4. Len(View(b)) = readable(b) /\ readable(b) \in Nat
  BY <1>1, <1>3 DEF readable
<1>5. ASSUME NEW k \in 1..readable(b) PROVE View(b)[k] = b.data[b.readIndex + k]
  <2>1. k \in 1..b.writeIndex - (b.readIndex + 1) + 1 /\ (b.readIndex + 1) + k - 1 = b.readIndex + k
    BY <1>1 DEF readable
  <2>2. View(b)[k] = b.data[(b.readIndex + 1) + k - 1]
    BY <1>3, <2>1
  <2>3. QED
    BY <2>1, <2>2
<1>6. QED
  BY <1>3, <1>4, <1>5

\* Two buffers with the same readable bytes have the same view.
LEMMA SameView ==
    ASSUME NEW b, NEW c, Valid(b), Valid(c), readable(b) = readable(c),
           \A k \in 1..readable(b) : c.data[c.readIndex + k] = b.data[b.readIndex + k]
    PROVE  View(c) = View(b)
<1>1. /\ View(b) \in Seq(Byte) /\ View(c) \in Seq(Byte)
      /\ Len(View(b)) = Len(View(c)) /\ Len(View(c)) = readable(b)
      /\ \A k \in 1..readable(b) : View(c)[k] = View(b)[k]
  BY ViewProperties
<1>2. QED
  BY <1>1, SeqEqual

LEMMA MoveKeepsView ==
    ASSUME NEW b, Valid(b)
    PROVE  /\ Valid(MoveToFront(b)) /\ View(MoveToFront(b)) = View(b)
           /\ writeable(MoveToFront(b)) = front_spare(b) + writeable(b)
<1> DEFINE c == MoveToFront(b)
<1>1. /\ c.data = Moved(b) /\ c.readIndex = 0 /\ c.writeIndex = readable(b)
      /\ c = [data |-> c.data, readIndex |-> c.readIndex, writeIndex |-> c.writeIndex]
  BY DEF MoveToFront
<1>2. /\ b.readIndex \in Nat /\ b.writeIndex \in Nat /\ b.readIndex <= b.writeIndex
      /\ b.writeIndex <= Len(b.data) /\ b.data \in Seq(Memory) /\ Len(b.data) \in Nat
      /\ \A k \in b.readIndex + 1..b.writeIndex : b.data[k] \in Byte
      /\ DOMAIN b.data = 1..Len(b.data) /\ \A k \in 1..Len(b.data) : b.data[k] \in Memory
      /\ readable(b) = b.writeIndex - b.readIndex
  BY LenProperties, ElementOfSeq DEF Valid, readable
<1>3. \A k \in 1..Len(b.data) : Moved(b)[k] =
          IF k <= readable(b) THEN b.data[b.readIndex + k] ELSE b.data[k]
  BY <1>2 DEF Moved
<1>4. Moved(b) \in [1..Len(b.data) -> Memory]
  <2>1. \A k \in 1..Len(b.data) : k <= readable(b) => b.readIndex + k \in 1..Len(b.data)
    BY <1>2
  <2>2. \A k \in 1..Len(b.data) :
            (IF k <= readable(b) THEN b.data[b.readIndex + k] ELSE b.data[k]) \in Memory
    BY <1>2, <2>1
  <2>3. QED
    BY <1>2, <2>2 DEF Moved
<1>5. Moved(b) \in Seq(Memory) /\ Len(Moved(b)) = Len(b.data)
  BY <1>2, <1>4
<1>6. \A k \in 1..readable(b) : Moved(b)[k] = b.data[b.readIndex + k] /\ Moved(b)[k] \in Byte
  <2> TAKE k \in 1..readable(b)
  <2>1. /\ k \in 1..Len(b.data) /\ k <= readable(b)
        /\ b.readIndex + k \in b.readIndex + 1..b.writeIndex
    BY <1>2
  <2>2. b.data[b.readIndex + k] \in Byte
    BY <1>2, <2>1
  <2>3. Moved(b)[k] = b.data[b.readIndex + k]
    BY <1>3, <2>1
  <2>4. QED
    BY <2>2, <2>3
<1>7. Valid(c)
  BY <1>1, <1>2, <1>5, <1>6 DEF Valid
<1>8. readable(c) = readable(b) /\ \A k \in 1..readable(b) : c.data[c.readIndex + k] = b.data[b.readIndex + k]
  BY <1>1, <1>2, <1>6 DEF readable
<1>9. View(c) = View(b)
  BY <1>7, <1>8, SameView
<1>10. QED
  BY <1>1, <1>2, <1>5, <1>7, <1>9 DEF writeable, front_spare

LEMMA Concatenation ==
    ASSUME NEW S, NEW s \in Seq(S), NEW t \in Seq(S)
    PROVE  /\ s \o t \in Seq(S) /\ Len(s \o t) = Len(s) + Len(t) /\ Len(s) \in Nat /\ Len(t) \in Nat
           /\ \A k \in 1..Len(s) : (s \o t)[k] = s[k]
           /\ \A k \in 1..Len(t) : (s \o t)[Len(s) + k] = t[k]
  OBVIOUS

LEMMA EnlargeKeepsView ==
    ASSUME NEW b, Valid(b), NEW n \in Nat
    PROVE  /\ Valid(Enlarge(b, n)) /\ View(Enlarge(b, n)) = View(b)
           /\ writeable(Enlarge(b, n)) = writeable(b) + n
<1> DEFINE c == Enlarge(b, n)
<1>1. b.data \in Seq(Memory)
  BY DEF Valid
<1>2. /\ c.data = b.data \o Unwritten(n) /\ c.readIndex = b.readIndex /\ c.writeIndex = b.writeIndex
      /\ c = [data |-> c.data, readIndex |-> c.readIndex, writeIndex |-> c.writeIndex]
  BY DEF Enlarge
<1>3. Unwritten(n) \in Seq(Memory) /\ Len(Unwritten(n)) = n
  BY DEF Unwritten, Memory
<1>4. /\ b.data \o Unwritten(n) \in Seq(Memory)
      /\ Len(b.data \o Unwritten(n)) = Len(b.data) + n
      /\ Len(b.data) \in Nat
      /\ \A k \in 1..Len(b.data) : (b.data \o Unwritten(n))[k] = b.data[k]
  <2> DEFINE u == Unwritten(n)  old == b.data
  <2>1. u \in Seq(Memory) /\ Len(u) = n /\ old \in Seq(Memory)
    BY <1>1, <1>3
  <2> HIDE DEF u, old
  <2>2. /\ old \o u \in Seq(Memory) /\ Len(old \o u) = Len(old) + Len(u) /\ Len(old) \in Nat
        /\ \A k \in 1..Len(old) : (old \o u)[k] = old[k]
    BY <2>1, Concatenation
  <2>3. QED
    BY <2>1, <2>2 DEF u, old
<1>5. Valid(c)
  BY <1>2, <1>4 DEF Valid
<1>6. readable(c) = readable(b)
  BY <1>2 DEF readable
<1>7. \A k \in 1..readable(b) : c.data[c.readIndex + k] = b.data[b.readIndex + k]
  BY <1>2, <1>4 DEF Valid, readable
<1>8. View(c) = View(b)
  BY <1>5, <1>6, <1>7, SameView
<1>9. b.writeIndex \in Nat
  BY DEF Valid
<1>10. QED
  BY <1>2, <1>4, <1>5, <1>8, <1>9 DEF writeable

\* Bytes copied where there is room for them are appended.
LEMMA CopyAppends ==
    ASSUME NEW b, Valid(b), NEW s \in Seq(Byte), Len(s) <= writeable(b)
    PROVE  Valid(Copy(b, s)) /\ View(Copy(b, s)) = View(b) \o s
<1> DEFINE c == Copy(b, s)
<1>1. /\ c.data = Copied(b, s) /\ c.readIndex = b.readIndex /\ c.writeIndex = b.writeIndex + Len(s)
      /\ c = [data |-> c.data, readIndex |-> c.readIndex, writeIndex |-> c.writeIndex]
  BY DEF Copy
<1>2. /\ b.readIndex \in Nat /\ b.writeIndex \in Nat /\ b.readIndex <= b.writeIndex
      /\ b.writeIndex <= Len(b.data) /\ b.data \in Seq(Memory) /\ Len(b.data) \in Nat
      /\ \A k \in b.readIndex + 1..b.writeIndex : b.data[k] \in Byte
      /\ DOMAIN b.data = 1..Len(b.data) /\ \A k \in 1..Len(b.data) : b.data[k] \in Memory
      /\ readable(b) = b.writeIndex - b.readIndex
  BY LenProperties, ElementOfSeq DEF Valid, readable
<1>3. /\ Len(s) \in Nat /\ DOMAIN s = 1..Len(s) /\ b.writeIndex + Len(s) <= Len(b.data)
      /\ \A k \in 1..Len(s) : s[k] \in Byte
  BY <1>2, LenProperties, ElementOfSeq DEF writeable
<1>4. ASSUME NEW k \in 1..Len(b.data)
      PROVE  /\ k <= b.writeIndex => Copied(b, s)[k] = b.data[k]
             /\ k > b.writeIndex /\ k <= b.writeIndex + Len(s) => Copied(b, s)[k] = s[k - b.writeIndex]
             /\ Copied(b, s)[k] \in Memory
  <2>1. Copied(b, s)[k] = IF k - b.writeIndex \in 1..Len(s) THEN s[k - b.writeIndex] ELSE b.data[k]
    BY <1>2, <1>3 DEF Copied
  <2>2. CASE k - b.writeIndex \in 1..Len(s)
    <3>1. Copied(b, s)[k] = s[k - b.writeIndex] /\ s[k - b.writeIndex] \in Byte /\ k > b.writeIndex
      BY <1>2, <1>3, <2>1, <2>2
    <3>2. QED
      BY <1>2, <3>1 DEF Memory
  <2>3. CASE k - b.writeIndex \notin 1..Len(s)
    <3>1. Copied(b, s)[k] = b.data[k] /\ b.data[k] \in Memory
      BY <1>2, <2>1, <2>3
    <3>2. ~(k > b.writeIndex /\ k <= b.writeIndex + Len(s))
      BY <1>2, <1>3, <2>3
    <3>3. QED
      BY <3>1, <3>2
  <2>4. QED
    BY <2>2, <2>3
<1>5. Copied(b, s) \in Seq(Memory) /\ Len(Copied(b, s)) = Len(b.data)
  <2>1. Copied(b, s) = [k \in 1..Len(b.data) |-> Copied(b, s)[k]]
    BY <1>2 DEF Copied
  <2>2. Copied(b, s) \in [1..Len(b.data) -> Memory]
    BY <1>4, <2>1
  <2>3. QED
    BY <1>2, <2>2
<1>6. ASSUME NEW k \in b.readIndex + 1..b.writeIndex + Len(s)
      PROVE  Copied(b, s)[k] \in Byte
  <2>1. k \in 1..Len(b.data)
    BY <1>2, <1>3
  <2>2. CASE k <= b.writeIndex
    BY <1>2, <1>4, <2>1, <2>2
  <2>3. CASE k > b.writeIndex
    <3>1. k - b.writeIndex \in 1..Len(s)
      BY <1>2, <1>3, <2>3
    <3>2. Copied(b, s)[k] = s[k - b.writeIndex]
      BY <1>4, <2>1, <2>3
    <3>3. QED
      BY <1>3, <3>1, <3>2
  <2>4. QED
    BY <1>2, <2>2, <2>3
<1>7. c.writeIndex \in Nat /\ c.readIndex <= c.writeIndex /\ c.writeIndex <= Len(c.data)
  BY <1>1, <1>2, <1>3, <1>5
<1>8. Valid(c)
  BY <1>1, <1>2, <1>5, <1>6, <1>7 DEF Valid
<1>9. /\ View(b) \in Seq(Byte) /\ Len(View(b)) = readable(b) /\ readable(b) \in Nat
      /\ \A k \in 1..readable(b) : View(b)[k] = b.data[b.readIndex + k]
      /\ View(c) \in Seq(Byte) /\ Len(View(c)) = readable(c)
      /\ \A k \in 1..readable(c) : View(c)[k] = c.data[c.readIndex + k]
  BY <1>8, ViewProperties
<1>10. readable(c) = readable(b) + Len(s)
  BY <1>1, <1>2, <1>3 DEF readable
<1> DEFINE q == View(b) \o s
<1>11. /\ q \in Seq(Byte) /\ Len(q) = readable(c)
       /\ \A k \in 1..readable(b) : q[k] = View(b)[k]
       /\ \A k \in 1..Len(s) : q[readable(b) + k] = s[k]
  BY <1>9, <1>10, Concatenation
<1>12. ASSUME NEW k \in 1..readable(c) PROVE View(c)[k] = q[k]
  <2>1. k \in Int /\ b.readIndex + k \in 1..Len(b.data)
    BY <1>2, <1>3, <1>10
  <2>2. View(c)[k] = Copied(b, s)[b.readIndex + k]
    BY <1>1, <1>9
  <2>3. CASE k <= readable(b)
    <3>1. b.readIndex + k <= b.writeIndex /\ k \in 1..readable(b)
      BY <1>2, <2>1, <2>3
    <3>2. QED
      BY <1>4, <1>9, <1>11, <2>1, <2>2, <3>1
  <2>4. CASE k > readable(b)
    <3> DEFINE j == k - readable(b)
    <3>1. /\ j \in 1..Len(s) /\ k = readable(b) + j /\ (b.readIndex + k) - b.writeIndex = j
          /\ b.readIndex + k > b.writeIndex /\ b.readIndex + k <= b.writeIndex + Len(s)
      <4>1. /\ b.readIndex \in Nat /\ b.writeIndex \in Nat /\ Len(s) \in Nat
            /\ readable(b) = b.writeIndex - b.readIndex /\ k <= readable(b) + Len(s) /\ k \in Int
        BY <1>2, <1>3, <1>10, <2>1
      <4>2. QED
        BY <2>4, <4>1
    <3>2. Copied(b, s)[b.readIndex + k] = s[(b.readIndex + k) - b.writeIndex]
      BY <1>4, <2>1, <3>1
    <3>3. q[k] = s[j]
      BY <1>11, <3>1
    <3>4. QED
      BY <2>2, <3>1, <3>2, <3>3
  <2>5. k <= readable(b) \/ k > readable(b)
    BY <1>9, <2>1
  <2>6. QED
    BY <2>3, <2>4, <2>5
<1>13. View(c) = q
  BY <1>9, <1>11, <1>12, SeqEqual
<1>14. QED
  BY <1>8, <1>13

\* Neither changes the size of the array.
LEMMA MoveKeepsLen ==
    ASSUME NEW b, Valid(b)
    PROVE  Len(MoveToFront(b).data) = Len(b.data)
<1>1. DOMAIN Moved(b) = DOMAIN b.data /\ MoveToFront(b).data = Moved(b)
  BY DEF Moved, MoveToFront
<1>2. b.data \in Seq(Memory) /\ MoveToFront(b).data \in Seq(Memory)
  BY MoveKeepsView DEF Valid
<1>3. QED
  BY <1>1, <1>2, LenProperties

LEMMA CopyKeepsLen ==
    ASSUME NEW b, Valid(b), NEW s \in Seq(Byte)
    PROVE  Len(Copy(b, s).data) = Len(b.data)
<1>1. Copy(b, s).data = Copied(b, s)
  BY DEF Copy
<1>2. Copied(b, s) \in Seq(Memory) /\ DOMAIN Copied(b, s) = DOMAIN b.data
  <2> DEFINE old == b.data  f == Copied(b, s)
  <2>1. /\ old \in Seq(Memory) /\ Len(old) \in Nat /\ DOMAIN old = 1..Len(old)
        /\ \A k \in 1..Len(old) : old[k] \in Memory
    BY LenProperties, ElementOfSeq DEF Valid
  <2>2. DOMAIN s = 1..Len(s) /\ \A k \in 1..Len(s) : s[k] \in Memory
    BY LenProperties, ElementOfSeq DEF Memory
  <2>3. f = [k \in 1..Len(old) |->
               IF k - b.writeIndex \in DOMAIN s THEN s[k - b.writeIndex] ELSE old[k]]
    BY <2>1 DEF Copied
  <2> HIDE DEF f, old
  <2>4. f \in [1..Len(old) -> Memory]
    BY <2>1, <2>2, <2>3
  <2>5. f \in Seq(Memory) /\ DOMAIN f = DOMAIN old
    BY <2>1, <2>4
  <2>6. QED
    BY <2>5 DEF f, old
<1>3. b.data \in Seq(Memory)
  BY DEF Valid
<1>4. QED
  BY <1>1, <1>2, <1>3, LenProperties

\* Whatever make_room does, it leaves room and the same readable bytes.
LEMMA RoomIsMade ==
    ASSUME NEW b, Valid(b), NEW n \in Nat
    PROVE  /\ Valid(make_room(b, n)) /\ View(make_room(b, n)) = View(b)
           /\ n <= writeable(make_room(b, n))
<1>1. writeable(b) \in Nat /\ front_spare(b) \in Nat
  BY LenProperties DEF Valid, writeable, front_spare
<1>2. CASE writeable(b) >= n
  BY <1>1, <1>2 DEF make_room
<1>3. CASE ~(writeable(b) >= n) /\ front_spare(b) + writeable(b) >= n
  <2>1. make_room(b, n) = MoveToFront(b)
    BY <1>3 DEF make_room
  <2>2. QED
    BY <1>1, <1>3, <2>1, MoveKeepsView
<1>4. CASE ~(writeable(b) >= n) /\ ~(front_spare(b) + writeable(b) >= n)
  <2>1. make_room(b, n) = Enlarge(b, n)
    BY <1>4 DEF make_room
  <2>2. QED
    BY <1>1, <2>1, EnlargeKeepsView
<1>5. QED
  BY <1>2, <1>3, <1>4

LEMMA AppendAppends ==
    ASSUME NEW b, Valid(b), NEW s \in Seq(Byte)
    PROVE  Valid(append(b, s)) /\ View(append(b, s)) = View(b) \o s
<1> DEFINE r == make_room(b, Len(s))
<1>1. Len(s) \in Nat
  BY LenProperties
<1>2. Valid(r) /\ View(r) = View(b) /\ Len(s) <= writeable(r)
  BY <1>1, RoomIsMade
<1> HIDE DEF r
<1>3. Valid(Copy(r, s)) /\ View(Copy(r, s)) = View(r) \o s
  BY <1>2, CopyAppends
<1>4. QED
  BY <1>2, <1>3 DEF append, r

LEMMA ChunkType == ASSUME NEW s \in Chunk PROVE s \in Seq(Byte)
<1>1. PICK n \in 1..MaxChunk : s \in [1..n -> Byte]
  BY DEF Chunk
<1>2. n \in Nat
  BY <1>1
<1>3. QED
  BY <1>1, <1>2

\* What an operation that ends in the buffer b does to the queue.
LEMMA BecomesView ==
    ASSUME NEW b, Valid(b), Becomes(b)
    PROVE  Valid(buffer)' /\ Contents' = View(b)
<1>1. /\ b = [data |-> b.data, readIndex |-> b.readIndex, writeIndex |-> b.writeIndex]
      /\ data' = b.data /\ readIndex' = b.readIndex /\ writeIndex' = b.writeIndex
  BY DEF Becomes, Valid
<1>2. buffer' = b
  BY <1>1 DEF buffer
<1>3. QED
  BY <1>1, <1>2 DEF Contents, View, Valid

LEMMA ContentsIsView == Contents = View(buffer)
  BY DEF Contents, View, buffer

-----------------------------------------------------------------------------
\* What every step of the buffer does to the queue.
QueueNext == Queue!Put \/ Queue!Read \/ Queue!Skip

LEMMA AppendedIsPut ==
    ASSUME NEW b, NEW s \in Seq(Byte), Valid(b), View(b) = Contents \o s, Becomes(b), passed' = s
    PROVE  IInv' /\ QueueNext
<1>1. Valid(buffer)' /\ Contents' = Contents \o s
  BY BecomesView
<1>2. QED
  BY <1>1 DEF IInv, QueueNext, Queue!Put

LEMMA AppendStep == ASSUME IInv, buffer_append \/ buffer_append_char PROVE IInv' /\ QueueNext
<1>1. PICK s \in Seq(Byte) : Becomes(append(buffer, s)) /\ passed' = s
  <2>1. \A c \in Byte : <<c>> \in Seq(Byte)
    OBVIOUS
  <2>2. QED
    BY <2>1, ChunkType DEF buffer_append, buffer_append_char
<1>2. Valid(append(buffer, s)) /\ View(append(buffer, s)) = Contents \o s
  BY AppendAppends, ContentsIsView DEF IInv
<1>3. QED
  BY <1>1, <1>2, AppendedIsPut

\* A read that fits, and one that overflows into the second array.
LEMMA ReadPuts ==
    ASSUME IInv, NEW first \in Seq(Byte), NEW rest \in Seq(Byte), NEW s \in Seq(Byte),
           s = first \o rest, Len(first) <= writeable(buffer), passed' = s,
           Becomes(IF rest = <<>> THEN Copy(buffer, first) ELSE append(Copy(buffer, first), rest))
    PROVE  IInv' /\ QueueNext
<1> DEFINE b == Copy(buffer, first)
<1>1. Valid(buffer) /\ Contents = View(buffer) /\ Contents \in Seq(Byte)
  BY ContentsIsView, ViewProperties DEF IInv
<1>2. Valid(b) /\ View(b) = Contents \o first
  BY <1>1, CopyAppends
<1> HIDE DEF b
<1>3. CASE rest = <<>>
  <2>1. s = first
    BY <1>3, ConcatEmptySeq
  <2>2. Becomes(b) /\ View(b) = Contents \o s
    BY <1>2, <1>3, <2>1 DEF b
  <2>3. QED
    BY <1>2, <2>2, AppendedIsPut
<1>4. CASE rest # <<>>
  <2>1. Valid(append(b, rest)) /\ View(append(b, rest)) = View(b) \o rest
    BY <1>2, AppendAppends
  <2>2. (Contents \o first) \o rest = Contents \o (first \o rest)
    BY <1>1, ConcatAssociative, SMTT(30)
  <2>3. View(append(b, rest)) = Contents \o s
    BY <1>2, <2>1, <2>2
  <2>4. Becomes(append(b, rest))
    BY <1>4 DEF b
  <2>5. QED
    BY <2>1, <2>3, <2>4, AppendedIsPut
<1>5. QED
  BY <1>3, <1>4

\* What is read is a part that fits and the rest, which may be empty.
LEMMA ReadParts ==
    ASSUME IInv, buffer_socket_read
    PROVE  \E first \in Seq(Byte), rest \in Seq(Byte) :
               /\ Len(first) <= writeable(buffer)
               /\ Becomes(IF rest = <<>> THEN Copy(buffer, first)
                          ELSE append(Copy(buffer, first), rest))
               /\ passed' = first \o rest
<1> DEFINE fit(s) == IF Len(s) <= writeable(buffer) THEN Len(s) ELSE writeable(buffer)
           first(s) == SubSeq(s, 1, fit(s))
           rest(s) == SubSeq(s, fit(s) + 1, Len(s))
<1>1. PICK s \in Chunk :
          /\ Becomes(IF rest(s) = <<>> THEN Copy(buffer, first(s))
                     ELSE append(Copy(buffer, first(s)), rest(s)))
          /\ passed' = s
  BY DEF buffer_socket_read
<1>2. s \in Seq(Byte) /\ Len(s) \in Nat /\ writeable(buffer) \in Nat
  BY ChunkType, LenProperties DEF IInv, Valid, writeable
<1>3. fit(s) \in Nat /\ fit(s) <= Len(s) /\ fit(s) <= writeable(buffer)
  BY <1>2
<1> HIDE DEF fit
<1>4. first(s) \in Seq(Byte) /\ Len(first(s)) = fit(s) /\ rest(s) \in Seq(Byte) /\ s = first(s) \o rest(s)
  <2>1. fit(s) \in 0..Len(s)
    BY <1>2, <1>3
  <2>2. QED
    BY <1>2, <2>1, SplitAt
<1> HIDE DEF first, rest
<1>5. QED
  BY <1>1, <1>3, <1>4

LEMMA ReadStep == ASSUME IInv, buffer_socket_read PROVE IInv' /\ QueueNext
<1>1. PICK first \in Seq(Byte), rest \in Seq(Byte) :
          /\ Len(first) <= writeable(buffer)
          /\ Becomes(IF rest = <<>> THEN Copy(buffer, first)
                     ELSE append(Copy(buffer, first), rest))
          /\ passed' = first \o rest
  BY ReadParts
<1>2. first \o rest \in Seq(Byte)
  BY ConcatProperties
<1>3. QED
  BY <1>1, <1>2, ReadPuts

\* Advancing the read index by n takes n bytes from the queue.
LEMMA AdvanceDrops ==
    ASSUME IInv, NEW n \in 1..readable(buffer),
           readIndex' = readIndex + n, UNCHANGED <<data, writeIndex>>
    PROVE  Valid(buffer)' /\ Contents' = SubSeq(Contents, n + 1, Len(Contents))
<1>1. /\ data \in Seq(Memory) /\ readIndex \in Nat /\ writeIndex \in Nat
      /\ readIndex <= writeIndex /\ writeIndex <= Len(data)
      /\ \A k \in readIndex + 1..writeIndex : data[k] \in Byte
      /\ readable(buffer) = writeIndex - readIndex
  BY DEF IInv, Valid, buffer, readable
<1>2. n \in Nat /\ readIndex + n \in Nat /\ readIndex + n <= writeIndex
  BY <1>1
<1>3. Valid(buffer)'
  BY <1>1, <1>2 DEF Valid, buffer
<1>4. /\ Contents \in Seq(Byte) /\ Len(Contents) = writeIndex - readIndex
      /\ \A k \in 1..writeIndex - readIndex : Contents[k] = data[readIndex + k]
  <2>1. Valid(buffer) /\ buffer.data = data /\ buffer.readIndex = readIndex
    BY DEF IInv, buffer
  <2>2. QED
    BY <1>1, <2>1, ViewProperties, ContentsIsView
<1> DEFINE t == SubSeq(Contents, n + 1, Len(Contents))  m == writeIndex - (readIndex + n)
<1>5. t \in Seq(Byte) /\ Len(t) = m /\ \A k \in 1..m : t[k] = data[(readIndex + n) + k]
  <2>1. \A k \in n + 1..Len(Contents) : Contents[k] \in Byte
    BY <1>2, <1>4, ElementOfSeq
  <2>2. n + 1 \in Int /\ Len(Contents) \in Int
    BY <1>1, <1>2, <1>4
  <2>3. /\ t \in Seq(Byte)
        /\ Len(t) = IF n + 1 <= Len(Contents) THEN Len(Contents) - (n + 1) + 1 ELSE 0
        /\ \A k \in 1..Len(Contents) - (n + 1) + 1 : t[k] = Contents[(n + 1) + k - 1]
    BY <2>1, <2>2, SubSeqProperties
  <2>4. Len(t) = m
    BY <1>1, <1>2, <1>4, <2>3
  <2>5. ASSUME NEW k \in 1..m PROVE t[k] = data[(readIndex + n) + k]
    <3>1. /\ k \in 1..Len(Contents) - (n + 1) + 1 /\ (n + 1) + k - 1 = n + k
          /\ n + k \in 1..writeIndex - readIndex /\ readIndex + (n + k) = (readIndex + n) + k
      BY <1>1, <1>2, <1>4
    <3>2. t[k] = Contents[n + k]
      BY <2>3, <3>1
    <3>3. Contents[n + k] = data[readIndex + (n + k)]
      BY <1>4, <3>1
    <3>4. QED
      BY <3>1, <3>2, <3>3
  <2>6. QED
    BY <2>3, <2>4, <2>5
<1>6. /\ Contents' \in Seq(Byte) /\ Len(Contents') = m
      /\ \A k \in 1..m : Contents'[k] = data[(readIndex + n) + k]
  <2> DEFINE c == [data |-> data, readIndex |-> readIndex + n, writeIndex |-> writeIndex]
  <2>1. Valid(c) /\ View(c) = Contents' /\ readable(c) = m
    BY <1>1, <1>2 DEF Valid, View, Contents, readable
  <2>2. c.data = data /\ c.readIndex = readIndex + n
    OBVIOUS
  <2> HIDE DEF c
  <2>3. QED
    BY <2>1, <2>2, ViewProperties
<1> HIDE DEF t, m
<1>7. Contents' = t
  BY <1>5, <1>6, SeqEqual
<1>8. QED
  BY <1>3, <1>7 DEF t

LEMMA ReadCharStep == ASSUME IInv, buffer_read_char PROVE IInv' /\ QueueNext
<1>1. /\ readIndex \in Nat /\ writeIndex \in Nat /\ readIndex < writeIndex
      /\ readable(buffer) = writeIndex - readIndex
      /\ data[readIndex + 1] \in Byte
  BY DEF IInv, Valid, buffer, readable, buffer_read_char
<1>2. 1 \in 1..readable(buffer) /\ readIndex' = readIndex + 1 /\ UNCHANGED <<data, writeIndex>>
  BY <1>1 DEF buffer_read_char
<1>3. Valid(buffer)' /\ Contents' = SubSeq(Contents, 1 + 1, Len(Contents))
  BY <1>2, AdvanceDrops
<1>4. /\ Contents \in Seq(Byte) /\ Len(Contents) = readable(buffer)
      /\ Contents[1] = data[readIndex + 1]
  <2>1. Valid(buffer) /\ buffer.data = data /\ buffer.readIndex = readIndex
    BY DEF IInv, buffer
  <2>2. QED
    BY <1>2, <2>1, ViewProperties, ContentsIsView
<1>5. Contents # <<>> /\ Tail(Contents) = SubSeq(Contents, 2, Len(Contents)) /\ Head(Contents) = Contents[1]
  BY <1>1, <1>4, EmptySeq, TailIsSubSeq
<1>6. passed' = <<Head(Contents)>> /\ passed' \in Seq(Byte)
  BY <1>1, <1>4, <1>5 DEF buffer_read_char
<1>7. QED
  BY <1>3, <1>5, <1>6 DEF IInv, QueueNext, Queue!Read

LEMMA AdvanceStep == ASSUME IInv, advance PROVE IInv' /\ QueueNext
<1>1. PICK n \in 1..readable(buffer) : readIndex' = readIndex + n /\ UNCHANGED <<data, writeIndex, passed>>
  BY DEF advance
<1>2. Valid(buffer)' /\ Contents' = SubSeq(Contents, n + 1, Len(Contents))
  BY <1>1, AdvanceDrops
<1>3. Len(Contents) = readable(buffer)
  BY ViewProperties, ContentsIsView DEF IInv
<1>4. QED
  BY <1>1, <1>2, <1>3 DEF IInv, QueueNext, Queue!Skip

-----------------------------------------------------------------------------
(* The array grows for need.                                               *)

\* append enlarges the array when what is readable and what is appended do
\* not fit in it: the bytes before the read index are used first.
LEMMA AppendGrows ==
    ASSUME NEW b, Valid(b), NEW s \in Seq(Byte)
    PROVE  Len(append(b, s).data) > Len(b.data) =>
               readable(b) + Len(s) > Len(b.data)
<1> DEFINE n == Len(s)
           r == make_room(b, n)
<1>1. /\ b.readIndex \in Nat /\ b.writeIndex \in Nat /\ b.data \in Seq(Memory)
      /\ Len(b.data) \in Nat /\ n \in Nat
  BY LenProperties DEF Valid
<1>2. Valid(r)
  BY <1>1, RoomIsMade
<1> HIDE DEF r
<1>3. Len(append(b, s).data) = Len(r.data)
  <2>1. append(b, s) = Copy(r, s)
    BY DEF append, r
  <2>2. QED
    BY <1>2, <2>1, CopyKeepsLen
<1>4. CASE front_spare(b) + writeable(b) >= n
  <2>1. r = b \/ r = MoveToFront(b)
    BY <1>4 DEF make_room, r
  <2>2. Len(r.data) = Len(b.data)
    BY <2>1, MoveKeepsLen
  <2>3. QED
    BY <1>1, <1>3, <2>2
<1>5. CASE ~ front_spare(b) + writeable(b) >= n
  BY <1>1, <1>5 DEF front_spare, writeable, readable
<1>6. QED
  BY <1>4, <1>5

LEMMA AppendedGrows ==
    ASSUME NEW b, NEW s \in Seq(Byte), Valid(b), Becomes(append(b, s)),
           Len(b.data) = Len(data)
    PROVE  Len(data') > Len(data) => Len(Contents') > Len(data)
<1>1. Valid(append(b, s)) /\ View(append(b, s)) = View(b) \o s
  BY AppendAppends
<1>2. Contents' = View(b) \o s /\ data' = append(b, s).data
  BY <1>1, BecomesView DEF Becomes
<1>3. View(b) \in Seq(Byte) /\ Len(View(b)) = readable(b)
  BY ViewProperties
<1>4. Len(View(b) \o s) = readable(b) + Len(s)
  BY <1>3, ConcatProperties
<1>5. Len(append(b, s).data) > Len(b.data) => readable(b) + Len(s) > Len(b.data)
  BY AppendGrows
<1>6. QED
  BY <1>2, <1>4, <1>5

LEMMA GrowthStep ==
    ASSUME IInv, [Next]_vars
    PROVE  Len(data') > Len(data) => Len(Contents') > Len(data)
<1>1. Valid(buffer) /\ buffer.data = data /\ Len(data) \in Nat
  BY LenProperties DEF IInv, Valid, buffer
<1>2. CASE buffer_append \/ buffer_append_char
  <2>1. PICK s \in Seq(Byte) : Becomes(append(buffer, s))
    <3>1. \A c \in Byte : <<c>> \in Seq(Byte)
      OBVIOUS
    <3>2. QED
      BY <1>2, <3>1, ChunkType DEF buffer_append, buffer_append_char
  <2>2. QED
    BY <1>1, <2>1, AppendedGrows
<1>3. CASE buffer_socket_read
  <2>1. PICK first \in Seq(Byte), rest \in Seq(Byte) :
            /\ Len(first) <= writeable(buffer)
            /\ Becomes(IF rest = <<>> THEN Copy(buffer, first)
                       ELSE append(Copy(buffer, first), rest))
    BY <1>3, ReadParts
  <2>2. Valid(Copy(buffer, first)) /\ Len(Copy(buffer, first).data) = Len(data)
    BY <1>1, <2>1, CopyAppends, CopyKeepsLen
  <2>3. CASE rest = <<>>
    <3>1. data' = Copy(buffer, first).data
      BY <2>1, <2>3 DEF Becomes
    <3>2. QED
      BY <1>1, <2>2, <3>1
  <2>4. CASE rest # <<>>
    BY <2>1, <2>2, <2>4, AppendedGrows
  <2>5. QED
    BY <2>3, <2>4
<1>4. CASE buffer_read_char \/ advance \/ UNCHANGED vars
  <2>1. data' = data
    BY <1>4 DEF buffer_read_char, advance, vars
  <2>2. QED
    BY <1>1, <2>1
<1>5. QED
  BY <1>2, <1>3, <1>4 DEF Next

-----------------------------------------------------------------------------
(* What buffer_find_CRLF finds.                                            *)

\* Where a line may end, counted from the read index, and where the search
\* finds that it does.
Ends == {n \in 1..Len(Contents) - 1 : Contents[n] = CR /\ Contents[n + 1] = LF}
Found == {k \in readIndex..SearchEnd - 2 : CRLFAt(k)}

LEMMA FoundIsEnds ==
    ASSUME IInv
    PROVE  /\ Found \subseteq Nat /\ readIndex \in Nat
           /\ \A k \in Found : k - readIndex + 1 \in Ends
           /\ \A n \in Ends : n \in Nat /\ readIndex + n - 1 \in Found
<1>1. readIndex \in Nat /\ writeIndex \in Nat /\ readIndex <= writeIndex
  BY DEF IInv, Valid, buffer
<1>2. /\ Len(Contents) = writeIndex - readIndex
      /\ \A n \in 1..writeIndex - readIndex : Contents[n] = data[readIndex + n]
  <2>1. /\ Valid(buffer) /\ buffer.data = data /\ buffer.readIndex = readIndex
        /\ readable(buffer) = writeIndex - readIndex
    BY DEF IInv, buffer, readable
  <2>2. QED
    BY <2>1, ViewProperties, ContentsIsView
<1>3. Found \subseteq Nat
  BY <1>1 DEF Found, SearchEnd
<1>4. ASSUME NEW k \in Found PROVE k - readIndex + 1 \in Ends
  <2>1. k \in readIndex..writeIndex - 2 /\ data[k + 1] = CR /\ data[k + 2] = LF
    BY DEF Found, SearchEnd, CRLFAt
  <2> DEFINE n == k - readIndex + 1
  <2>2. /\ n \in 1..(writeIndex - readIndex) - 1 /\ n + 1 \in 1..writeIndex - readIndex
        /\ n \in 1..writeIndex - readIndex
        /\ readIndex + n = k + 1 /\ readIndex + (n + 1) = k + 2
    BY <1>1, <2>1
  <2> HIDE DEF n
  <2>3. Contents[n] = CR /\ Contents[n + 1] = LF
    BY <1>2, <2>1, <2>2
  <2>4. n \in Ends
    BY <1>2, <2>2, <2>3 DEF Ends
  <2>5. QED
    BY <2>4 DEF n
<1>5. ASSUME NEW n \in Ends PROVE n \in Nat /\ readIndex + n - 1 \in Found
  <2>1. n \in 1..(writeIndex - readIndex) - 1 /\ Contents[n] = CR /\ Contents[n + 1] = LF
    BY <1>2 DEF Ends
  <2> DEFINE k == readIndex + n - 1
  <2>2. /\ k \in readIndex..writeIndex - 2
        /\ n \in 1..writeIndex - readIndex /\ n + 1 \in 1..writeIndex - readIndex
        /\ readIndex + n = k + 1 /\ readIndex + (n + 1) = k + 2
    BY <1>1, <2>1
  <2> HIDE DEF k
  <2>3. data[k + 1] = CR /\ data[k + 2] = LF
    BY <1>2, <2>1, <2>2
  <2>4. k \in Found
    BY <2>2, <2>3 DEF Found, SearchEnd, CRLFAt
  <2>5. QED
    BY <2>1, <2>4 DEF k
<1>6. QED
  BY <1>1, <1>3, <1>4, <1>5

LEMMA FirstIsFound == ASSUME IInv PROVE FindsReadable
<1>1. /\ Found \subseteq Nat /\ readIndex \in Nat
      /\ \A k \in Found : k - readIndex + 1 \in Ends
      /\ \A n \in Ends : n \in Nat /\ readIndex + n - 1 \in Found
  BY FoundIsEnds
<1> DEFINE first == buffer_find_CRLF
<1>2. first = IF Found = {} THEN NotFound ELSE CHOOSE k \in Found : \A j \in Found : k <= j
  BY DEF buffer_find_CRLF, Found
<1> HIDE DEF first
<1>3. CASE Found = {}
  <2>1. first = NotFound /\ Ends = {}
    BY <1>1, <1>2, <1>3
  <2>2. QED
    BY <2>1, Zenon DEF FindsReadable, first, Ends
<1>4. CASE Found # {}
  <2>1. \E k \in Found : \A j \in Found : k <= j
    BY <1>1, <1>4, LeastNatural
  <2>2. first \in Found /\ \A j \in Found : first <= j
    BY <1>2, <1>4, <2>1
  <2>3. first \in Nat /\ first # NotFound /\ first - readIndex + 1 \in Ends
    BY <1>1, <2>2 DEF NotFound
  <2>4. ASSUME NEW n \in Ends PROVE first - readIndex + 1 <= n
    <3>1. n \in Nat /\ first <= readIndex + n - 1
      BY <1>1, <2>2
    <3>2. QED
      BY <1>1, <2>3, <3>1
  <2>5. QED
    BY <2>3, <2>4, Zenon DEF FindsReadable, first, Ends
<1>5. QED
  BY <1>3, <1>4

-----------------------------------------------------------------------------
LEMMA InitQueue == ASSUME Init PROVE IInv /\ Queue!Init
<1>1. Unwritten(INIT_BUFFER_SIZE) \in Seq(Memory) /\ Len(Unwritten(INIT_BUFFER_SIZE)) = INIT_BUFFER_SIZE
  BY DEF Unwritten, Memory
<1>2. IInv
  BY <1>1 DEF Init, IInv, Valid, buffer
<1>3. Contents = <<>>
  BY SubSeqEmpty DEF Init, Contents
<1>4. QED
  BY <1>2, <1>3 DEF Init, Queue!Init

LEMMA NextQueue ==
    ASSUME IInv, [Next]_vars
    PROVE  IInv' /\ [QueueNext]_<<Contents, passed>>
<1>1. CASE Next
  BY <1>1, AppendStep, ReadStep, ReadCharStep, AdvanceStep DEF Next
<1>2. CASE UNCHANGED vars
  <2>1. UNCHANGED buffer /\ UNCHANGED passed /\ UNCHANGED Contents
    BY <1>2 DEF vars, buffer, Contents
  <2>2. QED
    BY <2>1 DEF IInv, Valid
<1>3. QED
  BY <1>1, <1>2

\* For arrays of every size and every bound on what is appended, the indices
\* of a buffer stay in order and inside the array (buffer.c:53-96).
THEOREM TypeCorrect == Spec => []TypeOK
<1>1. Init => IInv
  BY InitQueue
<1>2. IInv /\ [Next]_vars => IInv'
  BY NextQueue
<1>3. IInv => TypeOK
  BY DEF IInv, Valid, buffer, TypeOK, Memory
<1>4. QED
  BY <1>1, <1>2, <1>3, PTL DEF Spec

\* The buffer implements the queue: buffer_append, buffer_append_char and
\* buffer_socket_read put bytes at the end, buffer_read_char and the callers
\* that advance the read index take them from the front, and moving the
\* readable bytes or enlarging the array is invisible.
THEOREM QueueImplemented == Spec => IsQueue
<1>1. Init => IInv /\ Queue!Init
  BY InitQueue
<1>2. IInv /\ [Next]_vars => IInv' /\ [Queue!Next]_<<Contents, passed>>
  BY NextQueue DEF QueueNext, Queue!Next
<1>3. QED
  BY <1>1, <1>2, PTL DEF Spec, IsQueue, Queue!Spec

\* A line is found as soon as all of it has been received and never before,
\* and the first one is found, wherever the readable bytes are in the array
\* (buffer.c:108-111).
THEOREM LineFound == Spec => []FindsReadable
<1>1. Init => IInv
  BY InitQueue
<1>2. IInv /\ [Next]_vars => IInv'
  BY NextQueue
<1>3. IInv => FindsReadable
  BY FirstIsFound
<1>4. QED
  BY <1>1, <1>2, <1>3, PTL DEF Spec

\* The array only grows when what is readable and what is appended do not fit
\* in it, wherever they are moved (buffer.c:39-51).
THEOREM GrowthNeeded == Spec => GrowsForNeed
<1>1. Init => IInv
  BY InitQueue
<1>2. IInv /\ [Next]_vars => IInv'
  BY NextQueue
<1>3. IInv /\ [Next]_vars => [Len(data') > Len(data) => Len(Contents') > Len(data)]_vars
  BY GrowthStep
<1>4. QED
  BY <1>1, <1>2, <1>3, PTL DEF Spec, GrowsForNeed
=============================================================================
