------------------------ MODULE TcpConnectionProofs ------------------------
(***************************************************************************)
(* With a signed nwrited the bytes of a connection arrive intact and in    *)
(* order, and the write event is on exactly while bytes are buffered, for  *)
(* every socket buffer, every length of reply and whatever the cast of     *)
(* channel->data leads to.  The two facts need each other: send_data may   *)
(* only write past the output buffer because the buffer is empty then.     *)
(***************************************************************************)
EXTENDS TcpConnection, LibraryLemmas

USE BoundsAssumption, KindsAssumption

IInv == TypeOK /\ StreamIntact /\ WriteEventIffBuffered

Counts(s) == \A k \in DOMAIN s : s[k] = k

-----------------------------------------------------------------------------
(* Sequences of numbered bytes.                                            *)

LEMMA CountsConcat ==
    ASSUME NEW s \in Seq(Nat), NEW t \in Seq(Nat), Counts(s),
           \A k \in 1..Len(t) : t[k] = Len(s) + k
    PROVE  Counts(s \o t)
BY LenProperties, ConcatProperties DEF Counts

LEMMA CountsPrefix ==
    ASSUME NEW s \in Seq(Nat), NEW t \in Seq(Nat), Counts(s \o t)
    PROVE  Counts(s)
<1>1. \A k \in 1..Len(s) : (s \o t)[k] = s[k] /\ k \in DOMAIN (s \o t)
  BY LenProperties, ConcatProperties
<1>2. QED
  BY <1>1, LenProperties DEF Counts

LEMMA NumberedBytes ==
    ASSUME TypeOK, NEW n \in Nat
    PROVE  /\ Numbered(n) \in Seq(Nat) /\ Len(Numbered(n)) = n
           /\ \A k \in 1..n : Numbered(n)[k] = sent + k
<1>1. Numbered(n) \in [1..n -> Nat]
  BY DEF TypeOK, Numbered
<1>2. Numbered(n) \in Seq(Nat) /\ Len(Numbered(n)) = n
  BY <1>1
<1>3. QED
  BY <1>2 DEF Numbered

LEMMA Associative == \A x, y, z \in Seq(Nat) : (x \o y) \o z = x \o (y \o z)
BY ConcatAssociative, SMTT(30)

\* Concatenation under a name: the provers instantiate equations about it
\* that they do not find under their own encoding of sequences.
Cat(s, t) == s \o t
Bytes == Seq(Nat)
Whole(r, s, o) == Cat(Cat(r, s), o)

LEMMA CatLaws ==
    /\ \A x, y \in Bytes : Cat(x, y) \in Bytes
    /\ \A x, y, z \in Bytes : Cat(Cat(x, y), z) = Cat(x, Cat(y, z))
    /\ \A x \in Bytes : Cat(x, <<>>) = x /\ Cat(<<>>, x) = x
<1>1. \A x, y \in Bytes : Cat(x, y) \in Bytes
  BY ConcatProperties DEF Cat, Bytes
<1>2. \A x, y, z \in Bytes : Cat(Cat(x, y), z) = Cat(x, Cat(y, z))
  BY Associative DEF Cat, Bytes
<1>3. \A x \in Bytes : Cat(x, <<>>) = x /\ Cat(<<>>, x) = x
  BY ConcatEmptySeq DEF Cat, Bytes
<1>4. QED
  BY <1>1, <1>2, <1>3

\* Bytes written past an empty buffer, or buffered, come after the others.
LEMMA Regroup ==
    ASSUME NEW r \in Bytes, NEW s \in Bytes, NEW o \in Bytes,
           NEW a \in Bytes, NEW b \in Bytes, a = <<>> \/ o = <<>>
    PROVE  Whole(r, Cat(s, a), Cat(o, b)) = Cat(Whole(r, s, o), Cat(a, b))
<1>1. Cat(r, s) \in Bytes
  BY CatLaws
<1>2. CASE a = <<>>
  <2>1. Cat(s, a) = s /\ Cat(a, b) = b
    BY <1>2, CatLaws
  <2>2. Cat(Cat(Cat(r, s), o), b) = Cat(Cat(r, s), Cat(o, b))
    BY <1>1, CatLaws
  <2>3. QED
    BY <2>1, <2>2 DEF Whole
<1>3. CASE o = <<>>
  <2>1. Cat(o, b) = b /\ Cat(Cat(r, s), o) = Cat(r, s)
    BY <1>1, <1>3, CatLaws
  <2>2. Cat(r, Cat(s, a)) = Cat(Cat(r, s), a)
    BY CatLaws
  <2>3. Cat(Cat(Cat(r, s), a), b) = Cat(Cat(r, s), Cat(a, b))
    BY <1>1, CatLaws
  <2>4. QED
    BY <2>1, <2>2, <2>3 DEF Whole
<1>4. QED
  BY <1>2, <1>3

LEMMA Regrouped ==
    ASSUME NEW r \in Bytes, NEW s \in Bytes, NEW a \in Bytes, NEW b \in Bytes
    PROVE  Cat(Cat(r, Cat(s, a)), b) = Cat(Cat(r, s), Cat(a, b))
BY CatLaws

-----------------------------------------------------------------------------
(* tcp_connection_send_data.                                               *)

LEMMA WrittenRange ==
    ASSUME TypeOK, NEW n \in Nat
    PROVE  /\ Room \in Nat /\ Written(n) \in -1..n /\ Written(n) <= Room
           /\ peer # "reset" /\ n > 0 /\ Room > 0 => Written(n) > 0
<1>1. Len(sock) \in Nat /\ Len(sock) <= SockSize
  BY LenProperties DEF TypeOK
<1>2. QED
  BY <1>1 DEF Room, Written

\* What was sent goes to the socket and to the buffer, in this order, unless
\* a reset is found out or SIGPIPE raised.
LEMMA SendSplits ==
    ASSUME TypeOK, Signed, NEW n \in Nat, n > 0, send_data(n),
           ~(Direct /\ Broken), ~(Direct /\ peer = "reset")
    PROVE  \E a \in Seq(Nat), b \in Seq(Nat) :
              /\ a \o b = Numbered(n)
              /\ sock' = sock \o a /\ output' = output \o b
              /\ a = <<>> \/ output = <<>>
              /\ a = <<>> => b # <<>>
              /\ Len(a) <= Room
              /\ peer' = peer
              /\ channel_write_event_enable(b)
<1> DEFINE data == Numbered(n)
           w == IF Direct THEN Written(n) ELSE 0
           k == IF w >= 0 THEN w ELSE 0
<1>1. data \in Seq(Nat) /\ Len(data) = n
  BY NumberedBytes
<1>2. Room \in Nat /\ w \in -1..n /\ w <= Room /\ k \in 0..Len(data) /\ k <= Room
  BY <1>1, WrittenRange
<1>3. SubSeq(data, 1, w) = SubSeq(data, 1, k)
  <2>1. CASE w = -1
    BY <2>1, SubSeqEmpty
  <2>2. CASE w # -1
    BY <1>2, <2>2
  <2>3. QED
    BY <2>1, <2>2
<1>4. Left(data, w) = SubSeq(data, k + 1, Len(data))
  <2>1. CASE w >= 0
    BY <2>1 DEF Left
  <2>2. CASE ~(w >= 0)
    <3>1. Direct /\ peer # "reset"
      BY <2>2
    <3>2. SubSeq(data, 1, Len(data)) = data
      BY <1>1, SubSeqFull
    <3>3. QED
      BY <2>2, <3>1, <3>2 DEF Left
  <2>3. QED
    BY <2>1, <2>2
<1> DEFINE a == SubSeq(data, 1, k)
           b == SubSeq(data, k + 1, Len(data))
<1>5. /\ a \in Seq(Nat) /\ b \in Seq(Nat) /\ a \o b = data
      /\ Len(a) = k /\ Len(b) = n - k
  BY <1>1, <1>2, SplitAt
<1>6. /\ sock' = sock \o SubSeq(data, 1, w)
      /\ output' = output \o Left(data, w)
      /\ channel_write_event_enable(Left(data, w))
      /\ peer' = peer
  BY DEF send_data, Reported
<1>7. a = <<>> \/ output = <<>>
  <2>1. CASE Direct
    BY <2>1 DEF Direct
  <2>2. CASE ~Direct
    BY <2>2, SubSeqEmpty
  <2>3. QED
    BY <2>1, <2>2
<1>8. a = <<>> => b # <<>>
  <2>1. a = <<>> => k = 0
    BY <1>2, <1>5, EmptySeq
  <2>2. b = <<>> => n - k = 0
    BY <1>2, <1>5, EmptySeq
  <2>3. QED
    BY <1>2, <2>1, <2>2
<1>9. QED
  BY <1>2, <1>3, <1>4, <1>5, <1>6, <1>7, <1>8


\* The stream grows by what was sent.
LEMMA StreamGrows ==
    ASSUME IInv, thread = "run", NEW n \in Nat,
           NEW a \in Seq(Nat), NEW b \in Seq(Nat), a = <<>> \/ output = <<>>,
           a \o b = Numbered(n), sock' = sock \o a, output' = output \o b,
           peer' = peer, received' = received, sent' = sent + n
    PROVE  StreamIntact'
<1>1. received \in Seq(Nat) /\ sock \in Seq(Nat) /\ output \in Seq(Nat) /\ sent \in Nat
  BY DEF IInv, TypeOK
<1>2. CASE peer \in {"open", "fin"}
  <2> DEFINE s == received \o sock \o output
  <2>1. s \in Seq(Nat) /\ Stream = s
    BY <1>1, <1>2, ConcatProperties DEF Stream
  <2>2. Counts(s) /\ Len(s) = sent
    BY <1>2, <2>1 DEF IInv, StreamIntact, Counts
  <2>3. Stream' = s \o Numbered(n)
    <3>1. Stream' = Whole(received, sock', output') /\ s = Whole(received, sock, output)
      BY <1>2 DEF Stream, Whole, Cat
    <3>2. Whole(received, Cat(sock, a), Cat(output, b))
            = Cat(Whole(received, sock, output), Cat(a, b))
      <4>1. received \in Bytes /\ sock \in Bytes /\ output \in Bytes /\ a \in Bytes /\ b \in Bytes
        BY <1>1 DEF Bytes
      <4>2. QED
        BY <4>1, Regroup
    <3>3. QED
      BY <3>1, <3>2 DEF Cat
  <2>4. /\ Numbered(n) \in Seq(Nat) /\ Len(Numbered(n)) = n
        /\ \A k \in 1..n : Numbered(n)[k] = sent + k
    BY NumberedBytes DEF IInv
  <2> HIDE DEF s
  <2>5. Counts(s \o Numbered(n))
    BY <2>1, <2>2, <2>4, CountsConcat
  <2>6. Len(s \o Numbered(n)) = sent + n
    <3>1. Len(s \o Numbered(n)) = Len(s) + Len(Numbered(n))
      BY <2>1, <2>4, ConcatProperties, Zenon
    <3>2. QED
      BY <2>2, <2>4, <3>1
  <2>7. QED
    BY <2>3, <2>5, <2>6 DEF StreamIntact, Counts
<1>3. CASE peer \notin {"open", "fin"}
  BY <1>3 DEF IInv, StreamIntact, Stream
<1>4. QED
  BY <1>2, <1>3

\* What the event says and what epoll knows after the enable.
LEMMA EnableArms ==
    ASSUME IInv, thread = "run", NEW b \in Seq(Nat),
           channel_write_event_enable(b), output' = output \o b,
           registered' = registered, closed' = closed, dataIsLoop' = dataIsLoop
    PROVE  /\ WriteEventIffBuffered'
           /\ writeEvent' \in BOOLEAN /\ armed' \in BOOLEAN /\ thread' \in {"run", "undefined"}
<1>1. output \in Seq(Nat) /\ (output' = <<>> <=> output = <<>> /\ b = <<>>)
  BY ConcatEqualIffEmpty DEF IInv, TypeOK
<1>2. writeEvent <=> output # <<>>
  BY DEF IInv, WriteEventIffBuffered
<1>3. /\ dataIsLoop /\ registered /\ ~closed => (armed <=> writeEvent)
      /\ armed \in BOOLEAN /\ writeEvent \in BOOLEAN /\ dataIsLoop \in BOOLEAN
  BY DEF IInv, WriteEventIffBuffered, TypeOK
<1>4. QED
  BY <1>1, <1>2, <1>3 DEF channel_write_event_enable, Update, WriteEventIffBuffered

SendFrame ==
    UNCHANGED <<dataIsLoop, registered, received, closed, asked>>

LEMMA SendStep ==
    ASSUME IInv, Signed, thread = "run", NEW n \in 1..MaxReply, sent + n <= MaxSent,
           send_data(n), SendFrame
    PROVE  /\ StreamIntact' /\ WriteEventIffBuffered'
           /\ output' \in Seq(Nat) /\ sock' \in Seq(Nat) /\ Len(sock') <= SockSize
           /\ writeEvent' \in BOOLEAN /\ armed' \in BOOLEAN
           /\ thread' \in {"run", "killed", "undefined"} /\ sent' \in 0..MaxSent
           /\ peer' \in {"open", "fin", "reset", "gone"}
<1>1. /\ received \in Seq(Nat) /\ sock \in Seq(Nat) /\ output \in Seq(Nat)
      /\ Len(sock) <= SockSize /\ TypeOK /\ n \in Nat /\ n > 0
  BY DEF IInv, TypeOK
<1>2. sent' = sent + n /\ sent' \in 0..MaxSent
  BY <1>1 DEF send_data, TypeOK
<1>3. CASE Direct /\ Broken
  <2>1. sigpipe
    BY <1>3 DEF send_data
  <2>2. Stream' = Stream
    BY <2>1 DEF sigpipe, Stream, SendFrame
  <2>3. StreamIntact'
    BY <2>1, <2>2 DEF StreamIntact, sigpipe, IInv
  <2>4. QED
    BY <1>1, <1>2, <2>1, <2>3 DEF sigpipe, WriteEventIffBuffered, TypeOK
<1>4. CASE Direct /\ ~Broken /\ peer = "reset"
  <2>1. Written(n) = -1 /\ Left(Numbered(n), -1) = <<>>
    BY <1>4 DEF Written, Left
  <2>2. /\ sock' = sock \o SubSeq(Numbered(n), 1, -1) /\ output' = output \o <<>>
        /\ peer' = "gone" /\ channel_write_event_enable(<<>>)
    BY <1>4, <2>1 DEF send_data, Reported
  <2>3. sock' = sock /\ output' = output
    BY <1>1, <2>2, SubSeqEmpty, ConcatEmptySeq
  <2>4. StreamIntact'
    BY <1>4, <2>2 DEF StreamIntact, Stream, SendFrame, IInv
  <2>5. QED
    BY <1>1, <1>2, <2>2, <2>3, <2>4, EnableArms, EmptySeq DEF SendFrame
<1>5. CASE ~(Direct /\ Broken) /\ ~(Direct /\ peer = "reset")
  <2>1. PICK a \in Seq(Nat), b \in Seq(Nat) :
              /\ a \o b = Numbered(n)
              /\ sock' = sock \o a /\ output' = output \o b
              /\ a = <<>> \/ output = <<>>
              /\ Len(a) <= Room
              /\ peer' = peer
              /\ channel_write_event_enable(b)
    BY <1>1, <1>5, SendSplits
  <2>2. StreamIntact'
    BY <1>1, <1>2, <2>1, StreamGrows DEF SendFrame
  <2>3. output' \in Seq(Nat) /\ sock' \in Seq(Nat) /\ Len(sock') <= SockSize
    <3>1. Len(sock \o a) = Len(sock) + Len(a) /\ Len(sock) \in Nat /\ Len(a) \in Nat
      BY <1>1, ConcatProperties, LenProperties
    <3>2. QED
      BY <1>1, <2>1, <3>1, ConcatProperties DEF Room
  <2>4. QED
    BY <1>1, <1>2, <2>1, <2>2, <2>3, EnableArms DEF SendFrame, TypeOK
<1>6. QED
  BY <1>3, <1>4, <1>5

-----------------------------------------------------------------------------
(* One lemma per action.                                                   *)

LEMMA InitInv == Init => IInv
<1> SUFFICES ASSUME Init PROVE IInv
  OBVIOUS
<1>1. TypeOK
  <2>1. <<>> \in Seq(Nat) /\ Len(<<>>) = 0
    BY EmptySeq
  <2>2. calls \in [Callbacks -> Nat]
    BY DEF Init
  <2>3. sent \in 0..MaxSent /\ asked \in 0..MaxAsked /\ inbound \in 0..asked
    BY DEF Init
  <2>4. /\ output \in Seq(Nat) /\ sock \in Seq(Nat) /\ received \in Seq(Nat)
        /\ Len(sock) <= SockSize
    BY <2>1 DEF Init
  <2>5. /\ dataIsLoop \in DataKinds /\ batch \in SUBSET Events
        /\ registered \in BOOLEAN /\ armed \in BOOLEAN /\ writeEvent \in BOOLEAN
        /\ shut \in BOOLEAN /\ closed \in BOOLEAN
    BY Zenon DEF Init, Events
  <2>6. QED
    BY <2>2, <2>3, <2>4, <2>5 DEF Init, TypeOK
<1>2. StreamIntact
  <2>1. Stream = <<>>
    BY ConcatEmptySeq, EmptySeq DEF Init, Stream
  <2>2. QED
    BY <2>1, EmptySeq DEF StreamIntact, Init
<1>3. WriteEventIffBuffered
  BY DEF Init, WriteEventIffBuffered
<1>4. QED
  BY <1>1, <1>2, <1>3 DEF IInv

\* Nothing that the stream or the write event depend on changes.
LEMMA Unmoved ==
    ASSUME IInv, TypeOK', UNCHANGED <<received, sock, output, sent, writeEvent, dataIsLoop>>,
           thread' = thread \/ thread' # "run",
           peer' = peer \/ (peer \in {"open", "fin"} /\ peer' \in {"open", "fin"}),
           UNCHANGED armed \/ ~registered' \/ closed',
           registered' => registered, closed => closed'
    PROVE  IInv'
<1>1. Stream' = Stream
  BY DEF Stream
<1>2. StreamIntact'
  BY <1>1 DEF IInv, StreamIntact
<1>3. WriteEventIffBuffered'
  BY DEF IInv, TypeOK, WriteEventIffBuffered
<1>4. QED
  BY <1>2, <1>3 DEF IInv

LEMMA AskStep == ASSUME IInv, Ask PROVE IInv'
<1>1. TypeOK'
  BY DEF IInv, TypeOK, Ask, connection, app, socket
<1>2. QED
  BY <1>1, Unmoved DEF Ask, connection, app, socket

LEMMA ReceiveStep == ASSUME IInv, Receive PROVE IInv'
<1>1. received \in Seq(Nat) /\ sock \in Seq(Nat) /\ output \in Seq(Nat) /\ sock # <<>>
  BY DEF IInv, TypeOK, Receive
<1>2. /\ received' = Append(received, Head(sock)) /\ sock' = Tail(sock)
      /\ UNCHANGED <<output, sent, peer, thread>>
  BY DEF Receive, connection, app, environment
<1>3. Head(sock) \in Nat /\ Tail(sock) \in Seq(Nat) /\ Len(Tail(sock)) = Len(sock) - 1
  BY <1>1, HeadTailProperties
<1>4. TypeOK'
  <2>1. received' \in Seq(Nat)
    BY <1>1, <1>2, <1>3, AppendProperties
  <2>2. Len(sock') <= SockSize
    BY <1>1, <1>2, <1>3, LenProperties DEF IInv, TypeOK
  <2>3. QED
    BY <1>2, <1>3, <2>1, <2>2 DEF IInv, TypeOK, Receive, connection, app, environment
<1>5. received' \o sock' = received \o sock
  <2>1. /\ Len(received') = Len(received) + 1 /\ Len(received) \in Nat /\ Len(sock) \in Nat
        /\ \A k \in 1..Len(received) : received'[k] = received[k]
        /\ received'[Len(received) + 1] = Head(sock)
    BY <1>1, <1>2, <1>3, AppendProperties, LenProperties
  <2>2. \A k \in 1..Len(sock) - 1 : sock'[k] = sock[k + 1]
    BY <1>1, <1>2, <1>3, HeadTailProperties
  <2>3. Head(sock) = sock[1] /\ Len(sock) > 0
    BY <1>1, EmptySeq
  <2>4. /\ received' \o sock' \in Seq(Nat)
        /\ Len(received' \o sock') = Len(received') + Len(sock')
        /\ \A k \in 1..Len(received') + Len(sock') : (received' \o sock')[k] =
               IF k <= Len(received') THEN received'[k] ELSE sock'[k - Len(received')]
    BY <1>4, ConcatProperties DEF TypeOK
  <2>5. /\ received \o sock \in Seq(Nat)
        /\ Len(received \o sock) = Len(received) + Len(sock)
        /\ \A k \in 1..Len(received) + Len(sock) : (received \o sock)[k] =
               IF k <= Len(received) THEN received[k] ELSE sock[k - Len(received)]
    BY <1>1, ConcatProperties
  <2>6. Len(received' \o sock') = Len(received \o sock)
    BY <1>2, <1>3, <2>1, <2>4, <2>5
  <2>7. ASSUME NEW k \in 1..Len(received \o sock)
        PROVE  (received' \o sock')[k] = (received \o sock)[k]
    <3>1. k \in 1..Len(received) + Len(sock) /\ k \in 1..Len(received') + Len(sock')
      BY <2>4, <2>5, <2>6
    <3>2. CASE k <= Len(received)
      BY <2>1, <2>4, <2>5, <3>1, <3>2
    <3>3. CASE k = Len(received) + 1
      BY <2>1, <2>3, <2>4, <2>5, <3>1, <3>3
    <3>4. CASE k > Len(received) + 1
      <4>1. k - Len(received') \in 1..Len(sock) - 1
        BY <2>1, <3>1, <3>4
      <4>2. sock'[k - Len(received')] = sock[k - Len(received)]
        BY <2>1, <2>2, <4>1
      <4>3. (received' \o sock')[k] = sock'[k - Len(received')]
        BY <2>1, <2>4, <3>1, <3>4
      <4>4. (received \o sock)[k] = sock[k - Len(received)]
        BY <2>1, <2>5, <3>1, <3>4
      <4>5. QED
        BY <4>2, <4>3, <4>4
    <3>5. QED
      BY <2>1, <3>1, <3>2, <3>3, <3>4
  <2>8. QED
    BY <2>4, <2>5, <2>6, <2>7, SeqEqual
<1>6. Stream' = Stream
  BY <1>2, <1>5 DEF Stream, Receive
<1>7. QED
  BY <1>2, <1>4, <1>6 DEF IInv, StreamIntact, WriteEventIffBuffered, Receive, connection

LEMMA FinishStep == ASSUME IInv, Finish PROVE IInv'
<1>1. TypeOK'
  BY DEF IInv, TypeOK, Finish, connection, app, socket
<1>2. QED
  BY <1>1, Unmoved DEF Finish, connection, app, socket

LEMMA ResetStep == ASSUME IInv, Reset PROVE IInv'
<1>1. TypeOK'
  BY EmptySeq DEF IInv, TypeOK, Reset, connection, app
<1>2. Counts(received)
  <2>1. received \in Seq(Nat) /\ sock \in Seq(Nat) /\ output \in Seq(Nat)
    BY DEF IInv, TypeOK
  <2>2. received \o sock \in Seq(Nat)
    BY <2>1, ConcatProperties
  <2>3. Counts((received \o sock) \o output)
    BY DEF IInv, StreamIntact, Stream, Counts, Reset
  <2>4. Counts(received \o sock)
    BY <2>1, <2>2, <2>3, CountsPrefix
  <2>5. QED
    BY <2>1, <2>4, CountsPrefix
<1>3. StreamIntact'
  BY <1>2 DEF StreamIntact, Stream, Counts, Reset
<1>4. QED
  BY <1>1, <1>3 DEF IInv, WriteEventIffBuffered, Reset, connection

LEMMA EpollWaitStep == ASSUME IInv, epoll_wait PROVE IInv'
<1>1. TypeOK'
  BY DEF IInv, TypeOK, epoll_wait, Polled, connection, app, socket, environment
<1>2. QED
  BY <1>1, Unmoved DEF epoll_wait, connection, app, socket, environment

LEMMA EpollErrorStep == ASSUME IInv, epoll_error PROVE IInv'
<1>1. TypeOK'
  BY DEF IInv, TypeOK, epoll_error, app, environment
<1>2. QED
  BY <1>1, Unmoved DEF epoll_error, app, environment

\* handle_read of a connection with bytes to read.
LEMMA MessageStep ==
    ASSUME IInv, Signed, Dispatch("READ"), message, dataIsLoop' = dataIsLoop
    PROVE  IInv'
<1>0. calls' \in [Callbacks -> Nat]
  BY DEF IInv, TypeOK, message, Callbacks
<1>1. /\ thread = "run" /\ batch' \in SUBSET Events
      /\ UNCHANGED <<registered, received, closed, asked>>
      /\ inbound' \in 0..asked' /\ shut' \in BOOLEAN
      /\ dataIsLoop' \in DataKinds /\ asked' \in 0..MaxAsked
      /\ registered' \in BOOLEAN /\ received' \in Seq(Nat) /\ closed' \in BOOLEAN
  <2>1. UNCHANGED <<registered, received, closed, asked>> /\ inbound' = 0
    BY DEF message
  <2>2. batch' \in SUBSET Events /\ thread = "run"
    BY DEF IInv, TypeOK, Dispatch
  <2>3. shut' \in BOOLEAN
    BY DEF IInv, TypeOK, message, tcp_connection_shutdown
  <2>4. asked \in 0..MaxAsked /\ registered \in BOOLEAN /\ closed \in BOOLEAN
        /\ received \in Seq(Nat) /\ dataIsLoop \in DataKinds
    BY DEF IInv, TypeOK
  <2>5. QED
    BY <2>1, <2>2, <2>3, <2>4
<1>2. CASE \E n \in 1..MaxReply : sent + n <= MaxSent /\ send_data(n)
  <2>1. PICK n \in 1..MaxReply : sent + n <= MaxSent /\ send_data(n)
    BY <1>2
  <2>2. SendFrame
    BY <1>1 DEF SendFrame
  <2>3. /\ StreamIntact' /\ WriteEventIffBuffered'
        /\ output' \in Seq(Nat) /\ sock' \in Seq(Nat) /\ Len(sock') <= SockSize
        /\ writeEvent' \in BOOLEAN /\ armed' \in BOOLEAN
        /\ thread' \in {"run", "killed", "undefined"} /\ sent' \in 0..MaxSent
        /\ peer' \in {"open", "fin", "reset", "gone"}
    BY <1>1, <2>1, <2>2, SendStep
  <2>4. QED
    BY <1>0, <1>1, <2>3 DEF IInv, TypeOK
<1>3. CASE UNCHANGED <<sent, output, writeEvent, armed, sock, peer, thread>>
  <2>1. TypeOK'
    BY <1>0, <1>1, <1>3 DEF IInv, TypeOK
  <2>2. QED
    BY <1>1, <1>3, <2>1, Unmoved
<1>4. QED
  BY <1>2, <1>3 DEF message

LEMMA HandleReadStep == ASSUME IInv, Signed, handle_read PROVE IInv'
<1>1. CASE inbound > 0
  BY <1>1, MessageStep DEF handle_read
<1>2. CASE ~(inbound > 0)
  <2>1. handle_connection_closed /\ Dispatch("READ") /\ dataIsLoop' = dataIsLoop
    BY <1>2 DEF handle_read
  <2>2. TypeOK'
    <3>1. calls' \in [Callbacks -> Nat]
      BY <2>1 DEF IInv, TypeOK, handle_connection_closed, Callbacks
    <3>2. batch' \in SUBSET Events
      BY <2>1 DEF IInv, TypeOK, Dispatch
    <3>3. QED
      BY <2>1, <3>1, <3>2 DEF IInv, TypeOK, handle_connection_closed, socket, environment
  <2>3. QED
    BY <2>1, <2>2, Unmoved DEF handle_connection_closed, socket, environment
<1>3. QED
  BY <1>1, <1>2

\* Bytes that move from the buffer to the socket stay where they are in the stream.
LEMMA WriteSomeStep ==
    ASSUME IInv, thread = "run", NEW n \in 1..Len(output), n <= Room, write_some(n),
           UNCHANGED <<dataIsLoop, registered, sent, received, shut, closed, inbound, asked>>,
           batch' \in SUBSET Events
    PROVE  IInv'
<1> DEFINE a == SubSeq(output, 1, n)
           b == SubSeq(output, n + 1, Len(output))
<1>1. received \in Seq(Nat) /\ sock \in Seq(Nat) /\ output \in Seq(Nat)
  BY DEF IInv, TypeOK
<1>2. n \in 0..Len(output)
  BY <1>1, LenProperties
<1>3. a \in Seq(Nat) /\ Len(a) = n /\ b \in Seq(Nat) /\ a \o b = output
  BY <1>1, <1>2, SplitAt
<1>4. sock' = sock \o a /\ output' = b /\ channel_write_event_disable(b) /\ peer' = peer
  BY DEF write_some
<1>5. output # <<>>
  BY <1>1, EmptySeq
<1>6. sock' \in Seq(Nat) /\ Len(sock') <= SockSize
  <2>1. Len(sock \o a) = Len(sock) + Len(a) /\ Len(sock) \in Nat
    BY <1>1, <1>3, ConcatProperties, LenProperties
  <2>2. QED
    BY <1>1, <1>3, <1>4, <2>1, ConcatProperties DEF Room
<1> HIDE DEF a, b
<1>7. Stream' = Stream
  <2>1. (received \o (sock \o a)) \o b = (received \o sock) \o (a \o b)
    <3>1. received \in Bytes /\ sock \in Bytes /\ a \in Bytes /\ b \in Bytes
      BY <1>1, <1>3 DEF Bytes
    <3>2. Cat(Cat(received, Cat(sock, a)), b) = Cat(Cat(received, sock), Cat(a, b))
      BY <3>1, Regrouped
    <3>3. QED
      BY <3>2 DEF Cat
  <2>2. QED
    BY <1>3, <1>4, <2>1 DEF Stream
<1>8. StreamIntact'
  <2>1. thread' = "run" => thread = "run"
    OBVIOUS
  <2>2. QED
    BY <1>4, <1>7, <2>1 DEF IInv, StreamIntact
<1>9. /\ WriteEventIffBuffered' /\ writeEvent' \in BOOLEAN /\ armed' \in BOOLEAN
      /\ thread' \in {"run", "undefined"}
  <2>1. writeEvent = TRUE /\ (dataIsLoop /\ registered /\ ~closed => armed = TRUE)
    BY <1>5 DEF IInv, WriteEventIffBuffered, TypeOK
  <2>2. armed \in BOOLEAN /\ dataIsLoop \in BOOLEAN
    BY DEF IInv, TypeOK
  <2>3. QED
    BY <1>4, <2>1, <2>2 DEF channel_write_event_disable, Update, WriteEventIffBuffered
<1>10. calls' \in [Callbacks -> Nat]
  BY DEF write_some, IInv, TypeOK, Callbacks
<1>11. QED
  BY <1>3, <1>4, <1>6, <1>8, <1>9, <1>10 DEF IInv, TypeOK

LEMMA HandleWriteStep == ASSUME IInv, handle_write PROVE IInv'
<1>1. /\ thread = "run" /\ batch' \in SUBSET Events /\ Len(output) \in Nat
      /\ UNCHANGED <<dataIsLoop, registered, sent, received, shut, closed, inbound, asked>>
  BY LenProperties DEF IInv, TypeOK, handle_write, Dispatch
<1>2. CASE Broken
  <2>1. sigpipe /\ UNCHANGED calls
    BY <1>2 DEF handle_write
  <2>2. TypeOK'
    BY <1>1, <2>1 DEF IInv, TypeOK, sigpipe
  <2>3. QED
    BY <1>1, <2>1, <2>2, Unmoved DEF sigpipe
<1>3. CASE ~Broken /\ Written(Len(output)) > 0
  <2>1. Written(Len(output)) \in 1..Len(output) /\ Written(Len(output)) <= Room
    BY <1>1, <1>3, WrittenRange DEF IInv
  <2>2. write_some(Written(Len(output)))
    BY <1>3 DEF handle_write
  <2>3. QED
    BY <1>1, <2>1, <2>2, WriteSomeStep
<1>4. CASE ~Broken /\ ~(Written(Len(output)) > 0)
  <2>1. peer' = Reported /\ UNCHANGED <<thread, armed, writeEvent, output, sock, calls>>
    BY <1>4 DEF handle_write
  <2>2. TypeOK'
    BY <1>1, <2>1 DEF IInv, TypeOK, Reported
  <2>3. Stream' = Stream
    BY <1>1, <2>1 DEF Stream, Reported
  <2>4. QED
    BY <1>1, <2>1, <2>2, <2>3 DEF IInv, StreamIntact, WriteEventIffBuffered, Reported
<1>5. QED
  BY <1>2, <1>3, <1>4

LEMMA ActivateUnknownStep == ASSUME IInv, activate_unknown PROVE IInv'
<1>1. TypeOK'
  BY DEF IInv, TypeOK, activate_unknown, Dispatch, connection, app, socket, environment
<1>2. QED
  BY <1>1, Unmoved DEF activate_unknown, connection, app, socket, environment

LEMMA StepInv == ASSUME IInv, Signed, [Next]_vars PROVE IInv'
<1>1. CASE Loop
  BY <1>1, EpollWaitStep, EpollErrorStep, HandleReadStep, HandleWriteStep,
     ActivateUnknownStep DEF Loop
<1>2. CASE Ask \/ Receive \/ Finish \/ Reset
  BY <1>2, AskStep, ReceiveStep, FinishStep, ResetStep
<1>3. CASE UNCHANGED vars
  <2>1. TypeOK'
    BY <1>3 DEF vars, IInv, TypeOK, connection, app, socket, environment
  <2>2. QED
    BY <1>3, <2>1, Unmoved DEF vars, connection, app, socket, environment
<1>4. QED
  BY <1>1, <1>2, <1>3 DEF Next

-----------------------------------------------------------------------------
LEMMA Invariant == ASSUME Signed PROVE SafeSpec => []IInv
BY InitInv, StepInv, PTL DEF SafeSpec

\* Every variable keeps its type; the socket is never given more than it takes.
THEOREM TypeCorrect == ASSUME Signed PROVE SafeSpec => []TypeOK
<1>1. IInv => TypeOK
  BY DEF IInv
<1>2. QED
  BY <1>1, Invariant, PTL

\* With a signed nwrited the peer receives what was sent, byte for byte and
\* in order, for any socket and any replies (tcp_connection.cpp:101-130).
THEOREM BytesInOrder == ASSUME Signed PROVE SafeSpec => []StreamIntact
<1>1. IInv => StreamIntact
  BY DEF IInv
<1>2. QED
  BY <1>1, Invariant, PTL

\* The write event is on exactly while bytes are buffered
\* (tcp_connection.c:100, 117 and 43).
THEOREM WriteEventRight == ASSUME Signed PROVE SafeSpec => []WriteEventIffBuffered
<1>1. IInv => WriteEventIffBuffered
  BY DEF IInv
<1>2. QED
  BY <1>1, Invariant, PTL

-----------------------------------------------------------------------------
(* The end of a connection, whatever the type of nwrited.                  *)

\* Once the connection-closed callback has run the channel is out of the
\* loop's map, and no read event is left in the batch that would call another.
CloseInv ==
    /\ calls \in [Callbacks -> Nat]
    /\ calls["closed"] # 0 => ~registered /\ "READ" \notin batch

LEMMA HandleReadQuiet ==
    ASSUME CloseInv, handle_read PROVE CloseInv' /\ calls["closed"] = 0
<1>1. "READ" \in batch /\ batch' = batch \ {"READ"}
  BY DEF handle_read, Dispatch
<1>2. calls["closed"] = 0
  BY <1>1 DEF CloseInv
<1>3. CASE message
  <2>1. calls' = [calls EXCEPT !["message"] = @ + 1]
    BY <1>3 DEF message
  <2>2. calls' \in [Callbacks -> Nat] /\ calls'["closed"] = 0
    BY <1>2, <2>1 DEF CloseInv, Callbacks
  <2>3. QED
    BY <1>2, <2>2 DEF CloseInv
<1>4. CASE handle_connection_closed
  <2>1. calls' = [calls EXCEPT !["closed"] = @ + 1] /\ registered' = FALSE
    BY <1>4 DEF handle_connection_closed
  <2>2. calls' \in [Callbacks -> Nat]
    BY <2>1 DEF CloseInv, Callbacks
  <2>3. QED
    BY <1>1, <1>2, <2>1, <2>2 DEF CloseInv
<1>5. QED
  BY <1>3, <1>4 DEF handle_read

LEMMA HandleWriteQuiet ==
    ASSUME CloseInv, handle_write PROVE CloseInv' /\ calls["closed"] = 0
<1>1. registered /\ calls["closed"] = 0
  BY DEF handle_write, CloseInv
<1>2. \/ UNCHANGED calls
      \/ calls' = [calls EXCEPT !["writeCompleted"] = @ + 1]
  BY DEF handle_write, write_some
<1>3. calls' \in [Callbacks -> Nat] /\ calls'["closed"] = 0
  BY <1>1, <1>2 DEF CloseInv, Callbacks
<1>4. QED
  BY <1>1, <1>3 DEF CloseInv

\* The other steps call nothing; only epoll_wait adds events, to a channel in the map.
LEMMA SilentQuiet ==
    ASSUME CloseInv, UNCHANGED <<calls, registered>>, registered \/ batch' \subseteq batch
    PROVE  CloseInv'
BY DEF CloseInv

LEMMA QuietStep ==
    ASSUME CloseInv, [Next]_vars
    PROVE  CloseInv' /\ (calls' # calls => calls["closed"] = 0)
<1>1. CASE handle_read
  BY <1>1, HandleReadQuiet
<1>2. CASE handle_write
  BY <1>2, HandleWriteQuiet
<1>3. CASE epoll_wait \/ epoll_error \/ activate_unknown
  <2>1. UNCHANGED <<calls, registered>>
    BY <1>3 DEF epoll_wait, epoll_error, activate_unknown, connection, app
  <2>2. registered \/ batch' \subseteq batch
    BY <1>3 DEF epoll_wait, epoll_error, activate_unknown, Dispatch
  <2>3. QED
    BY <2>1, <2>2, SilentQuiet
<1>4. CASE Ask \/ Receive \/ Finish \/ Reset \/ UNCHANGED vars
  <2>1. UNCHANGED <<calls, registered, batch>>
    BY <1>4 DEF Ask, Receive, Finish, Reset, vars, connection, app
  <2>2. QED
    BY <2>1, SilentQuiet
<1>5. QED
  BY <1>1, <1>2, <1>3, <1>4 DEF Next, Loop

\* No callback of the application runs after its connection-closed callback,
\* which runs at most once (tcp_connection.c:5-12), in either version of the
\* library.
THEOREM ClosedIsLast == SafeSpec => NothingAfterClose
<1>1. Init => CloseInv
  BY DEF Init, CloseInv, Callbacks
<1>2. CloseInv /\ [Next]_vars => CloseInv'
  BY QuietStep
<1>3. CloseInv /\ [Next]_vars =>
        [(\E c \in Callbacks : calls'[c] # calls[c]) => calls["closed"] = 0]_vars
  BY QuietStep
<1>4. QED
  BY <1>1, <1>2, <1>3, PTL DEF SafeSpec, NothingAfterClose
=============================================================================
