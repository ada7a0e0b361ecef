------------------------ MODULE CourseProgramsProofs ------------------------
(***************************************************************************)
(* Theorems about the programs of the course, stated of the collection: a  *)
(* step is one of the program in question, which keeps an invariant of its *)
(* own, or leaves the variables of that program alone.                     *)
(***************************************************************************)
EXTENDS CoursePrograms, LibraryLemmas

-----------------------------------------------------------------------------
(* The queue of chapter 26 with any number of workers and any ring: what   *)
(* is in the ring are the connections that were pushed and not popped, in  *)
(* their order, and one signal for each push wakes enough workers.         *)

QueueAssumptions == IsFiniteSet(Clients) /\ Queue!NumberAssumption

\* How far behind the front of the ring an index is.
Behind(k) == IF k >= front THEN k - front ELSE k - front + Number

\* The entries from front to rear are the connections that are due.
RingInv ==
    \A k \in Queue!Indices : Behind(k) < Queue!Queued => fd[k] = Len(popped) + 1 + Behind(k)

IdleInv == Queue!Waiting # {} => Queue!Queued <= Cardinality(Queue!Awake)

QueueInv ==
    /\ Queue!TypeOK
    /\ ~overrun => RingInv
    /\ Queue!InOrder
    /\ IdleInv

-----------------------------------------------------------------------------
\* What an instance makes of FiniteSets is FiniteSets.
LEMMA QueueAssumed == QueueAssumptions
<1>1. Queue!IsFiniteSet(Clients) => IsFiniteSet(Clients)
  BY DEF Queue!IsFiniteSet, IsFiniteSet
<1>2. QED
  BY <1>1, OthersAssumption DEF QueueAssumptions, Queue!WorkersAssumption

LEMMA QueueInitInv == ASSUME QueueAssumptions, Queue!Init PROVE QueueInv
<1>1. Queue!TypeOK
  <2>1. fd \in [Queue!Indices -> 0..Connections] /\ front \in Queue!Indices
        /\ rear \in Queue!Indices
    BY DEF QueueAssumptions, Queue!NumberAssumption, Queue!Init, Queue!Indices
  <2>2. popped \in Seq(0..Connections)
    BY EmptySeq DEF Queue!Init
  <2>3. thread \in [Clients -> {"pop", "wait", "woken", "serve", "ended"}]
    BY DEF Queue!Init
  <2>4. pushed = 0 /\ spurious = 0
    BY DEF Queue!Init
  <2>5. overrun \in BOOLEAN
    BY DEF Queue!Init
  <2>6. pushed \in 0..Connections /\ spurious \in 0..Spurious
    BY <2>4 DEF QueueAssumptions, Queue!NumberAssumption
  <2>7. QED
    BY <2>1, <2>2, <2>3, <2>5, <2>6 DEF Queue!TypeOK
<1>2. Queue!Queued = 0 /\ Queue!Waiting = {}
  BY DEF QueueAssumptions, Queue!NumberAssumption, Queue!Init, Queue!Queued, Queue!Waiting
<1>3. RingInv
  BY <1>2 DEF QueueAssumptions, Queue!NumberAssumption, Queue!Init, RingInv, Behind, Queue!Indices
<1>4. Queue!InOrder
  <2>1. <<>> \in Seq(Nat) /\ Len(<<>>) = 0
    BY EmptySeq
  <2>2. <<>> \in [1..0 -> Nat]
    BY <2>1, LenProperties
  <2>3. <<>> = [k \in 1..0 |-> k]
    BY <2>2
  <2>4. popped = <<>>
    BY DEF Queue!Init
  <2>5. Len(popped) = 0
    BY <2>1, <2>4, Zenon
  <2>6. popped = [k \in 1..Len(popped) |-> k]
    <3>1. popped = [k \in 1..0 |-> k]
      BY <2>3, <2>4, Zenon
    <3>2. QED
      BY <3>1, <2>5, SMT
  <2>7. Queue!Queued = pushed - Len(popped)
    <3>1. Queue!Queued = 0 /\ pushed = 0
      BY <1>2 DEF Queue!Init
    <3>2. QED
      BY <3>1, <2>5
  <2>8. QED
    BY <2>6, <2>7 DEF Queue!InOrder
<1>5. QED
  BY <1>1, <1>2, <1>3, <1>4 DEF QueueInv, IdleInv

-----------------------------------------------------------------------------
(* The length of the ring's contents.                                      *)

LEMMA QueuedType ==
    ASSUME QueueAssumptions, Queue!TypeOK
    PROVE  Queue!Queued \in 0..Number - 1 /\ (Queue!Queued = 0 <=> front = rear)
BY DEF QueueAssumptions, Queue!NumberAssumption, Queue!TypeOK, Queue!Indices, Queue!Queued

LEMMA NextType ==
    ASSUME QueueAssumptions, NEW k \in Queue!Indices
    PROVE  Queue!next(k) \in Queue!Indices
BY DEF QueueAssumptions, Queue!NumberAssumption, Queue!Indices, Queue!next

\* A push adds one, or fills the ring and so empties it.
LEMMA PushQueued ==
    ASSUME QueueAssumptions, Queue!TypeOK, rear' = Queue!next(rear), front' = front
    PROVE  Queue!Queued' = IF rear' = front THEN 0 ELSE Queue!Queued + 1
BY DEF QueueAssumptions, Queue!NumberAssumption, Queue!TypeOK, Queue!Indices, Queue!Queued,
       Queue!next

LEMMA PopQueued ==
    ASSUME QueueAssumptions, Queue!TypeOK, front # rear, front' = Queue!next(front), rear' = rear
    PROVE  Queue!Queued' = Queue!Queued - 1
BY DEF QueueAssumptions, Queue!NumberAssumption, Queue!TypeOK, Queue!Indices, Queue!Queued,
       Queue!next

-----------------------------------------------------------------------------
(* The workers that are awake, counted.                                    *)

LEMMA AwakeFinite ==
    ASSUME QueueAssumptions
    PROVE  IsFiniteSet(Queue!Awake) /\ Cardinality(Queue!Awake) \in Nat
BY FS_Subset, FS_CardinalityType DEF QueueAssumptions, Queue!Awake

\* Who wakes up or comes back adds one.
LEMMA OneMore ==
    ASSUME QueueAssumptions, NEW w \in Clients, w \notin Queue!Awake,
        Queue!Awake' = Queue!Awake \cup {w}
    PROVE  Cardinality(Queue!Awake') = Cardinality(Queue!Awake) + 1
BY AwakeFinite, FS_AddElement

LEMMA OneLess ==
    ASSUME QueueAssumptions, NEW w \in Clients, w \in Queue!Awake,
        Queue!Awake' = Queue!Awake \ {w}
    PROVE  Cardinality(Queue!Awake') = Cardinality(Queue!Awake) - 1
BY AwakeFinite, FS_RemoveElement

-----------------------------------------------------------------------------
LEMMA PushInv == ASSUME QueueAssumptions, QueueInv, Queue!block_queue_push PROVE QueueInv'
<1> USE DEF Queue!block_queue_push
<1>t. Queue!TypeOK
  BY DEF QueueInv
<1>1. PICK woken \in SUBSET Queue!Waiting :
        /\ Queue!signal(woken)
        /\ thread' = [w \in Clients |-> IF w \in woken THEN "woken" ELSE thread[w]]
  OBVIOUS
<1>2. Queue!TypeOK'
  <2>1. thread' \in [Clients -> {"pop", "wait", "woken", "serve", "ended"}]
    BY <1>t, <1>1 DEF Queue!TypeOK
  <2>2. pushed' \in 0..Connections
    BY <1>t DEF Queue!TypeOK, QueueAssumptions, Queue!NumberAssumption
  <2>3. rear' \in Queue!Indices /\ fd' \in [Queue!Indices -> 0..Connections]
    BY <1>t, <2>2, NextType DEF Queue!TypeOK
  <2>4. overrun' \in BOOLEAN
    BY <1>t DEF Queue!TypeOK
  <2>5. QED
    BY <1>t, <2>1, <2>2, <2>3, <2>4 DEF Queue!TypeOK
<1>3. Queue!Queued' = IF rear' = front THEN 0 ELSE Queue!Queued + 1
  BY <1>t, PushQueued
<1>4. ~overrun' => ~overrun /\ Queue!Queued' = Queue!Queued + 1
  BY <1>3, <1>t DEF Queue!TypeOK
<1>5. ~overrun' => RingInv'
  <2> SUFFICES ASSUME ~overrun', NEW k \in Queue!Indices, Behind(k) < Queue!Queued + 1
               PROVE  fd'[k] = Len(popped) + 1 + Behind(k)
    BY <1>4 DEF RingInv, Behind, Queue!Indices
  <2>1. CASE k = rear
    <3>1. fd'[k] = pushed + 1
      BY <2>1, <1>t DEF Queue!TypeOK
    <3>2. Behind(k) = Queue!Queued
      BY <2>1 DEF Behind, Queue!Queued
    <3>3. Queue!Queued = pushed - Len(popped)
      BY <1>4 DEF QueueInv, Queue!InOrder
    <3>4. Len(popped) \in Nat /\ pushed \in Nat
      BY <1>t, LenProperties DEF Queue!TypeOK
    <3>5. QED
      BY <3>1, <3>2, <3>3, <3>4
  <2>2. CASE k # rear
    <3>1. fd'[k] = fd[k]
      BY <2>2, <1>t DEF Queue!TypeOK
    <3>2. Behind(k) < Queue!Queued
      BY <2>2, <1>t DEF Queue!TypeOK, Behind, Queue!Queued, Queue!Indices, QueueAssumptions,
            Queue!NumberAssumption
    <3>3. QED
      BY <3>1, <3>2, <1>4 DEF QueueInv, RingInv
  <2>3. QED
    BY <2>1, <2>2
<1>6. Queue!InOrder'
  <2> SUFFICES ASSUME ~overrun'
               PROVE  popped = [k \in 1..Len(popped) |-> k]
            /\ Queue!Queued' = pushed' - Len(popped)
    BY DEF Queue!InOrder
  <2>1. Len(popped) \in Nat /\ pushed \in Nat
    BY <1>t, LenProperties DEF Queue!TypeOK
  <2>2. QED
    BY <2>1, <1>4 DEF QueueInv, Queue!InOrder
<1>7. IdleInv'
  <2>1. CASE Queue!Waiting = {}
    <3>1. \A w \in Clients : thread[w] # "wait"
      BY <2>1 DEF Queue!Waiting
    <3>2. \A w \in Clients : thread'[w] # "wait"
      BY <3>1, <1>1
    <3>3. QED
      BY <3>2 DEF IdleInv, Queue!Waiting
  <2>2. CASE Queue!Waiting # {}
    <3>1. PICK w \in Queue!Waiting : woken = {w}
      BY <2>2, <1>1 DEF Queue!signal
    <3>2. w \in Clients /\ w \notin Queue!Awake /\ Queue!Awake' = Queue!Awake \cup {w}
      BY <3>1, <1>1 DEF Queue!Waiting, Queue!Awake
    <3>3. Cardinality(Queue!Awake') = Cardinality(Queue!Awake) + 1
      BY <3>2, OneMore
    <3>4. Queue!Queued <= Cardinality(Queue!Awake)
      BY <2>2 DEF QueueInv, IdleInv
    <3>5. Queue!Queued' <= Queue!Queued + 1
      BY <1>3, <1>t, QueuedType
    <3>6. Queue!Queued \in Nat /\ Queue!Queued' \in Nat /\ Cardinality(Queue!Awake) \in Nat
      BY <1>t, <1>3, QueuedType, AwakeFinite DEF QueueAssumptions, Queue!NumberAssumption
    <3>7. QED
      BY <3>3, <3>4, <3>5, <3>6 DEF IdleInv
  <2>3. QED
    BY <2>1, <2>2
<1>8. QED
  BY <1>2, <1>5, <1>6, <1>7 DEF QueueInv

-----------------------------------------------------------------------------
\* A worker finds a connection.
LEMMA TakeInv ==
    ASSUME QueueAssumptions, QueueInv, NEW w \in Clients, Queue!block_queue_pop(w), front # rear
    PROVE  QueueInv'
<1>t. Queue!TypeOK
  BY DEF QueueInv
<1>1. /\ thread[w] \in {"pop", "woken"}
      /\ popped' = Append(popped, fd[front])
      /\ front' = Queue!next(front)
      /\ thread' = [thread EXCEPT ![w] = "serve"]
      /\ UNCHANGED <<fd, rear, pushed, spurious, overrun>>
  BY DEF Queue!block_queue_pop, Queue!Empty
<1>2. fd[front] \in 0..Connections /\ Len(popped) \in Nat /\ pushed \in Nat
  BY <1>t, LenProperties DEF Queue!TypeOK
<1>3. popped' \in Seq(0..Connections) /\ Len(popped') = Len(popped) + 1
  BY <1>t, <1>1, <1>2, AppendProperties DEF Queue!TypeOK
<1>4. Queue!TypeOK'
  BY <1>t, <1>1, <1>3, NextType DEF Queue!TypeOK
<1>5. Queue!Queued' = Queue!Queued - 1 /\ Queue!Queued \in 1..Number - 1
  BY <1>t, <1>1, PopQueued, QueuedType DEF QueueAssumptions, Queue!NumberAssumption
<1>6. ~overrun => fd[front] = Len(popped) + 1
  <2>1. front \in Queue!Indices /\ Behind(front) = 0
    BY <1>t DEF Queue!TypeOK, Behind, Queue!Indices
  <2>2. QED
    BY <2>1, <1>2, <1>5 DEF QueueInv, RingInv
<1>7. ~overrun' => RingInv'
  <2> SUFFICES ASSUME ~overrun', NEW k \in Queue!Indices, Behind(k)' < Queue!Queued'
               PROVE  fd[k] = Len(popped') + 1 + Behind(k)'
    BY <1>1 DEF RingInv, Queue!Indices
  <2>1. k \in Int /\ front \in 0..Number - 1 /\ Number \in Nat /\ k \in 0..Number - 1
    BY <1>t DEF Queue!TypeOK, Queue!Indices, QueueAssumptions, Queue!NumberAssumption
  <2>2. Behind(k) = Behind(k)' + 1 /\ Behind(k)' \in Int
    BY <1>1, <1>5, <2>1 DEF Behind, Queue!next
  <2>3. Behind(k) < Queue!Queued
    BY <2>2, <1>5
  <2>4. fd[k] = Len(popped) + 1 + Behind(k)
    BY <2>3, <1>1 DEF QueueInv, RingInv
  <2>5. QED
    BY <2>4, <2>2, <1>3, <1>2
<1>8. Queue!InOrder'
  <2> SUFFICES ASSUME ~overrun
               PROVE  popped' = [k \in 1..Len(popped') |-> k]
            /\ Queue!Queued' = pushed - Len(popped')
    BY <1>1 DEF Queue!InOrder
  <2>1. popped = [k \in 1..Len(popped) |-> k] /\ Queue!Queued = pushed - Len(popped)
    BY DEF QueueInv, Queue!InOrder
  <2>2. popped' = [k \in 1..Len(popped) + 1 |-> IF k <= Len(popped) THEN popped[k] ELSE fd[front]]
    BY <1>1, <1>2, <1>t, AppendProperties DEF Queue!TypeOK
  <2>3. QED
    BY <2>1, <2>2, <1>2, <1>3, <1>5, <1>6
<1>9. IdleInv'
  <2>1. w \in Queue!Awake /\ Queue!Awake' = Queue!Awake \ {w} /\ Queue!Waiting' = Queue!Waiting
    BY <1>1, <1>t DEF Queue!Awake, Queue!Waiting, Queue!TypeOK
  <2>2. Cardinality(Queue!Awake') = Cardinality(Queue!Awake) - 1
    BY <2>1, OneLess
  <2>3. QED
    BY <2>1, <2>2, <1>5, AwakeFinite DEF QueueInv, IdleInv
<1>10. QED
  BY <1>4, <1>7, <1>8, <1>9 DEF QueueInv

-----------------------------------------------------------------------------
(* The steps that leave the ring alone.                                    *)

LEMMA RingKept ==
    ASSUME QueueAssumptions, QueueInv, UNCHANGED <<Queue!ring, pushed, popped, overrun>>
    PROVE  (~overrun' => RingInv') /\ Queue!InOrder' /\ Queue!Queued' = Queue!Queued
BY DEF QueueInv, RingInv, Queue!InOrder, Queue!Queued, Behind, Queue!ring, Queue!Indices

\* A worker that finds the ring empty waits: it leaves nobody's connection.
LEMMA WaitInv ==
    ASSUME QueueAssumptions, QueueInv, NEW w \in Clients, Queue!block_queue_pop(w), front = rear
    PROVE  QueueInv'
<1>1. thread' = [thread EXCEPT ![w] = "wait"] /\ UNCHANGED <<Queue!ring, pushed, popped,
       spurious, overrun>>
  BY DEF Queue!block_queue_pop, Queue!Empty, Queue!ring
<1>2. Queue!TypeOK /\ Queue!TypeOK'
  BY <1>1 DEF QueueInv, Queue!TypeOK, Queue!ring
<1>3. Queue!Queued' = 0
  BY <1>1, <1>2, RingKept, QueuedType
<1>4. Cardinality(Queue!Awake') \in Nat
  <2>1. Queue!Awake' \subseteq Clients
    BY DEF Queue!Awake
  <2>2. QED
    BY <2>1, FS_Subset, FS_CardinalityType DEF QueueAssumptions
<1>5. QED
  BY <1>1, <1>2, <1>3, <1>4, RingKept DEF QueueInv, IdleInv

\* A worker that wakes up, or has served its connection, is one more awake.
LEMMA WakeInv ==
    ASSUME QueueAssumptions, QueueInv, NEW w \in Clients,
        Queue!spurious_wakeup(w) \/ Queue!loop_echo(w)
    PROVE  QueueInv'
<1>1. PICK p \in {"woken", "pop"} : thread' = [thread EXCEPT ![w] = p]
  BY DEF Queue!spurious_wakeup, Queue!loop_echo
<1>2. thread[w] \in {"wait", "serve"} /\ UNCHANGED <<Queue!ring, pushed, popped, overrun>>
  BY DEF Queue!spurious_wakeup, Queue!loop_echo
<1>3. spurious' \in 0..Spurious
  BY DEF QueueInv, Queue!TypeOK, Queue!spurious_wakeup, Queue!loop_echo, QueueAssumptions,
         Queue!NumberAssumption
<1>4. Queue!TypeOK /\ Queue!TypeOK'
  BY <1>1, <1>2, <1>3 DEF QueueInv, Queue!TypeOK, Queue!ring
<1>5. w \notin Queue!Awake /\ Queue!Awake' = Queue!Awake \cup {w}
       /\ Queue!Waiting' \subseteq Queue!Waiting
  BY <1>1, <1>2, <1>4 DEF Queue!TypeOK, Queue!Awake, Queue!Waiting
<1>6. Cardinality(Queue!Awake') = Cardinality(Queue!Awake) + 1
  BY <1>5, OneMore
<1>7. IdleInv'
  BY <1>4, <1>5, <1>6, <1>2, RingKept, AwakeFinite, QueuedType DEF QueueInv, IdleInv
<1>8. QED
  BY <1>2, <1>4, <1>7, RingKept DEF QueueInv

\* When the process has ended nobody waits.
LEMMA EndInv == ASSUME QueueAssumptions, QueueInv, Queue!error PROVE QueueInv'
<1>1. /\ thread' = [w \in Clients |-> "ended"]
      /\ UNCHANGED <<Queue!ring, pushed, popped, overrun, spurious>>
  BY DEF Queue!error
<1>2. Queue!TypeOK'
  BY <1>1 DEF QueueInv, Queue!TypeOK, Queue!ring
<1>3. Queue!Waiting' = {}
  BY <1>1 DEF Queue!Waiting
<1>4. QED
  BY <1>1, <1>2, <1>3, RingKept DEF QueueInv, IdleInv

LEMMA QueueStepInv == ASSUME QueueAssumptions, QueueInv, [Queue!Next]_(Queue!vars) PROVE QueueInv'
<1>1. CASE Queue!block_queue_push
  BY <1>1, PushInv
<1>2. ASSUME NEW w \in Clients, Queue!block_queue_pop(w) PROVE QueueInv'
  BY <1>2, TakeInv, WaitInv
<1>3. ASSUME NEW w \in Clients, Queue!spurious_wakeup(w) \/ Queue!loop_echo(w) PROVE QueueInv'
  BY <1>3, WakeInv
<1>6. CASE Queue!error
  BY <1>6, EndInv
<1>4. CASE UNCHANGED Queue!vars
  BY <1>4 DEF Queue!vars, Queue!ring, QueueInv, Queue!TypeOK, RingInv, Behind, Queue!Indices,
            Queue!Queued, Queue!InOrder, IdleInv,
              Queue!Awake, Queue!Waiting
<1>5. QED
  BY <1>1, <1>2, <1>3, <1>4, <1>6 DEF Queue!Next, Queue!thread_run

LEMMA OthersStep == ASSUME [Next]_vars PROVE Queue!Next \/ UNCHANGED queueVars
BY DEF Next, vars, others, NonblockingNext, PollNext, EpollNext, ForkNext, ThreadNext,
       GraceNext, HeartbeatNext, ReadersNext, DatagramsNext, ConnectedNext, QueueNext

LEMMA QueueInvariant == Spec => []QueueInv
<1>1. Init => QueueInv
  BY QueueAssumed, QueueInitInv DEF Init
<1>2. QueueInv /\ [Next]_vars => QueueInv'
  <2>1. UNCHANGED queueVars => UNCHANGED Queue!vars
    BY DEF queueVars, Queue!vars, Queue!ring
  <2>2. QED
    BY <2>1, QueueAssumed, OthersStep, QueueStepInv
<1>3. QED
  BY <1>1, <1>2, PTL DEF Spec

\* Connections are popped from the queue of chapter 26 in the order in which
\* they were pushed, none is missing, and the others are in the ring, as long
\* as the ring was never full (thread02.c:33-56).
THEOREM QueueInOrder == Spec => []InOrder
<1>1. QueueInv => InOrder
  BY DEF QueueInv, InOrder
<1>2. QED
  BY <1>1, QueueInvariant, PTL

\* The workers of that queue only wait when as many as there are connections
\* in the ring are on their way to it (thread02.c:42-52).
THEOREM QueueSignals == Spec => []NoIdleWorker
<1>1. QueueInv => NoIdleWorker
  <2>1. Cardinality(Queue!Awake) = Queue!Cardinality(Queue!Awake)
    BY Zenon DEF Cardinality, Queue!Cardinality
  <2>2. QED
    BY <2>1 DEF QueueInv, IdleInv, NoIdleWorker, Queue!NoIdleWorker
<1>2. QED
  BY <1>1, QueueInvariant, PTL

-----------------------------------------------------------------------------
(* The heartbeat of chapter 12.                                            *)

LEMMA HeartbeatStep == ASSUME [Next]_vars PROVE Ping!Next \/ UNCHANGED heartbeatVars
BY DEF Next, vars, others, NonblockingNext, PollNext, EpollNext, ForkNext, ThreadNext,
       GraceNext, HeartbeatNext, ReadersNext, DatagramsNext, ConnectedNext, QueueNext

\* The types, and what the round that is under way leaves of the timeout.
HeartbeatType ==
    /\ Ping!TypeOK
    /\ client = "run" => heartbeats <= KEEP_ALIVE_PROBETIMES
    /\ heartbeats = 0 => tv <= KEEP_ALIVE_TIME
    /\ heartbeats > 0 => tv <= KEEP_ALIVE_INTERVAL

\* The ticks until the client gives up are within its patience.
QuietInv ==
    /\ ~ silent => quiet = 0
    /\ silent => pongs = 0
    /\ silent /\ client = "run" /\ ~ typed =>
          quiet + tv + (KEEP_ALIVE_PROBETIMES - heartbeats) * KEEP_ALIVE_INTERVAL
              <= Ping!Patience

\* The ticks since the first ping of the round.
Elapsed == heartbeats * KEEP_ALIVE_INTERVAL - tv

\* A server that is awake when the client's time is over has read all that
\* came, so that the ping it is sent next is read from its beginning.
AlignedInv ==
    client = "run" /\ ~ silent /\ ~ Ping!Heard /\ server = "read" /\ tv = 0 => pings = <<>>

\* During a round the server is asleep, and was not longer awake than the
\* round lasts; or its first ping is yet to be read, and no time has passed.
Answering ==
    \/ server = "sleep" /\ nap + Elapsed <= sleepingTime
    \/ server = "read" /\ Elapsed <= 0 /\ pings # <<>> /\ Head(pings) # "tail"

RoundInv ==
    client = "run" /\ heartbeats > 0 /\ ~ silent /\ ~ Ping!Heard => Answering

HeartbeatInv == HeartbeatType /\ QuietInv /\ AlignedInv /\ RoundInv /\ LiveServerIsKept

LEMMA Products ==
    ASSUME NEW n \in Int, NEW m \in Int, NEW p \in Int
    PROVE  n * m \in Int /\ (n + 1) * m = n * m + m /\ (p - (n + 1)) * m = (p - n) * m - m
           /\ 0 * m = 0 /\ 1 * m = m /\ (p - n) * m = p * m - n * m /\ (p - 0) * m = p * m
OBVIOUS

LEMMA ProductsGrow ==
    ASSUME NEW n \in Nat, NEW p \in Nat, n <= p, NEW m \in Nat
    PROVE  n * m <= p * m
OBVIOUS

LEMMA Sums ==
    ASSUME NEW n \in Int, NEW m \in {n, n + 1}, NEW k \in Int, NEW r \in Int
    PROVE  /\ m + (k - 1) + r <= n + k + r
           /\ k + n <= r => (k - 1) + m <= r
OBVIOUS

LEMMA Times ==
    ASSUME Ping!TimesAssumption
    PROVE  /\ KEEP_ALIVE_TIME \in Nat \ {0} /\ KEEP_ALIVE_INTERVAL \in Nat \ {0}
           /\ KEEP_ALIVE_PROBETIMES \in Nat \ {0}
           /\ \A s \in SleepingTimes : s \in Nat
BY DEF Ping!TimesAssumption

LEMMA HeartbeatInit == ASSUME Ping!TimesAssumption, Init PROVE HeartbeatInv
<1> USE Times
<1>1. Ping!ClientInit /\ Ping!ServerInit /\ silent = FALSE /\ quiet = 0
  BY DEF Init, Ping!Init
<1>2. pings \in Seq({"ping", "head", "tail"})
  BY <1>1 DEF Ping!ServerInit
<1>3. HeartbeatType
  <2>1. /\ client = "run" /\ heartbeats = 0 /\ tv = KEEP_ALIVE_TIME /\ typed = FALSE
        /\ server = "read" /\ nap = 0 /\ pongs = 0 /\ sleepingTime \in SleepingTimes
    BY <1>1 DEF Ping!ClientInit, Ping!ServerInit
  <2>2. /\ heartbeats \in 0..KEEP_ALIVE_PROBETIMES + 1
        /\ tv \in 0..KEEP_ALIVE_TIME /\ nap \in 0..sleepingTime
        /\ pongs \in Nat /\ quiet \in Nat
    BY <1>1, <2>1
  <2>3. Ping!TypeOK
    BY <1>1, <1>2, <2>1, <2>2, Zenon DEF Ping!TypeOK
  <2>4. heartbeats <= KEEP_ALIVE_PROBETIMES /\ tv <= KEEP_ALIVE_TIME /\ ~ heartbeats > 0
    BY <2>1
  <2> QED BY <2>3, <2>4, Zenon DEF HeartbeatType
<1> QED
  BY <1>1, <1>3 DEF HeartbeatInv, QuietInv, AlignedInv, RoundInv, LiveServerIsKept,
     Ping!LiveServerIsKept, Ping!ClientInit, Ping!ServerInit

LEMMA HeartbeatTypeStep ==
    ASSUME Ping!TimesAssumption, HeartbeatType, Ping!Next
    PROVE  HeartbeatType'
<1> USE Times DEF HeartbeatType, Ping!TypeOK, Ping!clientVars, Ping!serverVars
<1>1. CASE Ping!timeout
  <2>1. pings' \in Seq({"ping", "head", "tail"})
    <3> DEFINE Pieces == {"ping", "head", "tail"}
    <3>1. pings \in Seq(Pieces) /\ <<"head", "tail">> \in Seq(Pieces) /\ "ping" \in Pieces
      OBVIOUS
    <3> HIDE DEF Pieces
    <3>2. Append(pings, "ping") \in Seq(Pieces) /\ pings \o <<"head", "tail">> \in Seq(Pieces)
      BY <3>1
    <3>3. pings' \in {pings, Append(pings, "ping"), pings \o <<"head", "tail">>}
      BY <1>1 DEF Ping!timeout
    <3> QED BY <3>1, <3>2, <3>3 DEF Pieces
  <2>2. /\ client' \in {"run", "dead"} /\ heartbeats' = heartbeats + 1
        /\ client' = "run" => heartbeats' <= KEEP_ALIVE_PROBETIMES
        /\ tv' \in {tv, KEEP_ALIVE_INTERVAL} /\ tv = 0
        /\ UNCHANGED <<typed, server, sleepingTime, nap, pongs, silent, quiet>>
    BY <1>1 DEF Ping!timeout, Ping!GiveUp
  <2> QED BY <1>1, <2>1, <2>2 DEF Ping!timeout
<1>2. CASE Ping!received
  BY <1>2 DEF Ping!received, Ping!Reset
<1>3. CASE Ping!type_line
  BY <1>3 DEF Ping!type_line
<1>4. CASE Ping!read
  <2>1. pings' \in Seq({"ping", "head", "tail"})
    <3>1. Len(pings) \in Nat /\ pings # <<>>
      BY <1>4 DEF Ping!read
    <3>2. Tail(pings) \in Seq({"ping", "head", "tail"})
      BY <3>1
    <3>3. CASE pings' = Tail(pings)
      BY <3>2, <3>3
    <3>4. CASE Ping!read_joined
      <4>1. Len(pings) > 1
        BY <3>4 DEF Ping!read_joined
      <4>2. Len(Tail(pings)) = Len(pings) - 1
        BY <3>1
      <4>3. Tail(Tail(pings)) \in Seq({"ping", "head", "tail"})
        <5> DEFINE rest == Tail(pings)
        <5>1. rest \in Seq({"ping", "head", "tail"}) /\ Len(rest) > 0
          BY <3>1, <3>2, <4>1, <4>2
        <5> HIDE DEF rest
        <5>2. Tail(rest) \in Seq({"ping", "head", "tail"})
          <6>1. rest # <<>>
            BY <5>1
          <6> QED BY <5>1, <6>1
        <5> QED BY <5>2 DEF rest
      <4>4. [Tail(pings) EXCEPT ![1] = "tail"] \in Seq({"ping", "head", "tail"})
        BY <3>2, <4>1, <4>2
      <4> QED BY <3>4, <4>3, <4>4 DEF Ping!read_joined
    <3> QED BY <1>4, <3>3, <3>4 DEF Ping!read
  <2> QED BY <1>4, <2>1 DEF Ping!read
<1>5. CASE Ping!pong
  BY <1>5 DEF Ping!pong
<1>6. CASE Ping!cut
  BY <1>6 DEF Ping!cut
<1>7. CASE Ping!tick
  BY <1>7 DEF Ping!tick, Ping!Left
<1> QED BY <1>1, <1>2, <1>3, <1>4, <1>5, <1>6, <1>7 DEF Ping!Next

\* Silence: the ticks until the client gives up only get fewer.
LEMMA QuietStep ==
    ASSUME Ping!TimesAssumption, HeartbeatType, QuietInv, Ping!Next
    PROVE  QuietInv'
<1> USE Times DEF Ping!clientVars, Ping!serverVars
<1> DEFINE Rest == (KEEP_ALIVE_PROBETIMES - heartbeats) * KEEP_ALIVE_INTERVAL
<1>1. /\ heartbeats \in 0..KEEP_ALIVE_PROBETIMES + 1 /\ tv \in Nat /\ quiet \in Nat
      /\ heartbeats = 0 => tv <= KEEP_ALIVE_TIME
      /\ heartbeats > 0 => tv <= KEEP_ALIVE_INTERVAL
      /\ client = "run" => heartbeats <= KEEP_ALIVE_PROBETIMES
      /\ pongs \in Nat /\ silent \in BOOLEAN /\ typed \in BOOLEAN
  BY DEF HeartbeatType, Ping!TypeOK
<1>2. Rest \in Int
  BY <1>1
<1>3. CASE Ping!timeout
  <2>1. CASE client' = "run"
    <3>1. /\ heartbeats' = heartbeats + 1 /\ tv' = KEEP_ALIVE_INTERVAL /\ tv = 0
          /\ UNCHANGED <<typed, silent, quiet, pongs>> /\ client = "run"
      BY <1>3, <2>1 DEF Ping!timeout
    <3>2. Rest' = Rest - KEEP_ALIVE_INTERVAL
      BY <1>1, <3>1, Products
    <3>3. quiet' + tv' + Rest' = quiet + tv + Rest
      BY <1>1, <1>2, <3>1, <3>2
    <3> QED BY <3>1, <3>3 DEF QuietInv, Ping!Patience
  <2>2. CASE client' # "run"
    BY <1>3, <2>2 DEF Ping!timeout, QuietInv
  <2> QED BY <2>1, <2>2
<1>4. CASE Ping!received
  BY <1>1, <1>4 DEF Ping!received, Ping!Heard, QuietInv
<1>5. CASE Ping!type_line
  BY <1>5 DEF Ping!type_line, QuietInv
<1>6. CASE Ping!read
  BY <1>6 DEF Ping!read, QuietInv, Ping!Patience
<1>7. CASE Ping!pong
  BY <1>7 DEF Ping!pong, QuietInv
<1>8. CASE Ping!cut
  <2>1. /\ quiet' = 0 /\ heartbeats' = heartbeats /\ tv' = tv /\ silent' /\ pongs' = 0
        /\ client = "run"
    BY <1>8 DEF Ping!cut, QuietInv
  <2>2. tv + Rest <= Ping!Patience
    <3>1. CASE heartbeats = 0
      BY <1>1, <3>1, Products DEF Ping!Patience
    <3>2. CASE heartbeats > 0
      <4>1. heartbeats * KEEP_ALIVE_INTERVAL >= KEEP_ALIVE_INTERVAL
        BY <1>1, <2>1, <3>2, Products, ProductsGrow
      <4>2. /\ Rest = KEEP_ALIVE_PROBETIMES * KEEP_ALIVE_INTERVAL
                          - heartbeats * KEEP_ALIVE_INTERVAL
            /\ KEEP_ALIVE_PROBETIMES * KEEP_ALIVE_INTERVAL \in Int
            /\ heartbeats * KEEP_ALIVE_INTERVAL \in Int
        BY <1>1, Products
      <4> QED BY <1>1, <3>2, <4>1, <4>2 DEF Ping!Patience
    <3> QED BY <1>1, <3>1, <3>2
  <2> QED BY <1>1, <1>2, <2>1, <2>2 DEF QuietInv, Ping!Patience
<1>9. CASE Ping!tick
  <2>1. /\ tv' = Ping!Left(tv) /\ UNCHANGED <<heartbeats, silent, pongs, typed, client>>
        /\ ~ typed => tv > 0
        /\ quiet' \in {quiet, quiet + 1}
        /\ ~ silent => quiet' = quiet
    BY <1>9 DEF Ping!tick, Ping!Waiting
  <2>2. ~ typed => tv' = tv - 1
    BY <1>1, <2>1 DEF Ping!Left
  <2>3. Rest' = Rest
    BY <2>1
  <2> HIDE DEF Rest
  <2>4. ~ typed => quiet' + tv' + Rest' <= quiet + tv + Rest
    <3>1. quiet' + (tv - 1) + Rest <= quiet + tv + Rest
      <4>1. quiet \in Int /\ tv \in Int
        BY <1>1
      <4> QED BY <1>2, <2>1, <4>1, Sums, Zenon
    <3> QED BY <2>2, <2>3, <3>1, Zenon
  <2>5. Ping!Patience \in Int /\ Ping!Patience' = Ping!Patience
    BY Products DEF Ping!Patience
  <2>6. silent /\ client = "run" /\ ~ typed => quiet + tv + Rest <= Ping!Patience
    BY DEF QuietInv, Rest
  <2>7. quiet' \in Int
    BY <1>1, <2>1
  <2>8. ASSUME silent', client' = "run", ~ typed'
        PROVE  quiet' + tv' + Rest' <= Ping!Patience'
    <3>1. tv' = tv - 1 /\ quiet + tv + Rest <= Ping!Patience
      BY <2>1, <2>2, <2>6, <2>8
    <3>2. quiet' + tv' + Rest' <= quiet + tv + Rest
      BY <2>1, <2>4, <2>8
    <3>3. quiet + tv + Rest \in Int /\ quiet' + tv' + Rest' \in Int
      BY <1>1, <1>2, <2>3, <2>7, <3>1
    <3> QED BY <2>5, <3>1, <3>2, <3>3
  <2>9. (~ silent' => quiet' = 0) /\ (silent' => pongs' = 0)
    BY <2>1 DEF QuietInv
  <2>10. silent' /\ client' = "run" /\ ~ typed' =>
            quiet' + tv' + (KEEP_ALIVE_PROBETIMES - heartbeats') * KEEP_ALIVE_INTERVAL
                <= Ping!Patience'
    BY <2>8 DEF Rest
  <2> QED BY <2>9, <2>10 DEF QuietInv
<1> QED BY <1>3, <1>4, <1>5, <1>6, <1>7, <1>8, <1>9 DEF Ping!Next

\* Time passes only when an awake server has nothing to read, and the client
\* sends only when its time is over, which takes a tick.
LEMMA AlignedStep ==
    ASSUME Ping!TimesAssumption, HeartbeatType, AlignedInv, Ping!Next
    PROVE  AlignedInv'
<1> USE Times DEF Ping!clientVars, Ping!serverVars
<1>1. CASE Ping!timeout
  BY <1>1 DEF Ping!timeout, AlignedInv
<1>2. CASE Ping!received
  BY <1>2 DEF Ping!received, AlignedInv, Ping!Heard
<1>3. CASE Ping!type_line
  BY <1>3 DEF Ping!type_line, AlignedInv, Ping!Heard
<1>4. CASE Ping!read
  <2>1. ASSUME AlignedInv!1'
        PROVE  FALSE
    BY <1>4, <2>1 DEF Ping!read, AlignedInv, Ping!Heard
  <2> QED BY <2>1 DEF AlignedInv
<1>5. CASE Ping!pong
  <2>1. pongs' > 0
    BY <1>5 DEF Ping!pong, HeartbeatType, Ping!TypeOK
  <2> QED BY <2>1 DEF AlignedInv, Ping!Heard
<1>6. CASE Ping!cut
  BY <1>6 DEF Ping!cut, AlignedInv
<1>7. CASE Ping!tick
  BY <1>7 DEF Ping!tick, Ping!Waiting, AlignedInv, Ping!Heard
<1> QED BY <1>1, <1>2, <1>3, <1>4, <1>5, <1>6, <1>7 DEF Ping!Next

\* A round: the server is on its way to the answer to the first ping of it.
LEMMA RoundStep ==
    ASSUME Ping!TimesAssumption, HeartbeatType, AlignedInv, RoundInv, Ping!Next
    PROVE  RoundInv'
<1> USE Times DEF Ping!clientVars, Ping!serverVars
<1>1. /\ heartbeats \in 0..KEEP_ALIVE_PROBETIMES + 1 /\ tv \in Nat
      /\ heartbeats > 0 => tv <= KEEP_ALIVE_INTERVAL
      /\ pongs \in Nat /\ silent \in BOOLEAN /\ typed \in BOOLEAN
      /\ sleepingTime \in Nat /\ nap \in 0..sleepingTime
      /\ server \in {"read", "sleep", "exited"}
  BY DEF HeartbeatType, Ping!TypeOK
<1>2. Elapsed \in Int
  BY <1>1, Products DEF Elapsed
<1>3. pings \in Seq({"ping", "head", "tail"})
  BY DEF HeartbeatType, Ping!TypeOK
<1> SUFFICES ASSUME (client = "run" /\ heartbeats > 0 /\ ~ silent /\ ~ Ping!Heard)'
             PROVE  Answering'
  BY DEF RoundInv
<1>4. CASE Ping!timeout
  <2>1. /\ client = "run" /\ ~ silent /\ ~ Ping!Heard /\ tv = 0
        /\ heartbeats' = heartbeats + 1 /\ tv' = KEEP_ALIVE_INTERVAL
        /\ UNCHANGED <<server, sleepingTime, nap, silent, pongs>>
        /\ \/ pings' = Append(pings, "ping")
           \/ heartbeats' = 1 /\ pings' = pings \o <<"head", "tail">>
    BY <1>4 DEF Ping!timeout
  <2>2. Elapsed' = Elapsed
    BY <1>1, <2>1, Products DEF Elapsed
  <2>3. server # "exited"
    BY <2>1 DEF Ping!Heard
  <2>4. CASE server = "read"
    <3>1. pings = <<>>
      BY <2>1, <2>4 DEF AlignedInv
    <3>2. pings' # <<>> /\ Head(pings') # "tail"
      <4>1. CASE pings' = Append(pings, "ping")
        <5>1. pings' = <<"ping">>
          BY <3>1, <4>1
        <5> QED BY <5>1
      <4>2. CASE pings' = pings \o <<"head", "tail">>
        <5>1. pings' = <<"head", "tail">>
          BY <3>1, <4>2
        <5> QED BY <5>1
      <4> QED BY <2>1, <4>1, <4>2
    <3>3. heartbeats = 0
      <4>1. heartbeats > 0 => Answering
        BY <2>1 DEF RoundInv
      <4> QED BY <1>1, <2>4, <3>1, <4>1 DEF Answering
    <3>4. Elapsed' = 0
      BY <1>1, <2>1, <2>2, <3>3, Products DEF Elapsed
    <3> QED BY <2>1, <2>4, <3>2, <3>4 DEF Answering
  <2>5. CASE server = "sleep"
    <3>1. CASE heartbeats = 0
      <4>1. Elapsed = 0
        BY <1>1, <2>1, <3>1, Products DEF Elapsed
      <4> QED BY <1>1, <2>1, <2>2, <2>5, <4>1 DEF Answering
    <3>2. CASE heartbeats > 0
      <4>1. Answering
        BY <2>1, <3>2 DEF RoundInv
      <4> QED BY <2>1, <2>2, <2>5, <4>1 DEF Answering
    <3> QED BY <1>1, <3>1, <3>2
  <2> QED BY <1>1, <2>3, <2>4, <2>5
<1>5. CASE Ping!received
  BY <1>1, <1>5 DEF Ping!received, Ping!Reset
<1>6. CASE Ping!type_line
  <2>1. Answering /\ UNCHANGED Elapsed
    BY <1>6 DEF Ping!type_line, RoundInv, Ping!Heard, Elapsed
  <2> QED BY <1>6, <2>1 DEF Ping!type_line, Answering
<1>7. CASE Ping!read
  <2>1. Answering /\ server = "read" /\ UNCHANGED <<Elapsed, sleepingTime, silent, pongs>>
    BY <1>7 DEF Ping!read, RoundInv, Ping!Heard, Elapsed
  <2>2. Elapsed <= 0 /\ Head(pings) # "tail"
    BY <2>1 DEF Answering
  <2>3. server' = "sleep" /\ nap' = sleepingTime
    BY <1>7, <2>2 DEF Ping!read
  <2> QED BY <1>1, <1>2, <2>1, <2>2, <2>3 DEF Answering
<1>8. CASE Ping!pong
  BY <1>1, <1>8 DEF Ping!pong, Ping!Heard
<1>9. CASE Ping!cut
  BY <1>9 DEF Ping!cut
<1>10. CASE Ping!tick
  <2>1. /\ UNCHANGED <<client, heartbeats, typed, server, sleepingTime, pings, pongs, silent>>
        /\ tv' = Ping!Left(tv) /\ nap' = Ping!Left(nap)
    BY <1>10 DEF Ping!tick
  <2>2. Answering
    BY <2>1 DEF RoundInv, Ping!Heard
  <2>3. server = "sleep" /\ nap > 0
    <3>1. server = "read" => pings # <<>>
      BY <1>3, <2>2 DEF Answering
    <3>2. server # "exited"
      BY <2>2 DEF Answering
    <3> QED BY <1>10, <2>1, <3>1, <3>2 DEF Ping!tick, Ping!Waiting
  <2>4. nap' = nap - 1 /\ tv' \in {tv, tv - 1}
    BY <1>1, <2>1, <2>3 DEF Ping!Left
  <2>5. Elapsed' \in {Elapsed, Elapsed + 1}
    BY <1>1, <2>1, <2>4, Products DEF Elapsed
  <2>6. nap + Elapsed <= sleepingTime
    BY <2>2, <2>3 DEF Answering
  <2>7. nap' + Elapsed' <= sleepingTime
    <3>1. nap \in Int /\ nap' = nap - 1 /\ sleepingTime \in Int
      BY <1>1, <2>4
    <3>2. (nap - 1) + Elapsed' <= sleepingTime
      BY <1>2, <2>5, <2>6, <3>1, Sums, Zenon
    <3> QED BY <3>1, <3>2, Zenon
  <2>8. server' = "sleep" /\ sleepingTime' = sleepingTime
    BY <2>1, <2>3
  <2> QED BY <2>7, <2>8 DEF Answering
<1> QED BY <1>4, <1>5, <1>6, <1>7, <1>8, <1>9, <1>10 DEF Ping!Next

LEMMA KeptStep ==
    ASSUME Ping!TimesAssumption, HeartbeatInv, Ping!Next
    PROVE  LiveServerIsKept'
<1> USE Times DEF Ping!clientVars, Ping!serverVars
<1>1. CASE client = "dead"
  <2>1. silent \/ sleepingTime >= KEEP_ALIVE_PROBETIMES * KEEP_ALIVE_INTERVAL
    BY <1>1 DEF HeartbeatInv, LiveServerIsKept, Ping!LiveServerIsKept
  <2>2. sleepingTime' = sleepingTime /\ (silent => silent')
    BY DEF Ping!Next, Ping!timeout, Ping!received, Ping!type_line, Ping!read, Ping!pong,
           Ping!cut, Ping!tick
  <2> QED BY <2>1, <2>2 DEF LiveServerIsKept, Ping!LiveServerIsKept
<1>2. CASE client # "dead" /\ client' = "dead" /\ ~ silent'
  <2>1. Ping!timeout /\ client = "run"
    BY <1>2 DEF Ping!Next, Ping!timeout, Ping!received, Ping!type_line, Ping!read,
       Ping!pong, Ping!cut, Ping!tick
  <2>2. /\ heartbeats + 1 > KEEP_ALIVE_PROBETIMES /\ tv = 0 /\ ~ Ping!Heard
        /\ UNCHANGED <<sleepingTime, silent>>
    BY <1>2, <2>1 DEF Ping!timeout, Ping!GiveUp
  <2>3. heartbeats = KEEP_ALIVE_PROBETIMES /\ sleepingTime \in Nat /\ nap \in Nat
    BY <2>1, <2>2 DEF HeartbeatInv, HeartbeatType, Ping!TypeOK
  <2>4. Answering
    BY <1>2, <2>1, <2>2, <2>3 DEF HeartbeatInv, RoundInv
  <2>5. Elapsed = KEEP_ALIVE_PROBETIMES * KEEP_ALIVE_INTERVAL /\ Elapsed \in Int
    BY <2>2, <2>3, Products DEF Elapsed
  <2>6. Elapsed > 0
    BY <2>5, Products, ProductsGrow
  <2>7. nap + Elapsed <= sleepingTime
    BY <2>4, <2>5, <2>6 DEF Answering
  <2> QED BY <2>2, <2>3, <2>5, <2>7 DEF LiveServerIsKept, Ping!LiveServerIsKept
<1> QED BY <1>1, <1>2 DEF LiveServerIsKept, Ping!LiveServerIsKept

LEMMA HeartbeatHolds == Spec => []HeartbeatInv
<1>1. Ping!TimesAssumption
  BY OthersAssumption
<1>2. Init => HeartbeatInv
  BY <1>1, HeartbeatInit
<1>3. HeartbeatInv /\ [Next]_vars => HeartbeatInv'
  <2>1. ASSUME HeartbeatInv, Ping!Next PROVE HeartbeatInv'
    BY <1>1, <2>1, HeartbeatTypeStep, QuietStep, AlignedStep, RoundStep, KeptStep
        DEF HeartbeatInv
  <2>2. ASSUME HeartbeatInv, UNCHANGED heartbeatVars PROVE HeartbeatInv'
    BY <2>2 DEF heartbeatVars, HeartbeatInv, HeartbeatType, Ping!TypeOK, QuietInv,
       Ping!Patience, AlignedInv, RoundInv, Ping!Heard, Answering, Elapsed, LiveServerIsKept,
       Ping!LiveServerIsKept
  <2> QED BY <2>1, <2>2, HeartbeatStep
<1> QED BY <1>2, <1>3, PTL DEF Spec

\* The client of chapter 12 calls a connection dead only if the network is
\* cut, or if the server takes longer for an answer than the probes last,
\* for any three times and any order of what falls in one second
\* (pingclient.c:54-64).
THEOREM ServerKept == Spec => []LiveServerIsKept
<1>1. HeartbeatInv => LiveServerIsKept
  BY DEF HeartbeatInv
<1> QED BY <1>1, HeartbeatHolds, PTL

\* A server that falls silent is given up within KEEP_ALIVE_TIME and as many
\* intervals as there are probes, unless something was typed
\* (pingclient.c:50-77).
THEOREM SilenceNoticed == Spec => []SilenceIsNoticed
<1>1. HeartbeatInv => SilenceIsNoticed
  <2> SUFFICES ASSUME HeartbeatInv, silent, client = "run", ~ typed
               PROVE  quiet <= Ping!Patience
    BY DEF SilenceIsNoticed, Ping!SilenceIsNoticed, HeartbeatInv, HeartbeatType, Ping!TypeOK
  <2>1. /\ quiet \in Nat /\ tv \in Nat /\ heartbeats \in Nat
        /\ KEEP_ALIVE_PROBETIMES - heartbeats \in Nat
    BY Times, OthersAssumption DEF HeartbeatInv, HeartbeatType, Ping!TypeOK
  <2>2. (KEEP_ALIVE_PROBETIMES - heartbeats) * KEEP_ALIVE_INTERVAL \in Nat
    BY <2>1, Times, OthersAssumption
  <2>3. Ping!Patience \in Int
    BY Times, OthersAssumption, Products DEF Ping!Patience
  <2>4. quiet + tv + (KEEP_ALIVE_PROBETIMES - heartbeats) * KEEP_ALIVE_INTERVAL
            <= Ping!Patience
    BY DEF HeartbeatInv, QuietInv
  <2> QED BY <2>1, <2>2, <2>3, <2>4
<1> QED BY <1>1, HeartbeatHolds, PTL

-----------------------------------------------------------------------------
(* The readers of lines and messages.                                      *)
(*                                                                         *)
(* The records, what the call under way has put into its buffer, and what  *)
(* is still to be read are the stream, in this order.  For read_line each  *)
(* end of a line counts as a line feed; for read_message what is still to  *)
(* be read is known part by part.                                          *)

LEMMA ReadersStep == ASSUME [Next]_vars PROVE Reader!Next \/ UNCHANGED readerVars
BY DEF Next, vars, others, NonblockingNext, PollNext, EpollNext, ForkNext, ThreadNext,
       GraceNext, HeartbeatNext, ReadersNext, DatagramsNext, ConnectedNext, QueueNext

Bytes ==
    IF function = "read_message" THEN Nat ELSE {stream[k] : k \in DOMAIN stream} \cup {Reader!NL}

\* What read_line makes of each byte, and the messages.
Ends ==
    [k \in DOMAIN stream |->
        IF stream[k] = Reader!NL /\ k > 1 /\ stream[k - 1] = Reader!CR THEN <<>>
        ELSE IF stream[k] = Reader!CR THEN <<Reader!NL>> ELSE <<stream[k]>>]
Parcels == [k \in DOMAIN written |-> Reader!message(written[k])]

\* What comes after the first n.
StreamAfter(n) == SubSeq(stream, n + 1, Len(stream))
EndsAfter(n) == FlattenSeq(SubSeq(Ends, n + 1, Len(Ends)))
ParcelsAfter(n) == FlattenSeq(SubSeq(Parcels, n + 1, Len(Parcels)))

LaterAt(n) == IF function = "read_line" THEN EndsAfter(n) ELSE StreamAfter(n)
NoFeed(s) == \A k \in 1..Len(s) : s[k] # Reader!NL

\* A carriage return was not taken without the line feed that follows it.
LineInv ==
    /\ Reader!Text = FlattenSeq(records) \o (line \o LaterAt(got))
    /\ NoFeed(line)
    /\ function = "read_line" /\ got \in 1..Len(stream) - 1 /\ stream[got] = Reader!CR
          => stream[got + 1] # Reader!NL

Number1 == Len(records) + 1
Size == IF field = "body" THEN msg_length ELSE Reader!sizeof_u_int32_t
MessageInv ==
    /\ Len(records) <= Len(written) /\ records = SubSeq(written, 1, Len(records))
    /\ Len(line) < Size
    /\ field = "length" => line \o StreamAfter(got) = ParcelsAfter(Len(records))
    /\ field # "length" => Number1 <= Len(written) /\ msg_length = Len(written[Number1])
    /\ field = "type" =>
          line \o StreamAfter(got) = <<1, 0>> \o (written[Number1] \o ParcelsAfter(Number1))
    /\ field = "body" =>
          line \o StreamAfter(got) = written[Number1] \o ParcelsAfter(Number1)

ReaderType ==
    /\ function \in {"readline", "readline_2", "read_line", "read_message"}
    /\ stream \in Seq(Bytes)
    /\ function = "read_message" => written \in Seq(Seq(Nat) \ {<<>>})
    /\ arrived \in 0..Len(stream) /\ got \in 0..arrived
    /\ line \in Seq(Bytes) /\ records \in Seq(Seq(Bytes))
    /\ field \in {"length", "type", "body"} /\ msg_length \in Nat
    /\ ahead \in BOOLEAN /\ status \in {"ok", "closed", "error"}

ReaderInv ==
    /\ ReaderType
    /\ RecordsIntact
    /\ status = "ok" => IF function = "read_message" THEN MessageInv ELSE ahead \/ LineInv

\* What an instance makes of the community modules is theirs.
LEMMA ReaderOperators ==
    /\ \A s : Reader!FlattenSeq(s) = FlattenSeq(s)
    /\ \A s, t : Reader!IsPrefix(s, t) <=> IsPrefix(s, t)
    /\ \A S : Reader!Min(S) = Min(S)
<1>1. \A s : Reader!FlattenSeq(s) = FlattenSeq(s)
  BY DEF Reader!FlattenSeq, FlattenSeq
<1>2. \A s, t : Reader!IsPrefix(s, t) <=> IsPrefix(s, t)
  BY DEF Reader!IsPrefix, IsPrefix
<1>3. \A S : Reader!Min(S) = Min(S)
  BY DEF Reader!Min, Min
<1> QED BY <1>1, <1>2, <1>3

\* The first line feed of a text.
LEMMA FeedFound ==
    ASSUME NEW S, NEW s \in Seq(S)
    PROVE  /\ Reader!Feed(s) \in 0..Len(s)
           /\ Reader!Feed(s) = 0 => NoFeed(s)
           /\ Reader!Feed(s) # 0 =>
                 /\ s[Reader!Feed(s)] = Reader!NL
                 /\ \A k \in 1..Reader!Feed(s) - 1 : s[k] # Reader!NL
<1> DEFINE I == {k \in 1..Len(s) : s[k] = Reader!NL}
<1>1. Reader!Feed(s) = IF I # {} THEN Min(I) ELSE 0
  BY ReaderOperators DEF Reader!Feed, Reader!SelectInSeq
<1>2. Len(s) \in Nat /\ I \subseteq Nat
  BY LenProperties
<1>3. I # {} => Min(I) \in I /\ \A k \in I : Min(I) <= k
  BY <1>2, MinNatural
<1>4. CASE I = {}
  <2>1. Reader!Feed(s) = 0
    BY <1>1, <1>4
  <2> QED BY <1>2, <1>4, <2>1 DEF NoFeed
<1>5. CASE I # {}
  <2> DEFINE m == Min(I)
  <2>1. Reader!Feed(s) = m /\ m \in I /\ \A k \in I : m <= k
    BY <1>1, <1>3, <1>5
  <2> HIDE DEF m
  <2> QED BY <1>2, <2>1
<1> QED BY <1>4, <1>5

\* What a text ends with decides, if there is no line feed in front.
LEMMA FeedLast ==
    ASSUME NEW S, NEW s \in Seq(S), NEW n \in 1..Len(s), s[n] = Reader!NL,
           \A k \in 1..n - 1 : s[k] # Reader!NL
    PROVE  Reader!Feed(s) = n
<1>1. Len(s) \in Nat
  BY LenProperties
<1>2. Reader!Feed(s) # 0
  BY FeedFound DEF NoFeed
<1>3. /\ Reader!Feed(s) \in 1..Len(s) /\ s[Reader!Feed(s)] = Reader!NL
      /\ \A k \in 1..Reader!Feed(s) - 1 : s[k] # Reader!NL
  BY <1>1, <1>2, FeedFound
<1> DEFINE f == Reader!Feed(s)
<1>4. f \in 1..Len(s) /\ s[f] = Reader!NL /\ \A k \in 1..f - 1 : s[k] # Reader!NL
  BY <1>3
<1> HIDE DEF f
<1>5. f = n
  BY <1>1, <1>4
<1> QED BY <1>5 DEF f

LEMMA NoFeedFound ==
    ASSUME NEW S, NEW s \in Seq(S), NoFeed(s)
    PROVE  Reader!Feed(s) = 0
<1>1. Len(s) \in Nat
  BY LenProperties
<1> DEFINE f == Reader!Feed(s)
<1>2. f \in 0..Len(s) /\ (f # 0 => s[f] = Reader!NL)
  BY FeedFound
<1> HIDE DEF f
<1>3. f = 0
  BY <1>1, <1>2 DEF NoFeed
<1> QED BY <1>3 DEF f

-----------------------------------------------------------------------------
\* What is still to be read.
LEMMA StreamParts ==
    ASSUME ReaderType, NEW n \in 0..Len(stream), NEW m \in n..Len(stream)
    PROVE  /\ StreamAfter(n) \in Seq(Bytes) /\ StreamAfter(m) \in Seq(Bytes)
           /\ SubSeq(stream, n + 1, m) \in Seq(Bytes)
           /\ Len(SubSeq(stream, n + 1, m)) = m - n
           /\ \A k \in 1..m - n : SubSeq(stream, n + 1, m)[k] = stream[n + k]
           /\ StreamAfter(n) = SubSeq(stream, n + 1, m) \o StreamAfter(m)
<1>1. stream \in Seq(Bytes) /\ Len(stream) \in Nat /\ m \in 0..Len(stream)
  BY LenProperties DEF ReaderType
<1>2. StreamAfter(n) \in Seq(Bytes) /\ StreamAfter(m) \in Seq(Bytes)
  BY <1>1, SplitAt DEF StreamAfter
<1>3. /\ SubSeq(stream, n + 1, m) \in Seq(Bytes) /\ Len(SubSeq(stream, n + 1, m)) = m - n
      /\ \A k \in 1..m - n : SubSeq(stream, n + 1, m)[k] = stream[n + k]
      /\ SubSeq(stream, n + 1, Len(stream))
             = SubSeq(stream, n + 1, m) \o SubSeq(stream, m + 1, Len(stream))
  BY <1>1, SplitRest
<1> QED BY <1>2, <1>3 DEF StreamAfter

LEMMA EndsType ==
    ASSUME ReaderType, function = "read_line"
    PROVE  /\ Ends \in Seq(Seq(Bytes)) /\ Len(Ends) = Len(stream)
           /\ \A n \in 0..Len(stream) : EndsAfter(n) \in Seq(Bytes)
           /\ \A k \in 1..Len(stream) : stream[k] \in Bytes
<1>1. /\ stream \in Seq(Bytes) /\ Len(stream) \in Nat /\ DOMAIN stream = 1..Len(stream)
      /\ \A k \in 1..Len(stream) : stream[k] \in Bytes
  BY LenProperties, ElementOfSeq DEF ReaderType
<1>2. Reader!NL \in Bytes
  BY DEF Bytes
<1>3. ASSUME NEW k \in 1..Len(stream) PROVE Ends[k] \in Seq(Bytes)
  <2>1. <<>> \in Seq(Bytes) /\ <<Reader!NL>> \in Seq(Bytes) /\ <<stream[k]>> \in Seq(Bytes)
    BY <1>1, <1>2
  <2> QED BY <1>1, <2>1, Zenon DEF Ends
<1>4. Ends = [k \in 1..Len(stream) |-> Ends[k]]
  BY <1>1 DEF Ends
<1>5. Ends \in [1..Len(stream) -> Seq(Bytes)]
  BY <1>3, <1>4, Zenon
<1>6. Ends \in Seq(Seq(Bytes)) /\ Len(Ends) = Len(stream)
  BY <1>1, <1>5
<1>7. ASSUME NEW n \in 0..Len(stream) PROVE EndsAfter(n) \in Seq(Bytes)
  <2>1. SubSeq(Ends, n + 1, Len(Ends)) \in Seq(Seq(Bytes))
    BY <1>6, SplitAt
  <2> QED BY <2>1, FlattenType DEF EndsAfter
<1> QED BY <1>1, <1>6, <1>7

LEMMA EndsParts ==
    ASSUME ReaderType, function = "read_line", NEW n \in 0..Len(stream) - 1
    PROVE  EndsAfter(n) = Ends[n + 1] \o EndsAfter(n + 1)
<1>1. Ends \in Seq(Seq(Bytes)) /\ Len(Ends) = Len(stream) /\ Len(stream) \in Nat
  BY EndsType, LenProperties DEF ReaderType
<1>2. n \in Nat /\ n < Len(Ends) /\ (n + 1) + 1 = n + 2
  BY <1>1
<1> QED BY <1>1, <1>2, FlattenRest DEF EndsAfter

LEMMA LaterType ==
    ASSUME ReaderType, NEW n \in 0..Len(stream)
    PROVE  LaterAt(n) \in Seq(Bytes)
<1>1. Len(stream) \in Nat
  BY LenProperties DEF ReaderType
<1>2. n \in n..Len(stream)
  BY <1>1
<1> QED BY <1>2, EndsType, StreamParts DEF LaterAt

LEMMA TextIsLater ==
    ASSUME ReaderType, function # "read_message"
    PROVE  Reader!Text = LaterAt(0)
<1>1. stream \in Seq(Bytes) /\ DOMAIN stream = 1..Len(stream) /\ 0 + 1 = 1
  BY LenProperties DEF ReaderType
<1>2. CASE function = "read_line"
  <2>1. Reader!OneEnd(stream) = FlattenSeq(Ends)
    BY ReaderOperators, Zenon DEF Reader!OneEnd, Ends
  <2>2. SubSeq(Ends, 1, Len(Ends)) = Ends
    BY <1>2, EndsType, SubSeqFull
  <2> QED BY <1>1, <1>2, <2>1, <2>2 DEF Reader!Text, LaterAt, EndsAfter
<1>3. CASE function # "read_line"
  BY <1>1, <1>3, SubSeqFull DEF Reader!Text, LaterAt, StreamAfter
<1> QED BY <1>2, <1>3

LEMMA StreamKept ==
    ASSUME UNCHANGED <<function, stream>>
    PROVE  /\ Bytes' = Bytes /\ Reader!Text' = Reader!Text
           /\ \A n : LaterAt(n)' = LaterAt(n) /\ StreamAfter(n)' = StreamAfter(n)
BY DEF Bytes, Reader!Text, LaterAt, EndsAfter, Ends, StreamAfter

LEMMA BytesConcat ==
    /\ \A x, y, z \in Seq(Bytes) : (x \o y) \o z = x \o (y \o z)
    /\ \A x, y, z \in Seq(Nat) : (x \o y) \o z = x \o (y \o z)
<1>1. ASSUME NEW x \in Seq(Bytes), NEW y \in Seq(Bytes), NEW z \in Seq(Bytes)
      PROVE  (x \o y) \o z = x \o (y \o z)
  BY ConcatAssociative, SMTT(30)
<1>2. ASSUME NEW x \in Seq(Nat), NEW y \in Seq(Nat), NEW z \in Seq(Nat)
      PROVE  (x \o y) \o z = x \o (y \o z)
  BY ConcatAssociative, SMTT(30)
<1> QED BY <1>1, <1>2, Zenon

-----------------------------------------------------------------------------
\* x is taken and put behind the line, which then is a record or grows.
LEMMA LineTakes ==
    ASSUME ReaderType, LineInv, function # "read_message",
           NEW m \in got..Len(stream), NEW x \in Seq(Bytes), LaterAt(got) = x \o LaterAt(m)
    PROVE  /\ line \o x \in Seq(Bytes) /\ Append(records, line \o x) \in Seq(Seq(Bytes))
           /\ FlattenSeq(records) \in Seq(Bytes) /\ LaterAt(m) \in Seq(Bytes)
           /\ FlattenSeq(Append(records, line \o x)) \in Seq(Bytes)
           /\ Reader!Text = FlattenSeq(records) \o ((line \o x) \o LaterAt(m))
           /\ Reader!Text = FlattenSeq(Append(records, line \o x)) \o (<<>> \o LaterAt(m))
<1>1. /\ line \in Seq(Bytes) /\ records \in Seq(Seq(Bytes)) /\ Len(stream) \in Nat
      /\ got \in 0..Len(stream) /\ m \in 0..Len(stream)
  BY LenProperties DEF ReaderType
<1> DEFINE later == LaterAt(m)
           buf == line \o x
           flat == FlattenSeq(records)
<1>2. later \in Seq(Bytes) /\ flat \in Seq(Bytes) /\ buf \in Seq(Bytes)
  BY <1>1, LaterType, FlattenType, ConcatProperties
<1>3. Append(records, buf) \in Seq(Seq(Bytes)) /\ FlattenSeq(Append(records, buf)) = flat \o buf
  BY <1>1, <1>2, FlattenAppend, AppendProperties
<1>4. Reader!Text = flat \o (line \o (x \o later))
  BY DEF LineInv
<1> HIDE DEF later, flat
<1>5. line \o (x \o later) = buf \o later
  BY <1>1, <1>2, BytesConcat, Zenon DEF buf
<1> HIDE DEF buf
<1>6. flat \o (buf \o later) = (flat \o buf) \o later /\ <<>> \o later = later
  BY <1>2, BytesConcat, ConcatEmptySeq, Zenon
<1>7. flat \o buf \in Seq(Bytes)
  BY <1>2, ConcatProperties
<1>8. Reader!Text = flat \o (buf \o later)
  BY <1>4, <1>5
<1>9. Reader!Text = FlattenSeq(Append(records, buf)) \o (<<>> \o later)
  BY <1>3, <1>6, <1>8
<1> QED BY <1>2, <1>3, <1>7, <1>8, <1>9 DEF later, flat, buf

\* A record is a line, if eof says whether the stream has ended.
LineFor(record, eof) ==
    \/ Reader!Feed(record) = Len(record)
    \/ /\ function = "read_line" /\ Reader!Feed(record) = 0
       /\ Len(record) = Limit - 1 \/ eof
LinesIn(s, eof) == \A k \in DOMAIN s : LineFor(s[k], eof)

LineStep(m) ==
    /\ ReaderType /\ RecordsIntact /\ LineInv /\ ~ ahead
    /\ function # "read_message" /\ status = "ok"
    /\ UNCHANGED <<function, written, stream, ahead>>
    /\ got' = m /\ m \in got..Len(stream)

LEMMA LinesBefore ==
    ASSUME NEW m, LineStep(m)
    PROVE  LinesIn(records, got = Len(stream))
BY Zenon DEF LineStep, RecordsIntact, Reader!RecordsIntact, Reader!IsLine, Reader!Eof, LinesIn, LineFor

LEMMA IntactHere ==
    ASSUME function' # "read_message", status' = "ok",
           IsPrefix(FlattenSeq(records') \o line', Reader!Text'),
           (\A k \in DOMAIN records : Reader!IsLine(records[k]))'
    PROVE  RecordsIntact'
BY ReaderOperators, Zenon DEF RecordsIntact, Reader!RecordsIntact, Reader!Returned

LEMMA LineReturned ==
    ASSUME NEW m, LineStep(m), NEW x \in Seq(Bytes), LaterAt(got) = x \o LaterAt(m),
           records' = Append(records, line \o x), line' = <<>>, status' = "ok",
           LineFor(line \o x, m = Len(stream)),
           function = "read_line" /\ m \in 1..Len(stream) - 1 /\ stream[m] = Reader!CR
               => stream[m + 1] # Reader!NL
    PROVE  LineInv' /\ RecordsIntact'
<1> USE DEF LineStep
<1>1. /\ line \o x \in Seq(Bytes) /\ FlattenSeq(records') \in Seq(Bytes)
      /\ LaterAt(m) \in Seq(Bytes) /\ records' \in Seq(Seq(Bytes))
      /\ Reader!Text = FlattenSeq(records') \o (<<>> \o LaterAt(m))
  BY LineTakes
<1>2. Reader!Text' = Reader!Text /\ LaterAt(got)' = LaterAt(m)
  BY StreamKept, Zenon
<1>3. LineInv'
  <2>1. NoFeed(<<>>)
    BY EmptySeq DEF NoFeed
  <2> QED BY <1>1, <1>2, <2>1, Zenon DEF LineInv
<1>4. IsPrefix(FlattenSeq(records') \o <<>>, Reader!Text)
  <2>1. <<>> \in Seq(Bytes)
    OBVIOUS
  <2> QED BY <1>1, <2>1, PrefixOfParts, Zenon
<1>5. LinesIn(records', m = Len(stream))
  <2> SUFFICES ASSUME NEW k \in DOMAIN records'
               PROVE  LineFor(records'[k], m = Len(stream))
    BY DEF LinesIn
  <2>1. /\ records \in Seq(Seq(Bytes)) /\ Len(records) \in Nat
        /\ Len(records') = Len(records) + 1 /\ DOMAIN records' = 1..Len(records')
        /\ records'[Len(records) + 1] = line \o x
        /\ \A j \in 1..Len(records) : records'[j] = records[j] /\ j \in DOMAIN records
    <3>1. records \in Seq(Seq(Bytes)) /\ line \o x \in Seq(Bytes)
      BY <1>1 DEF ReaderType
    <3>2. Len(records) \in Nat /\ DOMAIN records = 1..Len(records)
          /\ DOMAIN records' = 1..Len(records')
      BY <1>1, <3>1, LenProperties, Zenon
    <3> QED BY <3>1, <3>2, AppendProperties
  <2>2. CASE k = Len(records) + 1
    BY <2>1, <2>2, Zenon
  <2>3. CASE k \in 1..Len(records)
    <3>1. records'[k] = records[k] /\ LineFor(records[k], got = Len(stream))
      BY <2>1, <2>3, LinesBefore DEF LinesIn
    <3>2. got = Len(stream) => m = Len(stream)
      BY LenProperties DEF ReaderType
    <3> QED BY <3>1, <3>2, Zenon DEF LineFor
  <2>4. k = Len(records) + 1 \/ k \in 1..Len(records)
    BY <2>1
  <2> QED BY <2>2, <2>3, <2>4, Zenon
<1>6. (\A k \in DOMAIN records : Reader!IsLine(records[k]))'
  BY <1>5, Zenon DEF LinesIn, LineFor, Reader!IsLine, Reader!Eof
<1>7. IsPrefix(FlattenSeq(records') \o line', Reader!Text')
  BY <1>2, <1>4, Zenon
<1> QED BY <1>3, <1>6, <1>7, IntactHere, Zenon

\* The first line feed is the one of a front, or behind it.
LEMMA FeedBehind ==
    ASSUME NEW S, NEW s \in Seq(S), NEW t \in Seq(S), NEW n \in Nat, n <= Len(s),
           Reader!Feed(s) \notin 1..n
    PROVE  Reader!Feed(s \o t) = 0 \/ Reader!Feed(s \o t) > n
<1> DEFINE u == s \o t
<1>1. /\ u \in Seq(S) /\ Len(s) \in Nat /\ Len(t) \in Nat /\ Len(u) = Len(s) + Len(t)
      /\ \A k \in 1..Len(s) + Len(t) : u[k] = IF k <= Len(s) THEN s[k] ELSE t[k - Len(s)]
  BY ConcatProperties, LenProperties
<1> HIDE DEF u
<1> DEFINE f == Reader!Feed(u)
<1>2. /\ f \in 0..Len(u)
      /\ f # 0 => u[f] = Reader!NL /\ \A k \in 1..f - 1 : u[k] # Reader!NL
  BY <1>1, FeedFound
<1> HIDE DEF f
<1>3. ASSUME f # 0, f <= n PROVE FALSE
  <2>1. f \in 1..Len(s) /\ s[f] = Reader!NL /\ \A k \in 1..f - 1 : s[k] # Reader!NL
    BY <1>1, <1>2, <1>3
  <2>2. Reader!Feed(s) = f
    BY <2>1, FeedLast
  <2> QED BY <1>1, <1>2, <1>3, <2>2
<1>4. f = 0 \/ f > n
  BY <1>1, <1>2, <1>3
<1> QED BY <1>4 DEF f, u

LEMMA NoFeedConcat ==
    ASSUME NEW S, NEW s \in Seq(S), NEW t \in Seq(S), NoFeed(s), NoFeed(t)
    PROVE  NoFeed(s \o t)
<1> DEFINE u == s \o t
<1>1. /\ Len(s) \in Nat /\ Len(t) \in Nat /\ Len(u) = Len(s) + Len(t)
      /\ \A k \in 1..Len(s) + Len(t) : u[k] = IF k <= Len(s) THEN s[k] ELSE t[k - Len(s)]
  BY ConcatProperties, LenProperties
<1> HIDE DEF u
<1>2. NoFeed(u)
  BY <1>1 DEF NoFeed
<1> QED BY <1>2 DEF u

LEMMA LineGrows ==
    ASSUME NEW m, LineStep(m), NEW x \in Seq(Bytes), LaterAt(got) = x \o LaterAt(m),
           records' = records, line' = line \o x, status' = "ok", NoFeed(line \o x),
           function = "read_line" /\ m \in 1..Len(stream) - 1 /\ stream[m] = Reader!CR
               => stream[m + 1] # Reader!NL
    PROVE  LineInv' /\ RecordsIntact'
<1> USE DEF LineStep
<1>1. /\ line' \in Seq(Bytes) /\ FlattenSeq(records) \in Seq(Bytes) /\ LaterAt(m) \in Seq(Bytes)
      /\ Reader!Text = FlattenSeq(records) \o (line' \o LaterAt(m))
  BY LineTakes
<1>2. Reader!Text' = Reader!Text /\ LaterAt(got)' = LaterAt(m)
  BY StreamKept, Zenon
<1>3. LineInv'
  BY <1>1, <1>2, Zenon DEF LineInv, NoFeed
<1>4. IsPrefix(FlattenSeq(records) \o line', Reader!Text)
  BY <1>1, PrefixOfParts, Zenon
<1>5. LinesIn(records, m = Len(stream))
  <2>1. got = Len(stream) => m = Len(stream)
    BY LenProperties DEF ReaderType
  <2> QED BY <2>1, LinesBefore, Zenon DEF LinesIn, LineFor
<1>6. (\A k \in DOMAIN records : Reader!IsLine(records[k]))'
  BY <1>5, Zenon DEF LinesIn, LineFor, Reader!IsLine, Reader!Eof
<1>7. IsPrefix(FlattenSeq(records') \o line', Reader!Text')
  BY <1>2, <1>4, Zenon
<1> QED BY <1>3, <1>6, <1>7, IntactHere, Zenon

\* The call ends without a record.
LEMMA LineFails ==
    ASSUME NEW m, LineStep(m), UNCHANGED <<records, line>>,
           \/ /\ status' = "closed" /\ Reader!Feed(line \o LaterAt(got)) = 0
           \/ /\ status' = "error"
              /\ \/ Reader!Feed(line \o LaterAt(got)) = 0
                 \/ Reader!Feed(line \o LaterAt(got)) >= Limit
    PROVE  RecordsIntact'
<1> USE DEF LineStep
<1>1. /\ line \in Seq(Bytes) /\ FlattenSeq(records) \in Seq(Bytes) /\ LaterAt(got) \in Seq(Bytes)
      /\ Reader!Text = FlattenSeq(records) \o (line \o LaterAt(got))
  <2>1. got \in 0..Len(stream)
    BY LenProperties DEF ReaderType
  <2> QED BY <2>1, LaterType, FlattenType DEF LineInv, ReaderType
<1>2. Reader!Text' = Reader!Text
  BY StreamKept, Zenon
<1>3. /\ IsPrefix(FlattenSeq(records) \o line, Reader!Text)
      /\ SubSeq(Reader!Text, Len(FlattenSeq(records)) + 1, Len(Reader!Text))
             = line \o LaterAt(got)
  <2> DEFINE flat == FlattenSeq(records)
             later == LaterAt(got)
             text == Reader!Text
  <2>1. /\ line \in Seq(Bytes) /\ flat \in Seq(Bytes) /\ later \in Seq(Bytes)
        /\ text = flat \o (line \o later)
    BY <1>1
  <2> HIDE DEF flat, later, text
  <2>2. IsPrefix(flat \o line, text)
    BY <2>1, PrefixOfParts, Zenon
  <2>3. SubSeq(text, Len(flat) + 1, Len(text)) = line \o later
    <3> DEFINE u == line \o later
    <3>1. u \in Seq(Bytes) /\ text = flat \o u
      BY <2>1, ConcatProperties
    <3> HIDE DEF u
    <3>2. SubSeq(flat \o u, Len(flat) + 1, Len(flat \o u)) = u
      BY <2>1, <3>1, PrefixOfConcat
    <3> QED BY <3>1, <3>2 DEF u
  <2> QED BY <2>2, <2>3 DEF flat, later, text
<1>4. Reader!Rest' = line \o LaterAt(got)
  BY <1>2, <1>3, ReaderOperators, Zenon DEF Reader!Rest, Reader!Returned
<1>5. LinesIn(records, m = Len(stream))
  <2>1. got = Len(stream) => m = Len(stream)
    BY LenProperties DEF ReaderType
  <2> QED BY <2>1, LinesBefore, Zenon DEF LinesIn, LineFor
<1>6. (\A k \in DOMAIN records : Reader!IsLine(records[k]))'
  BY <1>5, Zenon DEF LinesIn, LineFor, Reader!IsLine, Reader!Eof
<1>7. IsPrefix(FlattenSeq(records') \o line', Reader!Text')
  BY <1>2, <1>3, Zenon
<1>8. Reader!Feed(Reader!Rest') = Reader!Feed(line \o LaterAt(got))
  BY <1>4, Zenon
<1>9. \/ status' = "closed" /\ Reader!Feed(Reader!Rest') = 0
      \/ status' = "error" /\ (Reader!Feed(Reader!Rest') = 0 \/ Reader!Feed(Reader!Rest') >= Limit)
  BY <1>8, Zenon
<1> QED BY <1>6, <1>7, <1>9, ReaderOperators, Zenon
         DEF RecordsIntact, Reader!RecordsIntact, Reader!Returned

LEMMA UnreadParts ==
    ASSUME ReaderType
    PROVE  /\ Reader!Unread \in Seq(Bytes) /\ Len(Reader!Unread) = arrived - got
           /\ \A k \in 1..arrived - got : Reader!Unread[k] = stream[got + k]
           /\ StreamAfter(got) = Reader!Unread \o StreamAfter(arrived)
           /\ Reader!Unread # <<>> => got < arrived /\ Head(Reader!Unread) = stream[got + 1]
<1>1. /\ Len(stream) \in Nat /\ got \in 0..Len(stream) /\ arrived \in got..Len(stream)
      /\ stream \in Seq(Bytes)
  BY LenProperties DEF ReaderType
<1>2. ASSUME Reader!Unread # <<>>
      PROVE  got < arrived /\ Head(Reader!Unread) = stream[got + 1]
  <2>1. got + 1 \in Int /\ arrived \in Int
    BY <1>1
  <2>2. ~ arrived < got + 1
    BY <1>2, <2>1, SubSeqEmpty DEF Reader!Unread
  <2>3. got + 1 \in 1..Len(stream) /\ arrived \in got + 1..Len(stream) /\ got < arrived
    BY <1>1, <2>2
  <2> QED BY <1>1, <2>3, HeadTailOfSubSeq DEF Reader!Unread
<1> QED BY <1>1, <1>2, StreamParts DEF Reader!Unread

LEMMA LineOverruns ==
    ASSUME NEW m, LineStep(m), NEW x \in Seq(Bytes), LaterAt(got) = x \o LaterAt(m),
           NEW n \in Nat, n <= Len(line \o x), Reader!Feed(line \o x) \notin 1..n
    PROVE  \/ Reader!Feed(line \o LaterAt(got)) = 0
           \/ /\ Reader!Feed(line \o LaterAt(got)) \in Nat
              /\ Reader!Feed(line \o LaterAt(got)) > n
<1> DEFINE later == LaterAt(m)
           buf == line \o x
<1>1. line \in Seq(Bytes) /\ later \in Seq(Bytes) /\ LaterAt(got) = x \o later
  BY LineTakes DEF LineStep, ReaderType
<1>2. buf \in Seq(Bytes) /\ buf \o later \in Seq(Bytes)
  BY <1>1, ConcatProperties
<1> HIDE DEF later
<1>3. line \o LaterAt(got) = buf \o later
  <2>1. (line \o x) \o later = line \o (x \o later)
    BY <1>1, BytesConcat, Zenon
  <2> QED BY <1>1, <2>1
<1> HIDE DEF buf
<1>4. Reader!Feed(buf \o later) = 0 \/ Reader!Feed(buf \o later) > n
  <2>1. n <= Len(buf) /\ Reader!Feed(buf) \notin 1..n
    BY DEF buf
  <2> QED BY <1>1, <1>2, <2>1, FeedBehind, Zenon
<1>5. Reader!Feed(buf \o later) \in Nat
  <2>1. /\ Reader!Feed(buf \o later) \in 0..Len(buf \o later)
        /\ Len(buf \o later) \in Nat
    BY <1>2, FeedFound, LenProperties, Zenon
  <2> QED BY <2>1
<1> QED BY <1>3, <1>4, <1>5

\* At the end of the stream nothing is left.
LEMMA LaterEnds ==
    ASSUME ReaderType, Reader!Eof
    PROVE  LaterAt(got) = <<>> /\ line \o LaterAt(got) = line
<1>1. Len(stream) \in Nat /\ got = Len(stream) /\ line \in Seq(Bytes)
  BY LenProperties DEF Reader!Eof, ReaderType
<1>2. LaterAt(got) = <<>>
  <2>1. CASE function = "read_line"
    <3>1. Len(Ends) = Len(stream) /\ SubSeq(Ends, got + 1, Len(Ends)) = <<>>
      BY <1>1, <2>1, EndsType, SubSeqEmpty
    <3> QED BY <2>1, <3>1, FlattenEmpty, Zenon DEF LaterAt, EndsAfter
  <2>2. CASE function # "read_line"
    BY <1>1, <2>2, SubSeqEmpty DEF LaterAt, StreamAfter
  <2> QED BY <2>1, <2>2
<1> QED BY <1>1, <1>2, ConcatEmptySeq

LEMMA LineEnds ==
    ASSUME LineStep(got), Reader!Eof, UNCHANGED <<records, line>>, status' \in {"closed", "error"}
    PROVE  RecordsIntact'
<1>1. line \o LaterAt(got) = line /\ line \in Seq(Bytes) /\ NoFeed(line)
  BY LaterEnds DEF LineStep, LineInv, ReaderType
<1>2. Reader!Feed(line) = 0
  BY <1>1, NoFeedFound
<1>3. Reader!Feed(line \o LaterAt(got)) = 0
  BY <1>1, <1>2, Zenon
<1>4. \E m : m = got /\ LineStep(m)
  OBVIOUS
<1> QED BY <1>3, <1>4, LineFails, Zenon

-----------------------------------------------------------------------------
(* Each function.                                                          *)

LEMMA readlineStep ==
    ASSUME ReaderType, ReaderType', RecordsIntact, ahead \/ LineInv, Reader!LimitAssumption,
           status = "ok", function = "readline", Reader!readline,
           UNCHANGED <<function, written, stream, arrived>>
    PROVE  RecordsIntact' /\ (status' = "ok" => ahead' \/ LineInv')
<1>1. CASE ahead'
  BY <1>1, Zenon DEF RecordsIntact, Reader!RecordsIntact
<1>2. CASE ~ ahead'
  <2> DEFINE m == arrived
             x == Reader!Unread
             buf == Reader!Buffer
  <2>1. ~ ahead /\ UNCHANGED ahead
    BY <1>2 DEF Reader!readline, ReaderType
  <2>2. LineStep(m)
    <3>1. got' = arrived
      BY DEF Reader!readline
    <3>2. Len(stream) \in Nat
      BY LenProperties DEF ReaderType
    <3> QED BY <2>1, <3>1, <3>2 DEF LineStep, ReaderType
  <2>3. x \in Seq(Bytes) /\ LaterAt(got) = x \o LaterAt(m)
    BY UnreadParts DEF LaterAt
  <2>4. CASE Reader!Eof /\ Reader!Fail("closed")
    <3>1. m = got
      BY <2>4, LenProperties DEF Reader!Eof, ReaderType
    <3>2. LineStep(got)
      BY <2>2, <3>1, Zenon
    <3>3. RecordsIntact'
      BY <2>4, <3>2, LineEnds DEF Reader!Fail
    <3> QED BY <2>4, <3>3 DEF Reader!Fail
  <2>5. /\ buf = line \o x /\ buf \in Seq(Bytes) /\ Len(buf) \in Nat
        /\ Reader!Feed(buf) \in 0..Len(buf)
    BY <2>3, ConcatProperties, LenProperties, FeedFound DEF Reader!Buffer, ReaderType
  <2>6. ASSUME x # <<>>, Reader!Feed(buf) \in 1..Limit - 1,
               Reader!Return(SubSeq(buf, 1, Reader!Feed(buf))),
               ahead' = (ahead \/ Len(buf) > Reader!Feed(buf))
        PROVE  RecordsIntact' /\ LineInv'
    <3>1. Reader!Feed(buf) = Len(buf)
      <4>1. ~ Len(buf) > Reader!Feed(buf)
        BY <1>2, <2>6, Zenon
      <4> DEFINE f == Reader!Feed(buf)
                 n == Len(buf)
      <4>2. f \in 0..n /\ n \in Nat /\ ~ n > f
        BY <2>5, <4>1
      <4> HIDE DEF f, n
      <4>3. f = n
        BY <4>2
      <4> QED BY <4>3 DEF f, n
    <3>2. SubSeq(buf, 1, Reader!Feed(buf)) = line \o x
      BY <2>5, <3>1, SubSeqFull
    <3>3. records' = Append(records, line \o x) /\ line' = <<>> /\ status' = "ok"
      BY <2>6, <3>2 DEF Reader!Return
    <3>4. LineFor(line \o x, m = Len(stream))
      BY <2>5, <3>1 DEF LineFor
    <3> HIDE DEF m, x
    <3> QED BY <2>2, <2>3, <3>3, <3>4, LineReturned
  <2>7. ASSUME x # <<>>, Reader!Feed(buf) \notin 1..Limit - 1, ~ Len(buf) >= Limit - 1,
               Reader!More(buf)
        PROVE  RecordsIntact' /\ LineInv'
    <3>1. Reader!Feed(buf) = 0
      BY <2>5, <2>7 DEF Reader!LimitAssumption
    <3>2. NoFeed(line \o x)
      BY <2>5, <3>1, FeedFound
    <3>3. line' = line \o x /\ records' = records /\ status' = "ok"
      BY <2>5, <2>7 DEF Reader!More
    <3> HIDE DEF m, x
    <3> QED BY <2>2, <2>3, <3>2, <3>3, LineGrows
  <2>8. ASSUME x # <<>>, Reader!Feed(buf) \notin 1..Limit - 1, Len(buf) >= Limit - 1,
               Reader!Fail("error")
        PROVE  RecordsIntact'
    <3> DEFINE n == Limit - 1
    <3>1. /\ n \in Nat /\ n <= Len(line \o x) /\ Reader!Feed(line \o x) \notin 1..n
          /\ Limit = n + 1
      BY <2>5, <2>8 DEF Reader!LimitAssumption
    <3> HIDE DEF m, x, buf, n
    <3>2. \/ Reader!Feed(line \o LaterAt(got)) = 0
          \/ /\ Reader!Feed(line \o LaterAt(got)) \in Nat
             /\ Reader!Feed(line \o LaterAt(got)) > n
      BY <2>2, <2>3, <3>1, LineOverruns, Zenon
    <3>3. \/ Reader!Feed(line \o LaterAt(got)) = 0
          \/ Reader!Feed(line \o LaterAt(got)) >= Limit
      BY <3>1, <3>2
    <3> QED BY <2>2, <2>8, <3>3, LineFails, Zenon DEF Reader!Fail
  <2> HIDE DEF m, x, buf
  <2> QED BY <2>4, <2>6, <2>7, <2>8, Zenon DEF Reader!readline, Reader!Fail, x, buf
<1> QED BY <1>1, <1>2

\* One more byte behind a text without a line feed.
LEMMA ByteBehind ==
    ASSUME NEW s \in Seq(Bytes), NEW b \in Bytes
    PROVE  /\ <<b>> \in Seq(Bytes) /\ s \o <<b>> \in Seq(Bytes) /\ Append(s, b) = s \o <<b>>
           /\ Len(s \o <<b>>) = Len(s) + 1 /\ Len(s \o <<b>>) \in Nat
           /\ Reader!Last(s \o <<b>>) = b
           /\ (s \o <<b>>)[Len(s) + 1] = b /\ \A k \in 1..Len(s) : (s \o <<b>>)[k] = s[k]
<1> DEFINE u == s \o <<b>>
<1>1. <<b>> \in Seq(Bytes) /\ Len(<<b>>) = 1 /\ <<b>>[1] = b /\ Len(s) \in Nat
  BY LenProperties
<1>2. /\ u \in Seq(Bytes) /\ Len(u) = Len(s) + 1
      /\ \A k \in 1..Len(s) + 1 : u[k] = IF k <= Len(s) THEN s[k] ELSE <<b>>[k - Len(s)]
  BY <1>1, ConcatProperties
<1>3. Append(s, b) = u
  BY AppendIsConcat
<1> HIDE DEF u
<1>4. u[Len(s) + 1] = b /\ \A k \in 1..Len(s) : u[k] = s[k]
  BY <1>1, <1>2
<1>5. Len(u) \in Nat /\ Reader!Last(u) = b
  BY <1>1, <1>2, <1>4 DEF Reader!Last
<1> QED BY <1>1, <1>2, <1>3, <1>4, <1>5, Zenon DEF u

\* It is the first line feed, or there is still none.
LEMMA FeedAppended ==
    ASSUME NEW s \in Seq(Bytes), NoFeed(s), NEW b \in Bytes
    PROVE  /\ b = Reader!NL => Reader!Feed(s \o <<b>>) = Len(s \o <<b>>)
           /\ b # Reader!NL => NoFeed(s \o <<b>>) /\ Reader!Feed(s \o <<b>>) = 0
<1> DEFINE u == s \o <<b>>
<1>1. /\ u \in Seq(Bytes) /\ Len(s) \in Nat /\ Len(u) = Len(s) + 1
      /\ u[Len(s) + 1] = b /\ \A k \in 1..Len(s) : u[k] = s[k]
  BY ByteBehind, LenProperties, Zenon
<1> HIDE DEF u
<1>2. u[Len(u)] = b /\ Len(u) \in 1..Len(u) /\ \A k \in 1..Len(u) - 1 : u[k] # Reader!NL
  BY <1>1 DEF NoFeed
<1>3. b = Reader!NL => Reader!Feed(u) = Len(u)
  BY <1>1, <1>2, FeedLast
<1>4. b # Reader!NL => NoFeed(u)
  BY <1>1, <1>2 DEF NoFeed
<1>5. b # Reader!NL => Reader!Feed(u) = 0
  BY <1>1, <1>4, NoFeedFound
<1> QED BY <1>3, <1>4, <1>5, Zenon DEF u

LEMMA readline_2Step ==
    ASSUME ReaderType, ReaderType', RecordsIntact, ahead \/ LineInv, Reader!LimitAssumption,
           status = "ok", function = "readline_2", Reader!readline_2,
           UNCHANGED <<function, written, stream, arrived>>
    PROVE  RecordsIntact' /\ (status' = "ok" => ahead' \/ LineInv')
<1>1. UNCHANGED ahead
  BY DEF Reader!readline_2
<1>2. CASE ahead
  BY <1>1, <1>2, Zenon DEF RecordsIntact, Reader!RecordsIntact
<1>3. CASE ~ ahead /\ Reader!Eof /\ Reader!Fail("error") /\ UNCHANGED got
  <2>1. LineStep(got)
    BY <1>1, <1>3, LenProperties DEF LineStep, ReaderType
  <2> QED BY <1>3, <2>1, LineEnds DEF Reader!Fail
<1>4. CASE ~ ahead /\ Reader!Unread # <<>> /\ got' = got + 1
  <2> DEFINE m == got + 1
             c == stream[m]
             buf == line \o <<c>>
  <2>1. got < arrived /\ Head(Reader!Unread) = c
    BY <1>4, UnreadParts
  <2>2. m \in 1..Len(stream) /\ m \in got..Len(stream) /\ got' = m
    BY <1>4, <2>1, LenProperties DEF ReaderType
  <2>3. LineStep(m)
    BY <1>1, <1>4, <2>2 DEF LineStep
  <2>4. c \in Bytes /\ LaterAt(got) = <<c>> \o LaterAt(m)
    <3>1. stream \in Seq(Bytes) /\ Len(stream) \in m..Len(stream) /\ got + 2 = m + 1
      BY <2>2, LenProperties DEF ReaderType
    <3> QED BY <2>2, <3>1, SubSeqRecursiveFirst, ElementOfSeq DEF LaterAt, StreamAfter
  <2>5. /\ line \in Seq(Bytes) /\ NoFeed(line)
        /\ <<c>> \in Seq(Bytes) /\ buf \in Seq(Bytes) /\ Append(line, c) = buf
        /\ Len(buf) \in Nat
        /\ c = Reader!NL => Reader!Feed(buf) = Len(buf)
        /\ c # Reader!NL => NoFeed(buf) /\ Reader!Feed(buf) = 0
    <3>1. line \in Seq(Bytes) /\ NoFeed(line) /\ c \in Bytes
      BY <1>4, <2>4 DEF ReaderType, LineInv
    <3> HIDE DEF m, c
    <3>2. /\ <<c>> \in Seq(Bytes) /\ line \o <<c>> \in Seq(Bytes)
          /\ Append(line, c) = line \o <<c>> /\ Len(line \o <<c>>) \in Nat
      BY <3>1, ByteBehind, Zenon
    <3>3. /\ c = Reader!NL => Reader!Feed(line \o <<c>>) = Len(line \o <<c>>)
          /\ c # Reader!NL => NoFeed(line \o <<c>>) /\ Reader!Feed(line \o <<c>>) = 0
      BY <3>1, FeedAppended, Zenon
    <3> QED BY <3>1, <3>2, <3>3, Zenon
  <2>6. CASE c = Reader!NL /\ Reader!Return(buf)
    <3>1. LineFor(buf, m = Len(stream))
      BY <2>5, <2>6 DEF LineFor
    <3> HIDE DEF m, c
    <3> QED BY <2>3, <2>4, <2>5, <2>6, <3>1, LineReturned DEF Reader!Return
  <2>7. CASE c # Reader!NL /\ Reader!More(buf)
    <3> HIDE DEF m, c
    <3> QED BY <2>3, <2>4, <2>5, <2>7, LineGrows DEF Reader!More
  <2>8. CASE c # Reader!NL /\ Len(buf) = Limit /\ Reader!Fail("error")
    <3>1. Limit \in Nat /\ Limit <= Len(buf) /\ Reader!Feed(buf) \notin 1..Limit
      BY <2>5, <2>8 DEF Reader!LimitAssumption
    <3> DEFINE f == Reader!Feed(line \o LaterAt(got))
    <3>2. f = 0 \/ (f \in Nat /\ f > Limit)
      <4> HIDE DEF m, c
      <4> QED BY <2>3, <2>4, <2>5, <3>1, LineOverruns, Zenon
    <3>3. f = 0 \/ f >= Limit
      <4> HIDE DEF f
      <4> QED BY <3>1, <3>2
    <3> HIDE DEF m, c, buf
    <3> QED BY <2>3, <2>8, <3>3, LineFails, Zenon DEF Reader!Fail
  <2> HIDE DEF m
  <2>9. Reader!Unread # <<>> => Append(line, Head(Reader!Unread)) = buf
    BY <2>1, <2>5, Zenon
  <2>10. ~ (Reader!Eof /\ Reader!Fail("error") /\ UNCHANGED got)
    BY <1>4, LenProperties DEF ReaderType
  <2> HIDE DEF c, buf
  <2> QED BY <1>4, <2>1, <2>6, <2>7, <2>8, <2>9, <2>10, Zenon DEF Reader!readline_2
<1> QED BY <1>2, <1>3, <1>4 DEF Reader!readline_2

LEMMA read_lineStep ==
    ASSUME ReaderType, ReaderType', RecordsIntact, ahead \/ LineInv, Reader!LimitAssumption,
           status = "ok", function = "read_line", Reader!read_line,
           UNCHANGED <<function, written, stream, arrived>>
    PROVE  RecordsIntact' /\ (status' = "ok" => ahead' \/ LineInv')
<1>1. UNCHANGED ahead
  BY DEF Reader!read_line
<1>2. CASE ahead
  BY <1>1, <1>2, Zenon DEF RecordsIntact, Reader!RecordsIntact
<1>3. CASE ~ ahead /\ Reader!Eof /\ UNCHANGED got
           /\ (IF line = <<>> THEN Reader!Fail("closed") ELSE Reader!Return(line))
  <2>1. LineStep(got)
    BY <1>1, <1>3, LenProperties DEF LineStep, ReaderType
  <2>2. CASE line = <<>>
    BY <1>3, <2>1, <2>2, LineEnds DEF Reader!Fail
  <2>3. CASE line # <<>>
    <3>1. /\ line \in Seq(Bytes) /\ NoFeed(line) /\ <<>> \in Seq(Bytes)
          /\ LaterAt(got) \in Seq(Bytes)
      <4>1. got \in 0..Len(stream)
        BY LenProperties DEF ReaderType
      <4> QED BY <1>3, <4>1, LaterType DEF LineInv, ReaderType
    <3>2. line \o <<>> = line /\ LaterAt(got) = <<>> \o LaterAt(got)
      BY <3>1, ConcatEmptySeq
    <3>3. LineFor(line, got = Len(stream))
      BY <1>3, <3>1, NoFeedFound DEF LineFor, Reader!Eof
    <3>4. ~ got \in 1..Len(stream) - 1
      BY <1>3, LenProperties DEF Reader!Eof, ReaderType
    <3>5. /\ records' = Append(records, line \o <<>>) /\ line' = <<>> /\ status' = "ok"
          /\ LineFor(line \o <<>>, got = Len(stream))
      BY <1>3, <2>3, <3>2, <3>3 DEF Reader!Return
    <3>6. \E m : m = got /\ LineStep(m) /\ LaterAt(got) = <<>> \o LaterAt(m)
                 /\ LineFor(line \o <<>>, m = Len(stream)) /\ ~ m \in 1..Len(stream) - 1
      BY <2>1, <3>2, <3>4, <3>5, Zenon
    <3> QED BY <3>1, <3>5, <3>6, LineReturned, Zenon
  <2> QED BY <2>2, <2>3
<1>4. CASE ~ ahead /\ Reader!Unread # <<>>
           /\ ~ (Reader!Eof /\ UNCHANGED got
                 /\ (IF line = <<>> THEN Reader!Fail("closed") ELSE Reader!Return(line)))
  <2> DEFINE c == stream[got + 1]
             d == IF c = Reader!CR THEN Reader!NL ELSE c
             pair == Len(Reader!Unread) > 1 /\ Reader!Unread[2] = Reader!NL
             m == got + (IF c = Reader!CR /\ pair THEN 2 ELSE 1)
             buf == line \o <<d>>
  <2>1. got < arrived /\ Head(Reader!Unread) = c
    BY <1>4, UnreadParts
  <2>2. /\ c = Reader!CR => Len(Reader!Unread) > 1 \/ got + 1 = Len(stream)
        /\ got' = m
        /\ IF Reader!Last(Append(line, d)) = Reader!NL \/ Len(Append(line, d)) = Limit - 1
           THEN Reader!Return(Append(line, d)) ELSE Reader!More(Append(line, d))
    <3> DEFINE h == Head(Reader!Unread)
               e == IF h = Reader!CR THEN Reader!NL ELSE h
               b == Append(line, e)
    <3>1. h = c /\ e = d /\ b = Append(line, d)
      BY <2>1, Zenon
    <3>2. /\ h = Reader!CR => Len(Reader!Unread) > 1 \/ got + 1 = Len(stream)
          /\ got' = got + (IF h = Reader!CR /\ pair THEN 2 ELSE 1)
          /\ IF Reader!Last(b) = Reader!NL \/ Len(b) = Limit - 1
             THEN Reader!Return(b) ELSE Reader!More(b)
      BY <1>4 DEF Reader!read_line
    <3> HIDE DEF h, e, b, c, d, pair
    <3> QED BY <3>1, <3>2, Zenon
  <2>3. /\ got \in Nat /\ arrived \in Nat /\ Len(stream) \in Nat /\ arrived <= Len(stream)
        /\ got + 1 \in 1..Len(stream) /\ got + 1 \in 0..Len(stream) /\ got \in 0..Len(stream) - 1
        /\ pair => got + 2 \in 1..Len(stream) /\ stream[got + 2] = Reader!NL
                   /\ got + 1 \in 0..Len(stream) - 1 /\ got + 2 \in 0..Len(stream)
        /\ Len(Reader!Unread) > 1 /\ ~ pair => stream[got + 2] # Reader!NL
    BY <2>1, UnreadParts, LenProperties, SMTT(20) DEF ReaderType
  <2>4. m \in got..Len(stream)
    BY <2>3
  <2>5. LineStep(m)
    BY <1>1, <1>4, <2>2, <2>4 DEF LineStep
  <2>6. d \in Bytes /\ line \in Seq(Bytes) /\ NoFeed(line)
    <3>1. c \in Bytes /\ Reader!NL \in Bytes
      BY <2>3, EndsType DEF Bytes
    <3> QED BY <1>4, <3>1 DEF LineInv, ReaderType
  <2>7. LaterAt(got) = <<d>> \o LaterAt(m)
    <3>1. Ends[got + 1] = <<d>>
      <4>1. c = Reader!NL /\ got + 1 > 1 => stream[got] # Reader!CR
        BY <1>4, <2>3 DEF LineInv
      <4>2. (got + 1) - 1 = got /\ DOMAIN stream = 1..Len(stream)
        BY <2>3, LenProperties DEF ReaderType
      <4>3. Ends[got + 1] = IF c = Reader!CR THEN <<Reader!NL>> ELSE <<c>>
        BY <2>3, <4>1, <4>2 DEF Ends
      <4> QED BY <4>3
    <3>2. EndsAfter(got) = <<d>> \o EndsAfter(got + 1)
      BY <2>3, <3>1, EndsParts
    <3>3. CASE c = Reader!CR /\ pair
      <4>1. (got + 2) - 1 = got + 1 /\ got + 2 > 1 /\ DOMAIN stream = 1..Len(stream)
        BY <2>3, LenProperties DEF ReaderType
      <4>2. Ends[got + 2] = <<>>
        BY <2>3, <3>3, <4>1, Zenon DEF Ends
      <4>3. (got + 1) + 1 = got + 2 /\ m = got + 2
        BY <2>3, <3>3
      <4>4. EndsAfter(got + 1) = <<>> \o EndsAfter(got + 2) /\ EndsAfter(got + 2) \in Seq(Bytes)
        <5> DEFINE k == got + 1
        <5>1. k \in 0..Len(stream) - 1 /\ k + 1 = got + 2
          BY <2>3, <3>3, <4>3
        <5> HIDE DEF k
        <5>2. EndsAfter(k) = Ends[k + 1] \o EndsAfter(k + 1)
          BY <5>1, EndsParts
        <5>3. EndsAfter(k) = <<>> \o EndsAfter(got + 2)
          BY <4>2, <5>1, <5>2
        <5> QED BY <2>3, <3>3, <5>3, EndsType DEF k
      <4>5. EndsAfter(got + 1) = EndsAfter(got + 2)
        BY <4>4, ConcatEmptySeq
      <4> HIDE DEF d, pair, m
      <4> QED BY <3>2, <4>3, <4>5, Zenon DEF LaterAt
    <3>4. CASE ~ (c = Reader!CR /\ pair)
      <4>1. m = got + 1
        BY <3>4
      <4> HIDE DEF d, pair, m
      <4> QED BY <3>2, <4>1, Zenon DEF LaterAt
    <3> QED BY <3>3, <3>4
  <2>8. m \in 1..Len(stream) - 1 /\ stream[m] = Reader!CR => stream[m + 1] # Reader!NL
    <3>1. CASE c = Reader!CR /\ pair
      <4>1. m = got + 2
        BY <3>1
      <4>2. stream[m] # Reader!CR
        BY <2>3, <3>1, <4>1 DEF Reader!CR, Reader!NL
      <4> QED BY <4>2
    <3>2. CASE ~ (c = Reader!CR /\ pair)
      <4>1. m = got + 1 /\ m + 1 = got + 2
        BY <2>3, <3>2
      <4> QED BY <2>2, <2>3, <3>2, <4>1
    <3> QED BY <3>1, <3>2
  <2> HIDE DEF c, pair, m, d
  <2>9. /\ <<d>> \in Seq(Bytes) /\ buf \in Seq(Bytes) /\ Append(line, d) = buf
        /\ Reader!Last(buf) = d
        /\ d = Reader!NL => Reader!Feed(buf) = Len(buf)
        /\ d # Reader!NL => NoFeed(buf) /\ Reader!Feed(buf) = 0
    <3>1. /\ <<d>> \in Seq(Bytes) /\ line \o <<d>> \in Seq(Bytes)
          /\ Append(line, d) = line \o <<d>> /\ Reader!Last(line \o <<d>>) = d
      BY <2>6, ByteBehind, Zenon
    <3>2. /\ d = Reader!NL => Reader!Feed(line \o <<d>>) = Len(line \o <<d>>)
          /\ d # Reader!NL => NoFeed(line \o <<d>>) /\ Reader!Feed(line \o <<d>>) = 0
      BY <2>6, FeedAppended, Zenon
    <3> QED BY <3>1, <3>2, Zenon
  <2>10. \/ (d = Reader!NL \/ Len(buf) = Limit - 1) /\ Reader!Return(buf)
         \/ d # Reader!NL /\ Reader!More(buf)
    BY <2>2, <2>9, Zenon
  <2>11. CASE (d = Reader!NL \/ Len(buf) = Limit - 1) /\ Reader!Return(buf)
    <3>1. LineFor(buf, m = Len(stream))
      BY <2>9, <2>11, Zenon DEF LineFor
    <3> QED BY <2>5, <2>7, <2>8, <2>9, <2>11, <3>1, LineReturned DEF Reader!Return
  <2>12. CASE d # Reader!NL /\ Reader!More(buf)
    BY <2>5, <2>7, <2>8, <2>9, <2>12, LineGrows DEF Reader!More
  <2> QED BY <2>10, <2>11, <2>12
<1>5. Reader!Unread # <<>> \/ (Reader!Eof /\ UNCHANGED got
          /\ (IF line = <<>> THEN Reader!Fail("closed") ELSE Reader!Return(line)))
  BY Zenon DEF Reader!read_line
<1> QED BY <1>2, <1>3, <1>4, <1>5, Zenon

-----------------------------------------------------------------------------
(* read_message takes a message apart that is the first of the parcels     *)
(* still to be read.                                                       *)

LEMMA MessageTypes ==
    ASSUME ReaderType, function = "read_message"
    PROVE  /\ Bytes = Nat /\ stream \in Seq(Nat) /\ line \in Seq(Nat)
           /\ records \in Seq(Seq(Nat)) /\ written \in Seq(Seq(Nat)) /\ Len(written) \in Nat
           /\ Len(records) \in Nat /\ Len(line) \in Nat /\ Len(stream) \in Nat
           /\ \A k \in 1..Len(written) : written[k] \in Seq(Nat) /\ Len(written[k]) \in Nat \ {0}
<1>1. Bytes = Nat
  BY DEF Bytes
<1>2. /\ stream \in Seq(Nat) /\ line \in Seq(Nat) /\ records \in Seq(Seq(Nat))
      /\ written \in Seq(Seq(Nat) \ {<<>>})
  BY <1>1 DEF ReaderType
<1>3. Len(written) \in Nat /\ Len(records) \in Nat /\ Len(line) \in Nat /\ Len(stream) \in Nat
  BY <1>2, LenProperties
<1>4. ASSUME NEW k \in 1..Len(written)
      PROVE  written[k] \in Seq(Nat) /\ Len(written[k]) \in Nat \ {0}
  <2>1. written[k] \in Seq(Nat) /\ written[k] # <<>>
    BY <1>2, ElementOfSeq
  <2> QED BY <2>1, EmptySeq, LenProperties
<1>5. written \in Seq(Seq(Nat))
  BY <1>2, <1>3, <1>4
<1> QED BY <1>1, <1>2, <1>3, <1>4, <1>5

\* The length comes first, then the type, then the text.
LEMMA MessageParts ==
    ASSUME NEW text \in Seq(Nat), NEW rest \in Seq(Nat)
    PROVE  /\ Reader!htonl(Len(text)) \in Seq(Nat) /\ Len(Reader!htonl(Len(text))) = 2
           /\ Reader!ntohl(Reader!htonl(Len(text))) = Len(text)
           /\ <<1, 0>> \in Seq(Nat) /\ Len(<<1, 0>>) = 2
           /\ text \o rest \in Seq(Nat) /\ <<1, 0>> \o (text \o rest) \in Seq(Nat)
           /\ Reader!message(text) \in Seq(Nat)
           /\ Reader!message(text) \o rest
                 = Reader!htonl(Len(text)) \o (<<1, 0>> \o (text \o rest))
<1> DEFINE n == Len(text)
           h == Reader!htonl(n)
           t == <<1, 0>>
<1>1. n \in Nat
  BY LenProperties
<1> HIDE DEF n
<1>2. n \div 256 \in Nat /\ n % 256 \in Nat /\ 256 * (n \div 256) + (n % 256) = n
  BY <1>1
<1>3. h \in Seq(Nat) /\ Len(h) = 2 /\ Reader!ntohl(h) = n
  <2> DEFINE a == n \div 256
             b == n % 256
  <2>1. a \in Nat /\ b \in Nat /\ 256 * a + b = n
    BY <1>2
  <2>2. h = <<a, b>>
    BY DEF Reader!htonl
  <2> HIDE DEF a, b, h
  <2> QED BY <2>1, <2>2 DEF Reader!ntohl
<1>4. t \in Seq(Nat) /\ Len(t) = 2
  OBVIOUS
<1> HIDE DEF h, t
<1>5. h \o t \in Seq(Nat) /\ (h \o t) \o text \in Seq(Nat)
  BY <1>3, <1>4, ConcatProperties
<1>6. text \o rest \in Seq(Nat) /\ t \o (text \o rest) \in Seq(Nat)
  BY <1>4, ConcatProperties
<1>7. ((h \o t) \o text) \o rest = h \o (t \o (text \o rest))
  <2>1. ((h \o t) \o text) \o rest = (h \o t) \o (text \o rest)
    BY <1>4, <1>5, BytesConcat, Zenon
  <2>2. (h \o t) \o (text \o rest) = h \o (t \o (text \o rest))
    <3> DEFINE w == text \o rest
    <3>1. h \in Seq(Nat) /\ t \in Seq(Nat) /\ w \in Seq(Nat)
      BY <1>3, <1>4, <1>6
    <3> HIDE DEF w
    <3>2. (h \o t) \o w = h \o (t \o w)
      BY <3>1, BytesConcat, Zenon
    <3> QED BY <3>2 DEF w
  <2> QED BY <2>1, <2>2
<1>8. Reader!message(text) = (h \o t) \o text
  BY DEF Reader!message, h, t, n
<1> QED BY <1>3, <1>4, <1>5, <1>6, <1>7, <1>8, Zenon DEF h, t, n

LEMMA ParcelsType ==
    ASSUME written \in Seq(Seq(Nat))
    PROVE  /\ Parcels \in Seq(Seq(Nat)) /\ Len(Parcels) = Len(written)
           /\ \A k \in 1..Len(written) : Parcels[k] = Reader!message(written[k])
<1>1. /\ Len(written) \in Nat /\ DOMAIN written = 1..Len(written)
      /\ \A k \in 1..Len(written) : written[k] \in Seq(Nat)
  BY LenProperties, ElementOfSeq
<1>2. Parcels = [k \in 1..Len(written) |-> Reader!message(written[k])]
  BY <1>1, Zenon DEF Parcels
<1>3. \A k \in 1..Len(written) : Parcels[k] = Reader!message(written[k])
  BY <1>2, Zenon
<1>4. \A k \in 1..Len(written) : Reader!message(written[k]) \in Seq(Nat)
  <2>1. <<>> \in Seq(Nat)
    OBVIOUS
  <2> QED BY <1>1, <2>1, MessageParts, Zenon
<1>5. Parcels \in [1..Len(written) -> Seq(Nat)]
  BY <1>2, <1>4, Zenon
<1>6. Parcels \in Seq(Seq(Nat)) /\ Len(Parcels) = Len(written)
  <2> DEFINE n == Len(written)
             p == Parcels
  <2>1. n \in Nat /\ p \in [1..n -> Seq(Nat)]
    BY <1>1, <1>5
  <2> HIDE DEF n, p
  <2>2. p \in Seq(Seq(Nat)) /\ Len(p) = n
    BY <2>1
  <2> QED BY <2>2 DEF n, p
<1> QED BY <1>3, <1>6

LEMMA ParcelsParts ==
    ASSUME ReaderType, function = "read_message", NEW n \in Nat
    PROVE  /\ n < Len(written) =>
                 /\ written[n + 1] \in Seq(Nat) /\ ParcelsAfter(n + 1) \in Seq(Nat)
                 /\ ParcelsAfter(n) = Reader!htonl(Len(written[n + 1]))
                        \o (<<1, 0>> \o (written[n + 1] \o ParcelsAfter(n + 1)))
           /\ n = Len(written) => ParcelsAfter(n) = <<>>
<1>1. Len(written) \in Nat /\ Parcels \in Seq(Seq(Nat)) /\ Len(Parcels) = Len(written)
  BY MessageTypes, ParcelsType
<1>2. CASE n < Len(written)
  <2>1. n + 1 \in 1..Len(written) /\ (n + 1) + 1 = n + 2 /\ n < Len(Parcels)
    BY <1>1, <1>2
  <2>2. written[n + 1] \in Seq(Nat) /\ Parcels[n + 1] = Reader!message(written[n + 1])
    BY <2>1, MessageTypes, ParcelsType
  <2>3. /\ FlattenSeq(SubSeq(Parcels, n + 1, Len(Parcels)))
               = Parcels[n + 1] \o FlattenSeq(SubSeq(Parcels, n + 2, Len(Parcels)))
        /\ FlattenSeq(SubSeq(Parcels, n + 2, Len(Parcels))) \in Seq(Nat)
    BY <1>1, <2>1, FlattenRest, Zenon
  <2>4. ParcelsAfter(n) = Parcels[n + 1] \o ParcelsAfter(n + 1) /\ ParcelsAfter(n + 1) \in Seq(Nat)
    BY <2>1, <2>3 DEF ParcelsAfter
  <2>5. ParcelsAfter(n) = Reader!htonl(Len(written[n + 1]))
               \o (<<1, 0>> \o (written[n + 1] \o ParcelsAfter(n + 1)))
    <3> DEFINE text == written[n + 1]
               rest == ParcelsAfter(n + 1)
    <3>1. text \in Seq(Nat) /\ rest \in Seq(Nat) /\ ParcelsAfter(n) = Reader!message(text) \o rest
      BY <2>2, <2>4
    <3> HIDE DEF text, rest
    <3>2. ParcelsAfter(n) = Reader!htonl(Len(text)) \o (<<1, 0>> \o (text \o rest))
      BY <3>1, MessageParts, Zenon
    <3> QED BY <3>2 DEF text, rest
  <2>6. n # Len(written)
    BY <1>1, <1>2
  <2> QED BY <2>2, <2>4, <2>5, <2>6, Zenon
<1>3. CASE n = Len(written)
  <2>1. SubSeq(Parcels, n + 1, Len(Parcels)) = <<>>
    BY <1>1, <1>3, SubSeqEmpty
  <2>2. ParcelsAfter(n) = <<>>
    BY <2>1, FlattenEmpty DEF ParcelsAfter
  <2>3. ~ n < Len(written)
    BY <1>1, <1>3
  <2> QED BY <2>2, <2>3, Zenon
<1>4. n < Len(written) \/ n = Len(written) \/ n > Len(written)
  BY <1>1
<1>5. CASE n > Len(written)
  <2>1. ~ n < Len(written) /\ n # Len(written)
    BY <1>1, <1>5
  <2> QED BY <2>1, Zenon
<1> QED BY <1>2, <1>3, <1>4, <1>5, Zenon

\* What a read of readn adds to the line.
Received ==
    line \o SubSeq(Reader!Unread, 1, Reader!Min({Reader!Missing(Size), Len(Reader!Unread)}))

LEMMA ReceivedParts ==
    ASSUME ReaderType, function = "read_message", Len(line) < Size,
           got' = got + Len(Received) - Len(line)
    PROVE  /\ Received \in Seq(Nat) /\ Len(Received) \in Nat /\ Size \in Nat
           /\ Len(line) <= Len(Received) /\ Len(Received) <= Size
           /\ got' \in got..arrived /\ got' \in got..Len(stream)
           /\ StreamAfter(got) \in Seq(Nat) /\ StreamAfter(got') \in Seq(Nat)
           /\ Received \o StreamAfter(got') = line \o StreamAfter(got)
<1> DEFINE u == Reader!Unread
           n == Reader!Min({Reader!Missing(Size), Len(u)})
           x == SubSeq(u, 1, n)
           m == got + n
<1>1. /\ line \in Seq(Nat) /\ Len(line) \in Nat /\ stream \in Seq(Nat) /\ Len(stream) \in Nat
      /\ Size \in Nat /\ Bytes = Nat
  BY MessageTypes DEF Size, Reader!sizeof_u_int32_t, ReaderType
<1>2. u \in Seq(Nat) /\ Len(u) = arrived - got /\ \A k \in 1..arrived - got : u[k] = stream[got + k]
  BY <1>1, UnreadParts
<1>3. arrived \in 0..Len(stream) /\ got \in 0..arrived
  BY DEF ReaderType
<1>4. n \in Nat /\ n <= Size - Len(line) /\ n <= Len(u)
  <2> DEFINE M == {Reader!Missing(Size), Len(u)}
  <2>1. M \subseteq Nat /\ M # {} /\ Reader!Missing(Size) = Size - Len(line)
    BY <1>1, <1>2, <1>3 DEF Reader!Missing
  <2>2. Min(M) \in M /\ \A y \in M : Min(M) <= y
    <3> HIDE DEF M
    <3> QED BY <2>1, MinNatural
  <2>3. n = Min(M)
    BY ReaderOperators
  <2> QED BY <2>1, <2>2, <2>3
<1> HIDE DEF n, u
<1>5. n \in 0..Len(u) /\ m \in got..arrived /\ m \in got..Len(stream) /\ m - got = n /\ got \in 0..Len(stream)
  BY <1>1, <1>2, <1>3, <1>4
<1>6. x \in Seq(Nat) /\ Len(x) = n /\ \A k \in 1..n : x[k] = stream[got + k]
  <2>1. 0 \in 0..Len(u) /\ n \in 0..Len(u) /\ 0 + 1 = 1 /\ n - 0 = n
    BY <1>2, <1>3, <1>5
  <2>2. /\ SubSeq(u, 0 + 1, n) \in Seq(Nat) /\ Len(SubSeq(u, 0 + 1, n)) = n - 0
        /\ \A k \in 1..n - 0 : SubSeq(u, 0 + 1, n)[k] = u[0 + k]
    BY <1>2, <2>1, SplitRest
  <2>3. \A k \in 1..n : k \in 1..arrived - got /\ 0 + k = k
    BY <1>2, <1>3, <1>4
  <2> QED BY <1>2, <2>1, <2>2, <2>3
<1> HIDE DEF x, m
<1>7. /\ StreamAfter(got) \in Seq(Nat) /\ StreamAfter(m) \in Seq(Nat)
      /\ SubSeq(stream, got + 1, m) \in Seq(Nat) /\ Len(SubSeq(stream, got + 1, m)) = n
      /\ \A k \in 1..n : SubSeq(stream, got + 1, m)[k] = stream[got + k]
      /\ StreamAfter(got) = SubSeq(stream, got + 1, m) \o StreamAfter(m)
  BY <1>1, <1>5, StreamParts
<1>8. x = SubSeq(stream, got + 1, m)
  <2> DEFINE y == SubSeq(stream, got + 1, m)
  <2>1. y \in Seq(Nat) /\ Len(y) = n /\ \A k \in 1..n : y[k] = x[k]
    BY <1>6, <1>7
  <2> HIDE DEF y
  <2>2. y = x
    BY <1>6, <2>1, SeqEqual
  <2> QED BY <2>2 DEF y
<1>9. Received = line \o x /\ Received \in Seq(Nat) /\ Len(Received) = Len(line) + n
  BY <1>1, <1>6, ConcatProperties DEF Received, x, n, u
<1>10. got' = m
  BY <1>1, <1>3, <1>4, <1>9 DEF m
<1>11. (line \o x) \o StreamAfter(m) = line \o (x \o StreamAfter(m))
  <2> DEFINE z == StreamAfter(m)
  <2>1. z \in Seq(Nat)
    BY <1>7
  <2> HIDE DEF z
  <2>2. (line \o x) \o z = line \o (x \o z)
    <3>1. line \in Seq(Nat) /\ x \in Seq(Nat)
      BY <1>1, <1>6
    <3> QED BY <2>1, <3>1, BytesConcat, Zenon
  <2> QED BY <2>2 DEF z
<1>12. Received \o StreamAfter(m) = line \o StreamAfter(got)
  BY <1>7, <1>8, <1>9, <1>11, Zenon
<1>13. Len(line) <= Len(Received) /\ Len(Received) <= Size /\ Len(Received) \in Nat
  BY <1>1, <1>4, <1>9
<1> QED BY <1>1, <1>5, <1>7, <1>9, <1>10, <1>12, <1>13, Zenon

\* A beginning that is shorter than the first part cannot be all there is.
LEMMA TooShort ==
    ASSUME NEW s \in Seq(Nat), NEW t \in Seq(Nat), NEW p \in Seq(Nat), NEW q \in Seq(Nat),
           s \o t = p \o q, Len(s) < Len(p)
    PROVE  t # <<>>
<1>1. /\ Len(s) \in Nat /\ Len(t) \in Nat /\ Len(p) \in Nat /\ Len(q) \in Nat
      /\ Len(s \o t) = Len(s) + Len(t) /\ Len(p \o q) = Len(p) + Len(q)
  BY ConcatProperties, LenProperties
<1>2. Len(t) > 0
  <2>1. Len(s) + Len(t) = Len(p) + Len(q)
    BY <1>1
  <2> QED BY <1>1, <2>1
<1> QED BY <1>2, EmptySeq

LEMMA TextsIntact ==
    ASSUME function' = "read_message", status' = "ok",
           written' \in Seq(Seq(Nat)), NEW n \in 0..Len(written'),
           records' = SubSeq(written', 1, n), Len(records') = n
    PROVE  RecordsIntact'
<1>1. IsPrefix(records', written')
  <2> DEFINE w == written'
             r == records'
  <2>1. w \in Seq(Seq(Nat)) /\ n \in 0..Len(w) /\ r = SubSeq(w, 1, n) /\ Len(r) = n
    OBVIOUS
  <2> HIDE DEF w, r
  <2>2. SubSeq(w, 1, n) \in Seq(Seq(Nat)) /\ SubSeq(w, n + 1, Len(w)) \in Seq(Seq(Nat))
        /\ SubSeq(w, 1, n) \o SubSeq(w, n + 1, Len(w)) = w
    BY <2>1, SplitAt
  <2>3. IsPrefix(r, w)
    <3> DEFINE a == SubSeq(w, 1, n)
               b == SubSeq(w, n + 1, Len(w))
    <3>1. a \in Seq(Seq(Nat)) /\ b \in Seq(Seq(Nat)) /\ a \o b = w /\ r = a
      BY <2>1, <2>2
    <3> HIDE DEF a, b
    <3>2. IsPrefix(a, a \o b)
      BY <3>1, PrefixOfConcat, Zenon
    <3> QED BY <3>1, <3>2
  <2> QED BY <2>3 DEF w, r
<1> QED BY <1>1, ReaderOperators, Zenon DEF RecordsIntact, Reader!RecordsIntact

\* What a call has to do with the messages before it reads.
LEMMA MessageBefore ==
    ASSUME ReaderType, function = "read_message", MessageInv
    PROVE  /\ Len(records) \in 0..Len(written)
           /\ field # "length" =>
                 /\ Number1 \in 1..Len(written) /\ written[Number1] \in Seq(Nat)
                 /\ ParcelsAfter(Number1) \in Seq(Nat)
                 /\ msg_length = Len(written[Number1]) /\ msg_length \in Nat \ {0}
           /\ StreamAfter(got) \in Seq(Nat)
<1>1. Len(records) \in Nat /\ Len(written) \in Nat /\ Len(records) <= Len(written)
  BY MessageTypes DEF MessageInv
<1>2. ASSUME field # "length"
      PROVE  /\ Number1 \in 1..Len(written) /\ written[Number1] \in Seq(Nat)
             /\ ParcelsAfter(Number1) \in Seq(Nat)
             /\ msg_length = Len(written[Number1]) /\ msg_length \in Nat \ {0}
  <2>1. Number1 \in 1..Len(written) /\ msg_length = Len(written[Number1])
    BY <1>1, <1>2 DEF MessageInv, Number1
  <2>2. written[Number1] \in Seq(Nat) /\ Len(written[Number1]) \in Nat \ {0}
    BY <2>1, MessageTypes
  <2>3. ParcelsAfter(Number1) \in Seq(Nat)
    <3>1. Len(records) < Len(written) /\ Len(records) + 1 = Number1
      BY <1>1, <2>1 DEF Number1
    <3> QED BY <1>1, <3>1, ParcelsParts
  <2> QED BY <2>1, <2>2, <2>3
<1>3. StreamAfter(got) \in Seq(Nat)
  <2>1. got \in 0..Len(stream) /\ Len(stream) \in got..Len(stream) /\ Bytes = Nat
    BY MessageTypes DEF ReaderType
  <2> QED BY <2>1, StreamParts
<1>4. Len(records) \in 0..Len(written)
  BY <1>1
<1> QED BY <1>2, <1>3, <1>4

\* The stream ends between two messages, behind the last one.
LEMMA MessageEnds ==
    ASSUME ReaderType, function = "read_message", MessageInv, Reader!Eof
    PROVE  records = written
<1>1. /\ line \in Seq(Nat) /\ Len(line) \in Nat /\ Len(records) \in 0..Len(written)
      /\ Len(written) \in Nat /\ written \in Seq(Seq(Nat)) /\ Len(stream) \in Nat
  BY MessageTypes, MessageBefore
<1>2. StreamAfter(got) = <<>>
  BY <1>1, SubSeqEmpty DEF Reader!Eof, StreamAfter
<1>3. <<1, 0>> \in Seq(Nat) /\ Len(<<1, 0>>) = 2 /\ <<>> \in Seq(Nat)
  OBVIOUS
<1>4. CASE field = "length"
  <2>1. Len(line) < 2 /\ line \o <<>> = ParcelsAfter(Len(records))
    BY <1>2, <1>4 DEF MessageInv, Size, Reader!sizeof_u_int32_t
  <2>2. ASSUME Len(records) < Len(written) PROVE FALSE
    <3> DEFINE n == Len(records)
               text == written[n + 1]
               rest == ParcelsAfter(n + 1)
    <3>1. /\ text \in Seq(Nat) /\ rest \in Seq(Nat)
          /\ ParcelsAfter(n) = Reader!htonl(Len(text)) \o (<<1, 0>> \o (text \o rest))
      <4>1. n \in Nat /\ n < Len(written)
        BY <1>1, <2>2
      <4> HIDE DEF n
      <4> QED BY <4>1, ParcelsParts, Zenon
    <3> HIDE DEF text, rest
    <3>2. /\ Reader!htonl(Len(text)) \in Seq(Nat) /\ Len(Reader!htonl(Len(text))) = 2
          /\ <<1, 0>> \o (text \o rest) \in Seq(Nat)
      BY <3>1, MessageParts, Zenon
    <3> DEFINE p == Reader!htonl(Len(text))
               q == <<1, 0>> \o (text \o rest)
    <3>3. p \in Seq(Nat) /\ q \in Seq(Nat) /\ Len(line) < Len(p) /\ line \o <<>> = p \o q
      BY <2>1, <3>1, <3>2
    <3> HIDE DEF p, q
    <3> QED BY <1>1, <1>3, <3>3, TooShort, Zenon
  <2>3. Len(records) = Len(written)
    BY <1>1, <2>2
  <2>4. records = SubSeq(written, 1, Len(records))
    BY DEF MessageInv
  <2> QED BY <1>1, <2>3, <2>4, SubSeqFull, Zenon
<1> DEFINE text == written[Number1]
           rest == ParcelsAfter(Number1)
<1>5. field # "length" => text \in Seq(Nat) /\ rest \in Seq(Nat) /\ msg_length = Len(text)
  BY MessageBefore
<1>6. CASE field = "type"
  <2>1. Len(line) < 2 /\ line \o <<>> = <<1, 0>> \o (text \o rest)
    BY <1>2, <1>6 DEF MessageInv, Size, Reader!sizeof_u_int32_t
  <2> HIDE DEF text, rest
  <2>2. text \o rest \in Seq(Nat)
    BY <1>5, <1>6, ConcatProperties
  <2>3. Len(line) < Len(<<1, 0>>)
    BY <1>3, <2>1
  <2> QED BY <1>1, <1>3, <2>1, <2>2, <2>3, TooShort, Zenon
<1>7. CASE field = "body"
  <2>1. Len(line) < Len(text) /\ line \o <<>> = text \o rest
    BY <1>2, <1>5, <1>7 DEF MessageInv, Size
  <2> HIDE DEF text, rest
  <2>2. text \in Seq(Nat) /\ rest \in Seq(Nat)
    BY <1>5, <1>7
  <2> QED BY <1>1, <1>3, <2>1, <2>2, TooShort, Zenon
<1> QED BY <1>4, <1>6, <1>7 DEF ReaderType

LEMMA MessageLength ==
    ASSUME ReaderType, function = "read_message", MessageInv, field = "length",
           NEW part \in Seq(Nat), NEW later \in Seq(Nat),
           part \o later = line \o StreamAfter(got), Len(part) = 2
    PROVE  /\ Number1 <= Len(written)
           /\ Reader!ntohl(part) = Len(written[Number1])
           /\ later = <<1, 0>> \o (written[Number1] \o ParcelsAfter(Number1))
<1> DEFINE n == Len(records)
           text == written[n + 1]
           rest == ParcelsAfter(n + 1)
<1>1. /\ n \in Nat /\ Len(written) \in Nat /\ n <= Len(written) /\ n + 1 = Number1
      /\ part \o later = ParcelsAfter(n)
  BY MessageTypes DEF MessageInv, Number1
<1> HIDE DEF n
<1>2. n < Len(written)
  <2> SUFFICES ASSUME n = Len(written) PROVE FALSE
    BY <1>1
  <2>1. part \o later = <<>>
    BY <1>1, ParcelsParts
  <2>2. Len(part \o later) = Len(part) + Len(later) /\ Len(later) \in Nat
    BY ConcatProperties, LenProperties, Zenon
  <2>3. Len(<<>>) = 2 + Len(later)
    BY <2>1, <2>2
  <2> QED BY <2>2, <2>3
<1>3. /\ text \in Seq(Nat) /\ rest \in Seq(Nat)
      /\ ParcelsAfter(n) = Reader!htonl(Len(text)) \o (<<1, 0>> \o (text \o rest))
  BY <1>1, <1>2, ParcelsParts, Zenon
<1> HIDE DEF text, rest
<1> DEFINE p == Reader!htonl(Len(text))
           q == <<1, 0>> \o (text \o rest)
<1>4. p \in Seq(Nat) /\ Len(p) = 2 /\ Reader!ntohl(p) = Len(text) /\ q \in Seq(Nat)
  BY <1>3, MessageParts, Zenon
<1>5. part \o later = p \o q /\ Len(p) = Len(part)
  BY <1>1, <1>3, <1>4
<1> HIDE DEF p, q
<1>6. part = p /\ later = q
  BY <1>4, <1>5, SameSplit, Zenon
<1>7. Number1 <= Len(written)
  BY <1>1, <1>2
<1>8. Reader!ntohl(part) = Len(text)
  BY <1>4, <1>6
<1> QED BY <1>1, <1>6, <1>7, <1>8, Zenon DEF text, rest, q

LEMMA MessageType ==
    ASSUME ReaderType, function = "read_message", MessageInv, field = "type",
           NEW part \in Seq(Nat), NEW later \in Seq(Nat),
           part \o later = line \o StreamAfter(got), Len(part) = 2
    PROVE  later = written[Number1] \o ParcelsAfter(Number1)
<1> DEFINE text == written[Number1]
           rest == ParcelsAfter(Number1)
           p == <<1, 0>>
           q == text \o rest
<1>1. text \in Seq(Nat) /\ rest \in Seq(Nat) /\ part \o later = p \o q
  BY MessageBefore DEF MessageInv
<1> HIDE DEF text, rest
<1>2. p \in Seq(Nat) /\ q \in Seq(Nat) /\ Len(p) = Len(part)
  BY <1>1, ConcatProperties
<1> HIDE DEF p, q
<1>3. later = q
  BY <1>1, <1>2, SameSplit, Zenon
<1> QED BY <1>3 DEF q, text, rest

LEMMA MessageText ==
    ASSUME ReaderType, function = "read_message", MessageInv, field = "body",
           NEW part \in Seq(Nat), NEW later \in Seq(Nat),
           part \o later = line \o StreamAfter(got), Len(part) = msg_length
    PROVE  part = written[Number1] /\ later = ParcelsAfter(Number1)
<1> DEFINE text == written[Number1]
           rest == ParcelsAfter(Number1)
<1>1. /\ text \in Seq(Nat) /\ rest \in Seq(Nat) /\ part \o later = text \o rest
      /\ Len(text) = Len(part)
  BY MessageBefore DEF MessageInv
<1> HIDE DEF text, rest
<1>2. part = text /\ later = rest
  BY <1>1, SameSplit, Zenon
<1> QED BY <1>2 DEF text, rest

LEMMA MessageKept ==
    ASSUME UNCHANGED <<function, written, stream>>
    PROVE  \A n : StreamAfter(n)' = StreamAfter(n) /\ ParcelsAfter(n)' = ParcelsAfter(n)
BY DEF StreamAfter, ParcelsAfter, Parcels

LEMMA read_messageStep ==
    ASSUME ReaderType, ReaderType', RecordsIntact, MessageInv, Reader!LimitAssumption,
           status = "ok", function = "read_message", Reader!read_message,
           UNCHANGED <<function, written, stream, arrived>>
    PROVE  RecordsIntact' /\ (status' = "ok" => MessageInv')
<1> DEFINE part == Received
           later == StreamAfter(got')
<1>1. /\ got' = got + Len(part) - Len(line)
      /\ \/ Reader!Eof /\ Reader!Fail("closed") /\ UNCHANGED <<field, msg_length>>
         \/ Len(part) < Size /\ Reader!More(part) /\ UNCHANGED <<field, msg_length>>
         \/ /\ Len(part) >= Size /\ field = "length"
            /\ Reader!More(<<>>) /\ field' = "type" /\ msg_length' = Reader!ntohl(part)
         \/ /\ Len(part) >= Size /\ field = "type"
            /\ IF msg_length > Limit THEN Reader!Fail("error")
               ELSE IF msg_length = 0 THEN Reader!Fail("closed") ELSE Reader!More(<<>>)
            /\ field' = "body" /\ UNCHANGED msg_length
         \/ /\ Len(part) >= Size /\ field = "body"
            /\ Reader!Return(part) /\ field' = "length" /\ UNCHANGED msg_length
  BY DEF Reader!read_message, Received, Size
<1>2. Len(line) < Size
  BY DEF MessageInv
<1>3. /\ part \in Seq(Nat) /\ Len(part) \in Nat /\ Size \in Nat /\ Len(part) <= Size
      /\ later \in Seq(Nat) /\ part \o later = line \o StreamAfter(got)
  BY <1>1, <1>2, ReceivedParts
<1>4. /\ Len(records) \in 0..Len(written) /\ Len(records) \in Nat /\ Len(written) \in Nat
      /\ written \in Seq(Seq(Nat)) /\ records \in Seq(Seq(Nat))
      /\ records = SubSeq(written, 1, Len(records))
  BY MessageBefore, MessageTypes DEF MessageInv
<1>5. \A n : StreamAfter(n)' = StreamAfter(n) /\ ParcelsAfter(n)' = ParcelsAfter(n)
  BY MessageKept
<1>6. StreamAfter(got)' = later
  BY <1>5, Zenon
<1>7. <<>> \o later = later /\ <<>> \in Seq(Nat) /\ Len(<<>>) = 0
  BY <1>3, ConcatEmptySeq
<1> HIDE DEF part, later
<1>8. Len(part) >= Size => Len(part) = Size
  <2> DEFINE n == Len(part)
             z == Size
  <2>1. n \in Nat /\ z \in Nat /\ n <= z
    BY <1>3, Zenon
  <2> HIDE DEF n, z
  <2>2. n >= z => n = z
    BY ONLY <2>1
  <2> QED BY <2>2 DEF n, z
<1>9. ASSUME UNCHANGED records, status' = "ok"
      PROVE  RecordsIntact'
  BY <1>4, <1>9, TextsIntact, Zenon
<1>10. ASSUME UNCHANGED <<records, field, msg_length>>
      PROVE  Size' = Size /\ Number1' = Number1 /\ written[Number1]' = written[Number1]
             /\ ParcelsAfter(Number1)' = ParcelsAfter(Number1)
             /\ ParcelsAfter(Len(records))' = ParcelsAfter(Len(records))
  BY <1>5, <1>10, Zenon DEF Size, Number1
<1>11. CASE Reader!Eof /\ Reader!Fail("closed")
  <2>1. records = written /\ status' = "closed" /\ UNCHANGED records
    BY <1>11, MessageEnds DEF Reader!Fail
  <2>2. IsPrefix(written, written)
    <3>1. SubSeq(written, 1, Len(written)) = written
      BY <1>4, SubSeqFull
    <3> QED BY <1>4, <3>1 DEF IsPrefix
  <2> QED BY <2>1, <2>2, ReaderOperators, Zenon DEF RecordsIntact, Reader!RecordsIntact
<1>12. CASE Len(part) < Size /\ Reader!More(part) /\ UNCHANGED <<field, msg_length>>
  <2>1. line' = part /\ UNCHANGED <<records, status>>
    BY <1>12 DEF Reader!More
  <2>2. part \o later = line \o StreamAfter(got)
    BY <1>3
  <2>3. Size' = Size /\ Number1' = Number1 /\ written[Number1]' = written[Number1]
        /\ ParcelsAfter(Number1)' = ParcelsAfter(Number1)
        /\ ParcelsAfter(Len(records))' = ParcelsAfter(Len(records))
    BY <1>10, <1>12, <2>1, Zenon
  <2>4. MessageInv'
    BY <1>6, <1>12, <2>1, <2>2, <2>3, Zenon DEF MessageInv
  <2> QED BY <1>9, <2>1, <2>4
<1>13. CASE /\ Len(part) >= Size /\ field = "length"
            /\ Reader!More(<<>>) /\ field' = "type" /\ msg_length' = Reader!ntohl(part)
  <2>1. line' = <<>> /\ UNCHANGED <<records, status>>
    BY <1>13 DEF Reader!More
  <2>2. Len(part) = 2
    <3>1. Size = 2
      BY <1>13 DEF Size, Reader!sizeof_u_int32_t
    <3> QED BY <1>13, <1>8, <3>1
  <2>3. /\ Number1 <= Len(written) /\ Reader!ntohl(part) = Len(written[Number1])
        /\ later = <<1, 0>> \o (written[Number1] \o ParcelsAfter(Number1))
    BY <1>3, <1>13, <2>2, MessageLength
  <2>4. Number1' = Number1 /\ ParcelsAfter(Number1)' = ParcelsAfter(Number1)
    BY <1>5, <2>1, Zenon DEF Number1
  <2>5. Len(line') < Size'
    BY <1>7, <1>13, <2>1 DEF Size, Reader!sizeof_u_int32_t
  <2>6. line' \o StreamAfter(got)'
            = <<1, 0>> \o (written'[Number1'] \o ParcelsAfter(Number1)')
    BY <1>6, <1>7, <2>1, <2>3, <2>4, Zenon
  <2>7. /\ field' # "length" /\ field' # "body" /\ Number1' <= Len(written')
        /\ msg_length' = Len(written'[Number1'])
        /\ Len(records') <= Len(written') /\ records' = SubSeq(written', 1, Len(records'))
    BY <1>4, <1>13, <2>1, <2>3, <2>4
  <2>8. MessageInv'
    BY <2>5, <2>6, <2>7, Zenon DEF MessageInv
  <2> QED BY <1>9, <2>1, <2>8
<1>14. CASE /\ Len(part) >= Size /\ field = "type"
            /\ IF msg_length > Limit THEN Reader!Fail("error")
               ELSE IF msg_length = 0 THEN Reader!Fail("closed") ELSE Reader!More(<<>>)
            /\ field' = "body" /\ UNCHANGED msg_length
  <2>1. /\ Number1 \in 1..Len(written) /\ msg_length = Len(written[Number1])
        /\ msg_length \in Nat \ {0}
    BY <1>14, MessageBefore
  <2>2. CASE msg_length > Limit
    <3>1. status' = "error" /\ UNCHANGED records
      BY <1>14, <2>2 DEF Reader!Fail
    <3>2. IsPrefix(records, written) /\ DOMAIN written = 1..Len(written)
      BY <1>4, ReaderOperators, LenProperties DEF RecordsIntact, Reader!RecordsIntact
    <3>3. \E k \in DOMAIN written : k = Len(records) + 1 /\ Len(written[k]) > Limit
      BY <2>1, <2>2, <3>2, Zenon DEF Number1
    <3> QED BY <3>1, <3>2, <3>3, ReaderOperators, Zenon DEF RecordsIntact, Reader!RecordsIntact
  <2>3. CASE ~ msg_length > Limit
    <3>1. line' = <<>> /\ UNCHANGED <<records, status>>
      BY <1>14, <2>1, <2>3 DEF Reader!More
    <3>2. Len(part) = 2
      <4>1. Size = 2
        BY <1>14 DEF Size, Reader!sizeof_u_int32_t
      <4> QED BY <1>14, <1>8, <4>1
    <3>3. later = written[Number1] \o ParcelsAfter(Number1)
      BY <1>3, <1>14, <3>2, MessageType
    <3>4. Number1' = Number1 /\ ParcelsAfter(Number1)' = ParcelsAfter(Number1)
      BY <1>5, <3>1, Zenon DEF Number1
    <3>5. Len(line') < Size'
      BY <1>7, <1>14, <2>1, <3>1 DEF Size
    <3>6. line' \o StreamAfter(got)' = written'[Number1'] \o ParcelsAfter(Number1)'
      BY <1>6, <1>7, <3>1, <3>3, <3>4, Zenon
    <3>7. /\ field' # "length" /\ field' # "type" /\ Number1' <= Len(written')
          /\ msg_length' = Len(written'[Number1'])
          /\ Len(records') <= Len(written') /\ records' = SubSeq(written', 1, Len(records'))
      BY <1>4, <1>14, <2>1, <3>1, <3>4
    <3>8. MessageInv'
      BY <3>5, <3>6, <3>7, Zenon DEF MessageInv
    <3> QED BY <1>9, <3>1, <3>8
  <2> QED BY <2>2, <2>3
<1>15. CASE /\ Len(part) >= Size /\ field = "body"
            /\ Reader!Return(part) /\ field' = "length" /\ UNCHANGED msg_length
  <2>1. /\ Number1 \in 1..Len(written) /\ msg_length = Len(written[Number1])
        /\ msg_length \in Nat \ {0}
    BY <1>15, MessageBefore
  <2>2. Len(part) = msg_length
    BY <1>3, <1>15 DEF Size
  <2>3. part = written[Number1] /\ later = ParcelsAfter(Number1)
    BY <1>3, <1>15, <2>2, MessageText
  <2>4. line' = <<>> /\ records' = Append(records, written[Number1]) /\ UNCHANGED status
    BY <1>15, <2>3 DEF Reader!Return
  <2>5. /\ Len(records') = Number1 /\ records' = SubSeq(written', 1, Number1)
        /\ Number1 \in 0..Len(written')
    <3> DEFINE n == Len(records)
               w == written
    <3>1. /\ w \in Seq(Seq(Nat)) /\ n \in Nat /\ n + 1 \in 1..Len(w) /\ Len(w) \in Nat
          /\ records = SubSeq(w, 1, n) /\ records' = Append(records, w[n + 1])
          /\ Number1 = n + 1 /\ w' = w
      BY <1>4, <2>1, <2>4 DEF Number1
    <3>2. Len(records') = n + 1
      BY <1>4, <2>4, AppendProperties
    <3> HIDE DEF n, w
    <3>3. Append(SubSeq(w, 1, n), w[n + 1]) = SubSeq(w, 1, n + 1)
      <4>1. 1 \in 1..Len(w) /\ n + 1 \in 1..Len(w) /\ (n + 1) - 1 = n
        BY <3>1
      <4> QED BY <3>1, <4>1, SubSeqRecursiveSecond
    <3>4. records' = SubSeq(w', 1, Number1) /\ Number1 \in 0..Len(w')
      BY <3>1, <3>3
    <3> QED BY <3>1, <3>2, <3>4 DEF w
  <2>6. RecordsIntact'
    <3>1. written' \in Seq(Seq(Nat)) /\ function' = "read_message" /\ status' = "ok"
      BY <1>4, <2>4
    <3> QED BY <2>5, <3>1, TextsIntact
  <2>7. Len(line') < Size'
    BY <1>7, <1>15, <2>4 DEF Size, Reader!sizeof_u_int32_t
  <2>8. line' \o StreamAfter(got)' = ParcelsAfter(Len(records))'
    <3>1. ParcelsAfter(Number1) = ParcelsAfter(Len(records))'
      BY <1>5, <2>5, Zenon
    <3> QED BY <1>6, <1>7, <2>3, <2>4, <3>1, Zenon
  <2>9. field' = "length" /\ Len(records') <= Len(written') /\ records' = SubSeq(written', 1, Len(records'))
    BY <1>4, <1>15, <2>5
  <2>10. MessageInv'
    BY <2>7, <2>8, <2>9 DEF MessageInv
  <2> QED BY <2>6, <2>10
<1> QED BY <1>1, <1>11, <1>12, <1>13, <1>14, <1>15, Zenon

-----------------------------------------------------------------------------
LEMMA ReaderTypeKept ==
    ASSUME ReaderType, UNCHANGED <<function, written, stream>>,
           arrived' \in 0..Len(stream), got' \in 0..arrived',
           line' \in Seq(Bytes), records' = records \/ (\E r \in Seq(Bytes) : records' = Append(records, r)),
           field' \in {"length", "type", "body"}, msg_length' \in Nat,
           ahead' \in BOOLEAN, status' \in {"ok", "closed", "error"}
    PROVE  ReaderType'
<1>1. Bytes' = Bytes
  BY StreamKept
<1>2. records' \in Seq(Seq(Bytes))
  <2>1. records \in Seq(Seq(Bytes))
    BY DEF ReaderType
  <2>2. \A r \in Seq(Bytes) : Append(records, r) \in Seq(Seq(Bytes))
    BY <2>1, AppendProperties, Zenon
  <2> QED BY <2>1, <2>2, Zenon
<1> QED BY <1>1, <1>2 DEF ReaderType

LEMMA ReaderTypeStep ==
    ASSUME ReaderInv, Reader!Read
    PROVE  ReaderType'
<1>1. /\ ReaderType /\ UNCHANGED <<function, written, stream, arrived>> /\ status = "ok"
      /\ line \in Seq(Bytes) /\ stream \in Seq(Bytes) /\ arrived \in 0..Len(stream)
      /\ got \in 0..arrived /\ Len(stream) \in Nat /\ arrived \in Nat /\ got \in Nat
      /\ got \in 0..arrived' /\ arrived' \in 0..Len(stream)
      /\ field \in {"length", "type", "body"} /\ msg_length \in Nat
      /\ ahead \in BOOLEAN /\ status \in {"ok", "closed", "error"}
      /\ \A b \in Bytes : Append(line, b) \in Seq(Bytes)
  BY LenProperties, AppendProperties DEF Reader!Read, ReaderInv, ReaderType
<1>2. /\ Reader!Unread \in Seq(Bytes) /\ Len(Reader!Unread) = arrived - got
      /\ Reader!Unread # <<>> => got < arrived /\ Head(Reader!Unread) = stream[got + 1]
  BY <1>1, UnreadParts
<1>3. Reader!Unread # <<>> => Head(Reader!Unread) \in Bytes /\ got + 1 \in 0..arrived'
  BY <1>1, <1>2, ElementOfSeq
<1>4. CASE function = "readline" /\ Reader!readline
  <2> DEFINE buf == Reader!Buffer
             f == Reader!Feed(buf)
             r == SubSeq(buf, 1, f)
  <2>1. buf \in Seq(Bytes)
    BY <1>1, <1>2, ConcatProperties DEF Reader!Buffer
  <2>2. f \in 0..Len(buf)
    BY <2>1, FeedFound
  <2>3. r \in Seq(Bytes)
    <3> HIDE DEF buf, f
    <3> QED BY <2>1, <2>2, SplitAt
  <2>4. ahead' \in BOOLEAN /\ got' \in 0..arrived' /\ UNCHANGED <<field, msg_length>>
    <3>1. /\ got' = arrived /\ UNCHANGED <<field, msg_length>>
          /\ UNCHANGED ahead \/ ahead' = (ahead \/ Len(buf) > f)
      BY <1>4, Zenon DEF Reader!readline
    <3> HIDE DEF buf, f
    <3>2. ahead' \in BOOLEAN
      BY <1>1, <3>1
    <3>3. got' \in 0..arrived'
      BY <1>1, <3>1
    <3> QED BY <3>1, <3>2, <3>3
  <2>5. \/ UNCHANGED <<line, records>> /\ status' \in {"closed", "error"}
        \/ records' = Append(records, r) /\ line' = <<>> /\ status' = status
        \/ line' = buf /\ UNCHANGED <<records, status>>
    BY <1>4, Zenon DEF Reader!readline, Reader!Fail, Reader!Return, Reader!More
  <2> HIDE DEF buf, r
  <2>6. /\ line' \in Seq(Bytes) /\ status' \in {"ok", "closed", "error"}
        /\ records' = records \/ \E x \in Seq(Bytes) : records' = Append(records, x)
    <3>1. <<>> \in Seq(Bytes)
      OBVIOUS
    <3> QED BY <1>1, <2>1, <2>3, <2>5, <3>1, Zenon
  <2> QED BY <1>1, <2>4, <2>6, ReaderTypeKept
<1>5. CASE function = "readline_2" /\ Reader!readline_2
  <2> DEFINE b == Head(Reader!Unread)
             r == Append(line, b)
  <2>1. UNCHANGED <<field, msg_length, ahead>>
    BY <1>5 DEF Reader!readline_2
  <2>2. \/ UNCHANGED <<line, records, got>> /\ status' = "error"
        \/ /\ Reader!Unread # <<>> /\ got' = got + 1
           /\ \/ UNCHANGED <<line, records>> /\ status' = "error"
              \/ records' = Append(records, r) /\ line' = <<>> /\ status' = status
              \/ line' = r /\ UNCHANGED <<records, status>>
    BY <1>5, Zenon DEF Reader!readline_2, Reader!Fail, Reader!Return, Reader!More
  <2>3. Reader!Unread # <<>> => r \in Seq(Bytes)
    BY <1>1, <1>3
  <2> HIDE DEF b, r
  <2>4. /\ got' \in 0..arrived' /\ line' \in Seq(Bytes) /\ status' \in {"ok", "closed", "error"}
        /\ records' = records \/ \E x \in Seq(Bytes) : records' = Append(records, x)
    <3>1. <<>> \in Seq(Bytes)
      OBVIOUS
    <3> QED BY <1>1, <1>3, <2>2, <2>3, <3>1, Zenon
  <2> QED BY <1>1, <2>1, <2>4, ReaderTypeKept
<1>6. CASE function = "read_line" /\ Reader!read_line
  <2> DEFINE b == Head(Reader!Unread)
             pair == Len(Reader!Unread) > 1 /\ Reader!Unread[2] = Reader!NL
             m == got + (IF b = Reader!CR /\ pair THEN 2 ELSE 1)
             r == Append(line, IF b = Reader!CR THEN Reader!NL ELSE b)
  <2>1. UNCHANGED <<field, msg_length, ahead>>
    BY <1>6 DEF Reader!read_line
  <2>2. \/ UNCHANGED <<line, records, got>> /\ status' = "closed"
        \/ records' = Append(records, line) /\ line' = <<>> /\ UNCHANGED <<status, got>>
        \/ /\ Reader!Unread # <<>> /\ got' = m
           /\ \/ records' = Append(records, r) /\ line' = <<>> /\ status' = status
              \/ line' = r /\ UNCHANGED <<records, status>>
    BY <1>6, Zenon DEF Reader!read_line, Reader!Fail, Reader!Return, Reader!More
  <2>3. Reader!NL \in Bytes
    BY <1>6 DEF Bytes
  <2>4. Reader!Unread # <<>> => r \in Seq(Bytes) /\ m \in 0..arrived'
    BY <1>1, <1>2, <1>3, <2>3
  <2>5. <<>> \in Seq(Bytes)
    OBVIOUS
  <2> HIDE DEF r, m
  <2>6. /\ got' \in 0..arrived' /\ line' \in Seq(Bytes) /\ status' \in {"ok", "closed", "error"}
        /\ records' = records \/ \E x \in Seq(Bytes) : records' = Append(records, x)
    BY <1>1, <2>2, <2>4, <2>5, Zenon
  <2> QED BY <1>1, <2>1, <2>6, ReaderTypeKept
<1>7. CASE function = "read_message" /\ Reader!read_message
  <2>1. MessageInv /\ Len(line) < Size /\ Bytes = Nat
    BY <1>1, <1>7, MessageTypes DEF ReaderInv, MessageInv
  <2>2. got' = got + Len(Received) - Len(line)
    BY <1>7 DEF Reader!read_message, Received, Size
  <2>3. Received \in Seq(Nat) /\ got' \in got..arrived
    BY <1>1, <1>7, <2>1, <2>2, ReceivedParts
  <2>4. UNCHANGED ahead
    BY <1>7 DEF Reader!read_message
  <2>5. \/ UNCHANGED <<line, records>> /\ status' \in {"closed", "error"}
        \/ records' = Append(records, Received) /\ line' = <<>> /\ status' = status
        \/ line' = Received /\ UNCHANGED <<records, status>>
        \/ line' = <<>> /\ UNCHANGED <<records, status>>
    BY <1>7 DEF Reader!read_message, Received, Size, Reader!Fail, Reader!Return, Reader!More
  <2>6. field' \in {"length", "type", "body"}
    BY <1>1, <1>7 DEF Reader!read_message
  <2>7. msg_length' \in Nat
    <3>1. \/ UNCHANGED msg_length
          \/ /\ field = "length" /\ msg_length' = Reader!ntohl(Received)
             /\ Len(Received) >= Size
      BY <1>7 DEF Reader!read_message, Received, Size
    <3>2. CASE field = "length" /\ Len(Received) >= Size /\ msg_length' = Reader!ntohl(Received)
      <4>1. Len(Received) >= 2
        BY <3>2 DEF Size, Reader!sizeof_u_int32_t
      <4>2. Received[1] \in Nat /\ Received[2] \in Nat
        BY <2>3, <4>1, ElementOfSeq, LenProperties
      <4> QED BY <3>2, <4>2 DEF Reader!ntohl
    <3> QED BY <1>1, <3>1, <3>2
  <2>8. got' \in 0..arrived'
    BY <1>1, <2>3
  <2>9. /\ line' \in Seq(Bytes) /\ status' \in {"ok", "closed", "error"}
        /\ records' = records \/ \E x \in Seq(Bytes) : records' = Append(records, x)
    <3>1. <<>> \in Seq(Bytes) /\ Received \in Seq(Bytes)
      BY <2>1, <2>3
    <3> QED BY <1>1, <2>5, <3>1, Zenon
  <2> QED BY <1>1, <2>4, <2>6, <2>7, <2>8, <2>9, ReaderTypeKept
<1> QED BY <1>4, <1>5, <1>6, <1>7 DEF Reader!Read

LEMMA ReaderInitially ==
    ASSUME Reader!Init, Reader!FunctionsAssumption, Reader!TextsAssumption
    PROVE  ReaderInv
<1>1. /\ function \in {"readline", "readline_2", "read_line", "read_message"}
      /\ arrived = 0 /\ got = 0 /\ line = <<>> /\ field = "length" /\ msg_length = 0
      /\ records = <<>> /\ status = "ok" /\ ahead = FALSE
  BY DEF Reader!Init, Reader!FunctionsAssumption
<1>2. /\ stream \in Seq(Bytes)
      /\ function = "read_message" =>
            /\ written \in Seq(Seq(Nat) \ {<<>>}) /\ written \in Seq(Seq(Nat))
            /\ Parcels \in Seq(Seq(Nat)) /\ stream = FlattenSeq(Parcels)
  <2>1. CASE function = "read_message"
    <3>1. written \in Seq(Seq(Nat) \ {<<>>})
      BY <2>1 DEF Reader!Init, Reader!StreamInit, Reader!TextsAssumption
    <3>2. written \in Seq(Seq(Nat))
      <4>1. Len(written) \in Nat /\ \A k \in 1..Len(written) : written[k] \in Seq(Nat)
        BY <3>1, LenProperties, ElementOfSeq
      <4> QED BY <3>1, <4>1
    <3>3. Parcels \in Seq(Seq(Nat)) /\ stream = FlattenSeq(Parcels)
      BY <2>1, <3>2, ParcelsType, ReaderOperators DEF Reader!Init, Reader!StreamInit, Parcels
    <3>4. stream \in Seq(Nat) /\ Bytes = Nat
      BY <2>1, <3>3, FlattenType DEF Bytes
    <3> QED BY <3>1, <3>2, <3>3, <3>4
  <2>2. CASE function # "read_message"
    <3>1. stream \in Seq(Reader!Range(stream))
      BY <2>2 DEF Reader!Init, Reader!StreamInit, Reader!TextsAssumption
    <3>2. /\ Len(stream) \in Nat /\ DOMAIN stream = 1..Len(stream)
          /\ stream = [k \in 1..Len(stream) |-> stream[k]]
      BY <3>1, LenProperties
    <3>3. \A k \in 1..Len(stream) : stream[k] \in Bytes
      BY <2>2, <3>2 DEF Bytes
    <3>4. stream \in Seq(Bytes)
      BY <3>1, <3>2, <3>3
    <3> QED BY <2>2, <3>4
  <2> QED BY <2>1, <2>2
<1>3. ReaderType
  <2>1. <<>> \in Seq(Bytes) /\ <<>> \in Seq(Seq(Bytes)) /\ Len(stream) \in Nat
    BY <1>2, LenProperties
  <2>2. arrived \in 0..Len(stream) /\ got \in 0..arrived /\ msg_length \in Nat
    BY <1>1, <2>1
  <2>3. /\ line \in Seq(Bytes) /\ records \in Seq(Seq(Bytes)) /\ ahead \in BOOLEAN
        /\ field \in {"length", "type", "body"} /\ status \in {"ok", "closed", "error"}
    BY <1>1, <2>1
  <2> QED BY <1>1, <1>2, <2>2, <2>3, Zenon DEF ReaderType
<1>4. FlattenSeq(records) = <<>> /\ Len(records) = 0 /\ Len(line) = 0
  BY <1>1, FlattenEmpty
<1>5. \A S : \A t \in Seq(S) : IsPrefix(<<>>, t) /\ <<>> \o t = t
  BY ConcatEmptySeq, SubSeqEmpty, LenProperties DEF IsPrefix
<1>6. CASE function = "read_message"
  <2>1. RecordsIntact
    BY <1>1, <1>2, <1>5, <1>6, ReaderOperators, Zenon DEF RecordsIntact, Reader!RecordsIntact
  <2>2. StreamAfter(0) = stream /\ ParcelsAfter(0) = stream
    <3>1. SubSeq(stream, 1, Len(stream)) = stream /\ SubSeq(Parcels, 1, Len(Parcels)) = Parcels
      BY <1>2, <1>6, SubSeqFull
    <3>2. 0 + 1 = 1
      OBVIOUS
    <3> QED BY <1>2, <1>6, <3>1, <3>2, Zenon DEF StreamAfter, ParcelsAfter
  <2>3. SubSeq(written, 1, 0) = <<>> /\ 0 <= Len(written)
    BY <1>2, <1>6, SubSeqEmpty, LenProperties
  <2>4. line \o StreamAfter(got) = ParcelsAfter(Len(records))
    BY <1>1, <1>2, <1>4, <1>5, <2>2
  <2>5. MessageInv
    BY <1>1, <1>4, <2>3, <2>4 DEF MessageInv, Size, Reader!sizeof_u_int32_t
  <2> QED BY <1>3, <1>6, <2>1, <2>5 DEF ReaderInv
<1>7. CASE function # "read_message"
  <2>1. Reader!Text = LaterAt(0) /\ LaterAt(0) \in Seq(Bytes)
    BY <1>2, <1>3, <1>7, LenProperties, TextIsLater, LaterType
  <2>2. <<>> \o <<>> = <<>> /\ <<>> \o (<<>> \o LaterAt(0)) = LaterAt(0)
    BY <1>5, <2>1
  <2>3. RecordsIntact
    <3>1. IsPrefix(FlattenSeq(records) \o line, Reader!Text)
      BY <1>1, <1>4, <1>5, <2>1, <2>2
    <3>2. DOMAIN records = {}
      BY <1>1
    <3> QED BY <1>1, <1>7, <3>1, <3>2, ReaderOperators, Zenon
            DEF RecordsIntact, Reader!RecordsIntact, Reader!Returned
  <2>4. LineInv
    <3>1. Reader!Text = FlattenSeq(records) \o (line \o LaterAt(got))
      BY <1>1, <1>4, <2>1, <2>2
    <3>2. NoFeed(line)
      BY <1>4 DEF NoFeed
    <3>3. ~ got \in 1..Len(stream) - 1
      BY <1>1, <1>2, LenProperties
    <3> QED BY <3>1, <3>2, <3>3, Zenon DEF LineInv
  <2> QED BY <1>3, <1>7, <2>3, <2>4 DEF ReaderInv
<1> QED BY <1>6, <1>7

LEMMA ReaderKept ==
    ASSUME ReaderInv, UNCHANGED <<function, written, stream, got, Reader!call>>, ReaderType'
    PROVE  ReaderInv'
BY DEF ReaderInv, Reader!call, RecordsIntact, Reader!RecordsIntact, Reader!Returned, Reader!Text,
       Reader!Rest, Reader!IsLine, Reader!Eof, MessageInv, Size, Number1, LineInv, LaterAt, EndsAfter, Ends,
       StreamAfter, ParcelsAfter, Parcels

LEMMA ReaderHolds == Spec => []ReaderInv
<1>1. Reader!LimitAssumption /\ Reader!FunctionsAssumption /\ Reader!TextsAssumption
  BY OthersAssumption
<1>2. Init => ReaderInv
  BY <1>1, ReaderInitially DEF Init
<1>3. ReaderInv /\ [Next]_vars => ReaderInv'
  <2>1. ASSUME ReaderInv, Reader!arrive PROVE ReaderInv'
    <3>1. /\ ReaderType /\ Len(stream) \in Nat
      BY <2>1, LenProperties DEF ReaderInv, ReaderType
    <3>2. arrived' \in 0..Len(stream) /\ got \in 0..arrived'
      BY <2>1, <3>1 DEF Reader!arrive, ReaderType
    <3>3. ReaderType'
      BY <2>1, <3>1, <3>2, ReaderTypeKept DEF Reader!arrive, Reader!call, ReaderType
    <3> QED BY <2>1, <3>3, ReaderKept DEF Reader!arrive
  <2>2. ASSUME ReaderInv, Reader!Read PROVE ReaderInv'
    <3>1. ReaderType' /\ UNCHANGED <<function, written, stream, arrived>> /\ status = "ok"
      BY <2>2, ReaderTypeStep DEF Reader!Read
    <3>2. CASE function = "readline" /\ Reader!readline
      <4>1. RecordsIntact' /\ (status' = "ok" => ahead' \/ LineInv')
        BY <1>1, <2>2, <3>1, <3>2, readlineStep DEF ReaderInv
      <4> QED BY <3>1, <3>2, <4>1 DEF ReaderInv
    <3>3. CASE function = "readline_2" /\ Reader!readline_2
      <4>1. RecordsIntact' /\ (status' = "ok" => ahead' \/ LineInv')
        BY <1>1, <2>2, <3>1, <3>3, readline_2Step DEF ReaderInv
      <4> QED BY <3>1, <3>3, <4>1 DEF ReaderInv
    <3>4. CASE function = "read_line" /\ Reader!read_line
      <4>1. RecordsIntact' /\ (status' = "ok" => ahead' \/ LineInv')
        BY <1>1, <2>2, <3>1, <3>4, read_lineStep DEF ReaderInv
      <4> QED BY <3>1, <3>4, <4>1 DEF ReaderInv
    <3>5. CASE function = "read_message" /\ Reader!read_message
      <4>1. RecordsIntact' /\ (status' = "ok" => MessageInv')
        BY <1>1, <2>2, <3>1, <3>5, read_messageStep DEF ReaderInv
      <4> QED BY <3>1, <3>5, <4>1 DEF ReaderInv
    <3> QED BY <2>2, <3>2, <3>3, <3>4, <3>5 DEF Reader!Read
  <2>3. ASSUME ReaderInv, UNCHANGED readerVars PROVE ReaderInv'
    <3>1. ReaderType'
      BY <2>3 DEF readerVars, ReaderInv, ReaderType, Bytes
    <3> QED BY <2>3, <3>1, ReaderKept DEF readerVars, Reader!call
  <2> QED BY <2>1, <2>2, <2>3, ReadersStep DEF Reader!Next
<1> QED BY <1>2, <1>3, PTL DEF Spec

\* Whatever is written, in whatever pieces it arrives, and however long the
\* caller's buffer is: the functions of read.c return the lines and messages
\* one by one and in order, and none is lost, up to one that is too long,
\* which read_line returns in parts; for readline as long as no recv brings
\* bytes behind a line (read.c:44-130).
THEOREM RecordsWhole == Spec => []RecordsIntact
<1>1. ReaderInv => RecordsIntact
  BY DEF ReaderInv
<1> QED BY <1>1, ReaderHolds, PTL

-----------------------------------------------------------------------------
(* The echo servers.                                                       *)
(*                                                                         *)
(* What a server has sent to a client is a prefix of what it makes of the  *)
(* bytes it has read from it; with what it still holds for the client, it  *)
(* is all of that.                                                         *)

Char == Byte \cup {"Hi"}

\* Echo, of the program p.
Echoed(p, s) == IF p \in {"poll", "grace"} THEN s ELSE Rot(s)

\* Of the bytes s of a client, n were read; behind what was stale, r is its
\* reply and o what is held for it, until its connection is cut off.
InStep(p, st, s, n, r, o, cut) ==
    LET had == st \o Echoed(p, SubSeq(s, 1, n)) IN
    /\ IsPrefix(Payload(r), had)
    /\ ~ cut => Payload(r \o o) = had

-----------------------------------------------------------------------------
(* Bytes.                                                                  *)

LEMMA ByteTypes ==
    /\ "Hi" \in Char /\ "Hi" \notin Byte
    /\ \A s : s \in Seq(Byte) => s \in Seq(Char)
    /\ \A b \in Byte : rot13_char(b) \in Byte
<1>1. "Hi" \notin Byte
  BY DEF Byte, NL
<1>2. \A s : s \in Seq(Byte) => s \in Seq(Char)
  BY SeqMonotonic DEF Char
<1>3. \A b \in Byte : rot13_char(b) \in Byte
  BY DEF Byte, rot13_char
<1> QED BY <1>1, <1>2, <1>3 DEF Char

LEMMA RotType ==
    ASSUME NEW s \in Seq(Byte)
    PROVE  /\ Rot(s) \in Seq(Byte) /\ Len(Rot(s)) = Len(s) /\ Len(s) \in Nat
           /\ \A k \in 1..Len(s) : Rot(s)[k] = rot13_char(s[k])
<1>1. DOMAIN s = 1..Len(s) /\ Len(s) \in Nat /\ \A k \in 1..Len(s) : s[k] \in Byte
  BY LenProperties, ElementOfSeq
<1>2. Rot(s) = [k \in 1..Len(s) |-> rot13_char(s[k])]
  BY <1>1 DEF Rot
<1>3. Rot(s) \in [1..Len(s) -> Byte]
  BY <1>1, <1>2, ByteTypes
<1>4. Rot(s) \in Seq(Byte) /\ Len(Rot(s)) = Len(s)
  BY <1>1, <1>3, IsASeq, LenProperties
<1> QED BY <1>1, <1>2, <1>4

LEMMA RotConcat ==
    ASSUME NEW s \in Seq(Byte), NEW t \in Seq(Byte)
    PROVE  Rot(s \o t) = Rot(s) \o Rot(t)
<1> DEFINE u == s \o t
<1>1. /\ u \in Seq(Byte) /\ Len(u) = Len(s) + Len(t)
      /\ \A k \in 1..Len(s) + Len(t) : u[k] = IF k <= Len(s) THEN s[k] ELSE t[k - Len(s)]
  BY ConcatProperties
<1>2. /\ Rot(s) \in Seq(Byte) /\ Len(Rot(s)) = Len(s) /\ Len(s) \in Nat
      /\ \A k \in 1..Len(s) : Rot(s)[k] = rot13_char(s[k])
  BY RotType
<1>3. /\ Rot(t) \in Seq(Byte) /\ Len(Rot(t)) = Len(t) /\ Len(t) \in Nat
      /\ \A k \in 1..Len(t) : Rot(t)[k] = rot13_char(t[k])
  BY RotType
<1> HIDE DEF u
<1>4. /\ Rot(u) \in Seq(Byte) /\ Len(Rot(u)) = Len(u)
      /\ \A k \in 1..Len(u) : Rot(u)[k] = rot13_char(u[k])
  BY <1>1, RotType
<1> DEFINE a == Rot(s)  b == Rot(t)  v == a \o b
<1>5. /\ v \in Seq(Byte) /\ Len(v) = Len(a) + Len(b)
      /\ \A k \in 1..Len(a) + Len(b) : v[k] = IF k <= Len(a) THEN a[k] ELSE b[k - Len(a)]
  <2>1. a \in Seq(Byte) /\ b \in Seq(Byte)
    BY <1>2, <1>3
  <2> HIDE DEF a, b
  <2> QED BY <2>1, ConcatProperties
<1> HIDE DEF v
<1>6. ASSUME NEW k \in 1..Len(u) PROVE Rot(u)[k] = v[k]
  <2>1. CASE k <= Len(s)
    BY <1>1, <1>2, <1>3, <1>4, <1>5, <1>6, <2>1
  <2>2. CASE ~ k <= Len(s)
    <3>1. k - Len(s) \in 1..Len(t)
      BY <1>1, <1>2, <1>3, <1>6, <2>2
    <3> QED BY <1>1, <1>2, <1>3, <1>4, <1>5, <1>6, <2>2, <3>1
  <2> QED BY <2>1, <2>2
<1>7. Rot(u) = v
  BY <1>1, <1>2, <1>3, <1>4, <1>5, <1>6, SeqEqual
<1> QED BY <1>7 DEF u, v

LEMMA EchoedType ==
    ASSUME NEW p, NEW s \in Seq(Byte)
    PROVE  Echoed(p, s) \in Seq(Byte) /\ Len(Echoed(p, s)) = Len(s)
BY RotType DEF Echoed

LEMMA EchoedConcat ==
    ASSUME NEW p, NEW s \in Seq(Byte), NEW t \in Seq(Byte)
    PROVE  Echoed(p, s \o t) = Echoed(p, s) \o Echoed(p, t)
BY RotConcat DEF Echoed

LEMMA EchoedEmpty == \A p : Echoed(p, <<>>) = <<>>
<1>1. Rot(<<>>) \in Seq(Byte) /\ Len(Rot(<<>>)) = 0
  BY EmptySeq, RotType
<1> QED BY <1>1, EmptySeq DEF Echoed

LEMMA PayloadType ==
    ASSUME NEW s \in Seq(Char)
    PROVE  Payload(s) \in Seq(Char)
BY WithoutType DEF Payload, Without, Kept

LEMMA PayloadOfBytes ==
    ASSUME NEW s \in Seq(Byte)
    PROVE  Payload(s) = s
<1>1. Without(s, "Hi") = s
  BY ByteTypes, WithoutNone
<1> QED BY <1>1 DEF Payload, Without, Kept

LEMMA CharsConcat ==
    /\ \A x, y, z \in Seq(Byte) : (x \o y) \o z = x \o (y \o z)
    /\ \A x, y, z \in Seq(Char) : (x \o y) \o z = x \o (y \o z)
<1>1. ASSUME NEW x \in Seq(Byte), NEW y \in Seq(Byte), NEW z \in Seq(Byte)
      PROVE  (x \o y) \o z = x \o (y \o z)
  BY ConcatAssociative
<1>2. ASSUME NEW x \in Seq(Char), NEW y \in Seq(Char), NEW z \in Seq(Char)
      PROVE  (x \o y) \o z = x \o (y \o z)
  BY ConcatAssociative
<1> QED BY <1>1, <1>2, Zenon

LEMMA PayloadConcat ==
    ASSUME NEW r \in Seq(Char), NEW s \in Seq(Char)
    PROVE  Payload(r \o s) = Payload(r) \o Payload(s)
<1>1. Without(r \o s, "Hi") = Without(r, "Hi") \o Without(s, "Hi")
  BY WithoutConcat
<1> QED BY <1>1 DEF Payload, Without, Kept

\* The greeting is no part of the payload.
LEMMA PayloadOfGreeting ==
    ASSUME NEW s \in Seq(Byte)
    PROVE  <<"Hi">> \o s \in Seq(Char) /\ Payload(<<"Hi">> \o s) = s
<1> DEFINE g == <<"Hi">>
<1>1. g \in Seq(Char) /\ g = Append(<<>>, "Hi") /\ <<>> \in Seq(Char) /\ s \in Seq(Char)
  BY ByteTypes, EmptySeq
<1>2. Payload(g) = <<>>
  <2>1. Without(Append(<<>>, "Hi"), "Hi") = Without(<<>>, "Hi")
    BY <1>1, ByteTypes, WithoutAppend
  <2>2. Without(<<>>, "Hi") = <<>>
    BY WithoutEmpty
  <2> QED BY <1>1, <2>1, <2>2 DEF Payload, Without, Kept
<1> HIDE DEF g
<1>3. Payload(g \o s) = <<>> \o s
  <2>1. Payload(g \o s) = Payload(g) \o Payload(s)
    BY <1>1, PayloadConcat, Zenon
  <2>2. Payload(s) = s
    BY PayloadOfBytes
  <2> QED BY <1>2, <2>1, <2>2
<1>4. g \o s \in Seq(Char)
  BY <1>1, ConcatProperties
<1> QED BY <1>3, <1>4, ConcatEmptySeq DEF g

-----------------------------------------------------------------------------
(* What keeps the bytes in step.                                           *)

\* Before anything was read.
LEMMA InStepFirst ==
    ASSUME NEW p, NEW st \in Seq(Byte), NEW s, NEW cut
    PROVE  InStep(p, st, s, 0, <<>>, st, cut)
<1> DEFINE had == st \o Echoed(p, SubSeq(s, 1, 0))
<1>1. SubSeq(s, 1, 0) = <<>> /\ Echoed(p, <<>>) = <<>> /\ st \o <<>> = st
  BY SubSeqEmpty, EchoedEmpty, ConcatEmptySeq
<1>2. had = st
  BY <1>1
<1>3. <<>> \in Seq(Byte) /\ <<>> \o st = st
  BY EmptySeq, ConcatEmptySeq
<1>4. Payload(<<>>) = <<>> /\ Payload(<<>> \o st) = st
  BY <1>3, PayloadOfBytes
<1>5. IsPrefix(<<>>, st)
  BY <1>3, PrefixOfConcat
<1> HIDE DEF had
<1>6. IsPrefix(Payload(<<>>), had) /\ Payload(<<>> \o st) = had
  BY <1>2, <1>4, <1>5
<1> QED BY <1>6 DEF InStep, had

\* The client writes.
LEMMA InStepWrite ==
    ASSUME NEW p, NEW st, NEW s \in Seq(Byte), NEW n \in 0..Len(s), NEW r, NEW o, NEW cut,
           NEW b \in Byte, InStep(p, st, s, n, r, o, cut)
    PROVE  InStep(p, st, Append(s, b), n, r, o, cut)
<1>1. SubSeq(Append(s, b), 1, n) = SubSeq(s, 1, n)
  BY FrontOfAppend
<1> QED BY <1>1, Zenon DEF InStep

\* The connection is cut off.
LEMMA InStepCut ==
    ASSUME NEW p, NEW st, NEW s, NEW n, NEW r, NEW o, NEW cut, NEW q,
           InStep(p, st, s, n, r, o, cut)
    PROVE  InStep(p, st, s, n, r, q, TRUE)
BY Zenon DEF InStep

\* The server reads m bytes, and holds for the client what it makes of them.
LEMMA InStepRead ==
    ASSUME NEW p, NEW st \in Seq(Byte), NEW s \in Seq(Byte), NEW n \in Nat, NEW m \in Nat,
           n + m <= Len(s), NEW r \in Seq(Char), NEW o \in Seq(Char), NEW cut,
           NEW x \in Seq(Char), Payload(x) = Echoed(p, SubSeq(s, n + 1, n + m)),
           InStep(p, st, s, n, r, o, cut)
    PROVE  InStep(p, st, s, n + m, r, o \o x, cut) /\ o \o x \in Seq(Char)
<1> DEFINE had == st \o Echoed(p, SubSeq(s, 1, n))
           more == st \o Echoed(p, SubSeq(s, 1, n + m))
           y == Payload(x)
           z == Echoed(p, SubSeq(s, 1, n))
<1>1. /\ SubSeq(s, 1, n) \in Seq(Byte) /\ SubSeq(s, n + 1, n + m) \in Seq(Byte)
      /\ SubSeq(s, 1, n + m) = SubSeq(s, 1, n) \o SubSeq(s, n + 1, n + m)
  BY FrontGrows
<1>2. z \in Seq(Byte) /\ y \in Seq(Byte) /\ Echoed(p, SubSeq(s, 1, n + m)) = z \o y
  <2> DEFINE f == SubSeq(s, 1, n)  g == SubSeq(s, n + 1, n + m)
  <2>1. /\ f \in Seq(Byte) /\ g \in Seq(Byte) /\ SubSeq(s, 1, n + m) = f \o g
        /\ z = Echoed(p, f) /\ y = Echoed(p, g)
    BY <1>1
  <2> HIDE DEF f, g, y, z
  <2>2. Echoed(p, f) \in Seq(Byte) /\ Echoed(p, g) \in Seq(Byte)
        /\ Echoed(p, f \o g) = Echoed(p, f) \o Echoed(p, g)
    BY <2>1, EchoedType, EchoedConcat
  <2> QED BY <2>1, <2>2
<1> HIDE DEF y
<1>3. had \in Seq(Byte) /\ more = had \o y
  <2> HIDE DEF z
  <2>1. st \in Seq(Byte) /\ z \in Seq(Byte) /\ y \in Seq(Byte)
    BY <1>2
  <2>2. (st \o z) \o y = st \o (z \o y)
    BY <2>1, CharsConcat, Zenon
  <2>3. st \o z \in Seq(Byte)
    BY <2>1, ConcatProperties
  <2> QED BY <1>2, <2>2, <2>3 DEF z
<1>4. IsPrefix(Payload(r), had) /\ (~ cut => Payload(r \o o) = had)
  BY DEF InStep
<1> HIDE DEF had, more
<1>5. Payload(r) \in Seq(Char) /\ had \in Seq(Char) /\ y \in Seq(Char)
  BY <1>2, <1>3, PayloadType, ByteTypes
<1>6. IsPrefix(Payload(r), more)
  BY <1>3, <1>4, <1>5, PrefixGrows
<1>7. o \o x \in Seq(Char) /\ r \o o \in Seq(Char)
  BY ConcatProperties
<1>8. r \o (o \o x) = (r \o o) \o x
  BY CharsConcat, Zenon
<1>9. ~ cut => Payload(r \o (o \o x)) = more
  <2>1. Payload((r \o o) \o x) = Payload(r \o o) \o y
    <3> DEFINE u == r \o o
    <3>1. u \in Seq(Char)
      BY <1>7
    <3> HIDE DEF u
    <3>2. Payload(u \o x) = Payload(u) \o Payload(x)
      BY <3>1, PayloadConcat
    <3> QED BY <3>2 DEF u, y
  <2> QED BY <1>3, <1>4, <1>8, <2>1
<1> QED BY <1>6, <1>7, <1>9 DEF InStep, more

\* The first part of what it holds is sent.
LEMMA InStepSend ==
    ASSUME NEW p, NEW st, NEW s, NEW n, NEW r \in Seq(Char),
           NEW a \in Seq(Char), NEW b \in Seq(Char), NEW cut,
           InStep(p, st, s, n, r, a \o b, FALSE)
    PROVE  InStep(p, st, s, n, r \o a, b, cut) /\ r \o a \in Seq(Char)
<1> DEFINE had == st \o Echoed(p, SubSeq(s, 1, n))
           u == r \o a
<1>1. u \in Seq(Char) /\ u \o b = r \o (a \o b)
  BY MovedFront
<1>2. Payload(r \o (a \o b)) = had
  BY DEF InStep
<1> HIDE DEF had, u
<1>3. Payload(u \o b) = Payload(u) \o Payload(b) /\ Payload(u) \in Seq(Char)
      /\ Payload(b) \in Seq(Char)
  BY <1>1, PayloadConcat, PayloadType
<1>4. IsPrefix(Payload(u), had)
  <2>1. IsPrefix(Payload(u), Payload(u) \o Payload(b))
    BY <1>3, PrefixOfConcat
  <2> QED BY <1>1, <1>2, <1>3, <2>1
<1>5. IsPrefix(Payload(u), had) /\ Payload(u \o b) = had
  BY <1>1, <1>2, <1>4
<1> QED BY <1>1, <1>5 DEF InStep, had, u

\* So a reply is a prefix of what is made of all that the client has sent.
LEMMA InStepReply ==
    ASSUME NEW p, NEW st \in Seq(Byte), NEW s \in Seq(Byte), NEW n \in 0..Len(s),
           NEW r \in Seq(Char), NEW o, NEW cut, InStep(p, st, s, n, r, o, cut)
    PROVE  IsPrefix(Payload(r), st \o Echoed(p, s))
<1> DEFINE f == SubSeq(s, 1, n)
           g == SubSeq(s, n + 1, Len(s))
           y == Echoed(p, f)
           z == Echoed(p, g)
           had == st \o y
<1>1. f \in Seq(Byte) /\ g \in Seq(Byte) /\ f \o g = s
  BY SplitAt
<1> HIDE DEF f, g
<1>2. y \in Seq(Byte) /\ z \in Seq(Byte) /\ Echoed(p, f \o g) = y \o z
  BY <1>1, EchoedType, EchoedConcat
<1> HIDE DEF y, z
<1>3. (st \o y) \o z = st \o (y \o z)
  BY <1>2, CharsConcat, Zenon
<1>4. had \in Seq(Byte)
  BY <1>2, ConcatProperties
<1>5. IsPrefix(Payload(r), had)
  BY Zenon DEF InStep, had, y, f
<1>6. Payload(r) \in Seq(Char) /\ had \in Seq(Char) /\ z \in Seq(Char)
  BY <1>2, <1>4, PayloadType, ByteTypes
<1>7. st \o Echoed(p, s) = had \o z
  BY <1>1, <1>2, <1>3
<1> HIDE DEF had
<1> QED BY <1>5, <1>6, <1>7, PrefixGrows

-----------------------------------------------------------------------------
(* The sockets, as every server and its clients move them.                 *)

Bound == IF program \in {"fork", "thread"} THEN LineSent ELSE MaxSent

SocketsType ==
    /\ conn \in [Clients -> {"idle", "backlog", "open", "closed"}]
    /\ ending \in [Clients -> {"no", "fin", "rst"}]
    /\ sent \in [Clients -> Seq(Byte)] /\ taken \in [Clients -> Nat]
    /\ outbuf \in [Clients -> Seq(Char)] /\ reply \in [Clients -> Seq(Char)]
    /\ seen \in [Clients -> Nat] /\ stale \in [Clients -> Seq(Byte)]
    /\ \A c \in Clients :
        /\ Len(sent[c]) <= Bound[c] /\ taken[c] <= Len(sent[c])
        /\ seen[c] <= Len(reply[c])
    /\ alive \in BOOLEAN
    /\ spoiled \in [Clients -> BOOLEAN]

\* The servers that have one buffer for each connection.
EchoInv ==
    program # "nonblocking" =>
        \A c \in Clients :
            /\ stale[c] = <<>>
            /\ ~ spoiled[c] => InStep(program, stale[c], sent[c], taken[c], reply[c], outbuf[c],
                                      ending[c] = "rst")

\* What a step of a client may do.
ClientMoves(c) ==
    /\ UNCHANGED <<program, taken, outbuf, reply, alive, pc, ready, stale, spoiled>>
    /\ \/ sent' = sent
       \/ /\ conn[c] = "open" /\ Len(sent[c]) < Bound[c]
          /\ \E b \in Byte : sent' = [sent EXCEPT ![c] = Append(@, b)]
    /\ \/ conn' = conn
       \/ conn[c] = "idle" /\ conn' = [conn EXCEPT ![c] = "backlog"]
       \/ conn[c] = "backlog" /\ conn' = [conn EXCEPT ![c] = "closed"]
    /\ ending' = ending \/ \E e \in {"fin", "rst"} : ending[c] = "no" /\ ending' = [ending EXCEPT ![c] = e]
    /\ seen' = seen \/ seen' = [seen EXCEPT ![c] = Len(reply[c])]

LEMMA LetterType == ASSUME NEW c \in Clients PROVE {Letter[c], NL} \subseteq Byte
BY LetterAssumption DEF Byte

LEMMA BoundType ==
    ASSUME NEW c \in Clients
    PROVE  Bound[c] \in Nat /\ MaxSent[c] \in Nat /\ LineSent[c] \in Nat
BY BoundsAssumption, ServersAssumption DEF Bound

LEMMA ShortClient ==
    ASSUME SocketsType, program \notin {"fork", "thread"}, program' = program,
           NEW c \in Clients, Client(c)
    PROVE  ClientMoves(c)
<1> USE DEF clientSide, serverSide, histories
<1>1. UNCHANGED <<taken, outbuf, reply, alive, pc, ready, stale, spoiled>>
  BY DEF Client, Connect, Write, ShutdownWrite, Reset, Receive
<1>2. CASE Connect(c)
  BY <1>1, <1>2 DEF Connect, ClientMoves
<1>3. CASE Write(c)
  <2>1. /\ UNCHANGED <<conn, ending, seen>> /\ conn[c] = "open" /\ Len(sent[c]) < Bound[c]
        /\ \E b \in Byte : sent' = [sent EXCEPT ![c] = Append(@, b)]
    BY <1>3, LetterType DEF Write, NL, Bound
  <2> QED BY <1>1, <2>1 DEF ClientMoves
<1>4. CASE ShutdownWrite(c)
  BY <1>1, <1>4 DEF ShutdownWrite, Active, ClientMoves
<1>5. CASE Reset(c)
  <2>1. /\ ending[c] = "no" /\ ending' = [ending EXCEPT ![c] = "rst"] /\ UNCHANGED <<sent, seen>>
        /\ conn[c] \in {"backlog", "open"}
        /\ conn' \in {conn, [conn EXCEPT ![c] = IF @ = "backlog" THEN "closed" ELSE @]}
    BY <1>5 DEF Reset, Active
  <2>2. conn[c] = "open" => [conn EXCEPT ![c] = IF @ = "backlog" THEN "closed" ELSE @] = conn
    BY DEF SocketsType
  <2>3. conn' = conn \/ (conn[c] = "backlog" /\ conn' = [conn EXCEPT ![c] = "closed"])
    BY <2>1, <2>2
  <2> QED BY <1>1, <2>1, <2>3 DEF ClientMoves
<1>6. CASE Receive(c)
  BY <1>1, <1>6 DEF Receive, ClientMoves
<1> QED BY <1>2, <1>3, <1>4, <1>5, <1>6 DEF Client

LEMMA LineClient ==
    ASSUME SocketsType, program \in {"fork", "thread"}, program' = program,
           NEW c \in Clients, Fork!Client(c)
    PROVE  ClientMoves(c)
<1> USE DEF Fork!clientSide, Fork!serverSide, Fork!histories
<1>1. UNCHANGED <<taken, outbuf, reply, alive, pc, ready, stale, spoiled>>
  BY DEF Fork!Client, Fork!Connect, Fork!Write, Fork!ShutdownWrite, Fork!Reset, Fork!Receive
<1>2. CASE Fork!Connect(c)
  BY <1>1, <1>2 DEF Fork!Connect, ClientMoves
<1>3. CASE Fork!Write(c)
  <2>1. /\ UNCHANGED <<conn, ending, seen>> /\ conn[c] = "open" /\ Len(sent[c]) < Bound[c]
        /\ \E b \in Byte : sent' = [sent EXCEPT ![c] = Append(@, b)]
    BY <1>3, LetterType DEF Fork!Write, NL, Bound, Fork!NL
  <2> QED BY <1>1, <2>1 DEF ClientMoves
<1>4. CASE Fork!ShutdownWrite(c)
  BY <1>1, <1>4 DEF Fork!ShutdownWrite, Fork!Active, ClientMoves
<1>5. CASE Fork!Reset(c)
  <2>1. /\ ending[c] = "no" /\ ending' = [ending EXCEPT ![c] = "rst"] /\ UNCHANGED <<sent, seen>>
        /\ conn[c] \in {"backlog", "open"}
        /\ conn' \in {conn, [conn EXCEPT ![c] = IF @ = "backlog" THEN "closed" ELSE @]}
    BY <1>5 DEF Fork!Reset, Fork!Active
  <2>2. conn[c] = "open" => [conn EXCEPT ![c] = IF @ = "backlog" THEN "closed" ELSE @] = conn
    BY DEF SocketsType
  <2>3. conn' = conn \/ (conn[c] = "backlog" /\ conn' = [conn EXCEPT ![c] = "closed"])
    BY <2>1, <2>2
  <2> QED BY <1>1, <2>1, <2>3 DEF ClientMoves
<1>6. CASE Fork!Receive(c)
  BY <1>1, <1>6 DEF Fork!Receive, ClientMoves
<1> QED BY <1>2, <1>3, <1>4, <1>5, <1>6 DEF Fork!Client

\* The clients of all servers are the same, but for how much they write.
LEMMA SameClients ==
    ASSUME NEW c \in Clients
    PROVE  /\ Nonblocking!Client(c) => Client(c)
           /\ Poll!Client(c) => Client(c)
           /\ Epoll!Client(c) => Client(c)
           /\ Grace!Client(c) => Client(c)
           /\ Thread!Client(c) => Fork!Client(c)
<1>1. Nonblocking!Client(c) => Client(c)
  BY DEF Nonblocking!Client, Nonblocking!Connect, Nonblocking!Write,
      Nonblocking!ShutdownWrite, Nonblocking!Reset, Nonblocking!Receive, Nonblocking!Active,
      Nonblocking!clientSide, Nonblocking!serverSide, Nonblocking!histories, Nonblocking!NL,
      Client, Connect, Write, ShutdownWrite, Reset, Receive, Active, clientSide, serverSide,
      histories, NL
<1>2. Poll!Client(c) => Client(c)
  BY DEF Poll!Client, Poll!Connect, Poll!Write, Poll!ShutdownWrite, Poll!Reset,
      Poll!Receive, Poll!Active, Poll!clientSide, Poll!serverSide, Poll!histories, Poll!NL,
      Client, Connect, Write, ShutdownWrite, Reset, Receive, Active, clientSide, serverSide,
      histories, NL
<1>3. Epoll!Client(c) => Client(c)
  BY DEF Epoll!Client, Epoll!Connect, Epoll!Write, Epoll!ShutdownWrite, Epoll!Reset,
      Epoll!Receive, Epoll!Active, Epoll!clientSide, Epoll!serverSide, Epoll!histories,
      Epoll!NL, Client, Connect, Write, ShutdownWrite, Reset, Receive, Active, clientSide,
      serverSide, histories, NL
<1>4. Grace!Client(c) => Client(c)
  BY DEF Grace!Client, Grace!Connect, Grace!Write, Grace!ShutdownWrite, Grace!Reset,
      Grace!Receive, Grace!Active, Grace!clientSide, Grace!serverSide, Grace!histories,
      Grace!NL, Client, Connect, Write, ShutdownWrite, Reset, Receive, Active, clientSide,
      serverSide, histories, NL
<1>5. Thread!Client(c) => Fork!Client(c)
  BY DEF Thread!Client, Thread!Connect, Thread!Write, Thread!ShutdownWrite, Thread!Reset,
      Thread!Receive, Thread!Active, Thread!clientSide, Thread!serverSide, Thread!histories,
      Thread!NL, Fork!Client, Fork!Connect, Fork!Write, Fork!ShutdownWrite, Fork!Reset,
      Fork!Receive, Fork!Active, Fork!clientSide, Fork!serverSide, Fork!histories, Fork!NL
<1> QED BY <1>1, <1>2, <1>3, <1>4, <1>5

LEMMA ClientInStep ==
    ASSUME SocketsType, NEW c \in Clients, ClientMoves(c), NEW d \in Clients, NEW o, NEW cut,
           InStep(program, stale[d], sent[d], taken[d], reply[d], o, cut)
    PROVE  InStep(program, stale[d], sent'[d], taken[d], reply[d], o, cut)
<1>1. CASE sent' = sent
  BY <1>1
<1>2. ASSUME NEW b \in Byte, sent' = [sent EXCEPT ![c] = Append(@, b)]
      PROVE  InStep(program, stale[d], sent'[d], taken[d], reply[d], o, cut)
  <2>1. CASE d # c
    BY <1>2, <2>1 DEF SocketsType
  <2>2. CASE d = c
    <3>1. sent[d] \in Seq(Byte) /\ taken[d] \in 0..Len(sent[d]) /\ sent'[d] = Append(sent[d], b)
      BY <1>2, <2>2 DEF SocketsType
    <3> QED BY <3>1, InStepWrite
  <2> QED BY <2>1, <2>2
<1> QED BY <1>1, <1>2 DEF ClientMoves

LEMMA ClientType ==
    ASSUME SocketsType, NEW c \in Clients, ClientMoves(c)
    PROVE  SocketsType'
<1>1. /\ conn' \in [Clients -> {"idle", "backlog", "open", "closed"}]
      /\ ending' \in [Clients -> {"no", "fin", "rst"}]
  BY DEF SocketsType, ClientMoves
<1>2. Bound' = Bound
  BY DEF Bound, ClientMoves
<1>3. /\ sent' \in [Clients -> Seq(Byte)]
      /\ \A d \in Clients : Len(sent'[d]) <= Bound[d] /\ taken[d] <= Len(sent'[d])
  <2>1. CASE sent' = sent
    BY <2>1 DEF SocketsType
  <2>2. ASSUME NEW b \in Byte, sent' = [sent EXCEPT ![c] = Append(@, b)], Len(sent[c]) < Bound[c]
        PROVE  /\ sent' \in [Clients -> Seq(Byte)]
               /\ \A d \in Clients : Len(sent'[d]) <= Bound[d] /\ taken[d] <= Len(sent'[d])
    <3>1. /\ Append(sent[c], b) \in Seq(Byte) /\ Len(Append(sent[c], b)) = Len(sent[c]) + 1
          /\ Len(sent[c]) \in Nat
      BY AppendProperties, LenProperties DEF SocketsType
    <3> DEFINE t == Append(sent[c], b)
    <3>2. /\ t \in Seq(Byte) /\ Len(t) = Len(sent[c]) + 1 /\ sent' = [sent EXCEPT ![c] = t]
          /\ taken[c] \in Nat /\ Bound[c] \in Nat
      BY <2>2, <3>1, BoundType DEF SocketsType
    <3> HIDE DEF t
    <3> QED BY <2>2, <3>1, <3>2 DEF SocketsType
  <2> QED BY <2>1, <2>2 DEF ClientMoves
<1>4. seen' \in [Clients -> Nat] /\ \A d \in Clients : seen'[d] <= Len(reply[d])
  <2>1. Len(reply[c]) \in Nat /\ seen \in [Clients -> Nat]
        /\ \A d \in Clients : seen[d] <= Len(reply[d])
    BY LenProperties DEF SocketsType
  <2>2. seen' = seen \/ seen' = [seen EXCEPT ![c] = Len(reply[c])]
    BY DEF ClientMoves
  <2> QED BY <2>1, <2>2
<1> QED BY <1>1, <1>2, <1>3, <1>4 DEF SocketsType, ClientMoves

LEMMA ClientKeeps ==
    ASSUME SocketsType, EchoInv, NEW c \in Clients, ClientMoves(c)
    PROVE  SocketsType' /\ EchoInv'
<1>1. UNCHANGED <<program, taken, outbuf, reply, stale, spoiled>>
  BY DEF ClientMoves
<1>2. ASSUME program # "nonblocking", NEW d \in Clients, ~ spoiled[d]
      PROVE  InStep(program, stale[d], sent'[d], taken[d], reply[d], outbuf[d], ending'[d] = "rst")
  <2>1. InStep(program, stale[d], sent[d], taken[d], reply[d], outbuf[d], ending[d] = "rst")
    BY <1>2 DEF EchoInv
  <2>2. InStep(program, stale[d], sent'[d], taken[d], reply[d], outbuf[d], ending[d] = "rst")
    BY <2>1, ClientInStep
  <2>3. CASE ending'[d] = ending[d]
    BY <2>2, <2>3
  <2>4. CASE ending'[d] # ending[d]
    <3>1. ending[d] # "rst"
      BY <2>4 DEF ClientMoves, SocketsType
    <3>2. CASE ending'[d] = "rst"
      <4>1. (ending'[d] = "rst") = TRUE
        BY <3>2
      <4> QED BY <2>2, <4>1, InStepCut
    <3>3. CASE ending'[d] # "rst"
      BY <2>2, <3>1, <3>3, Zenon
    <3> QED BY <3>2, <3>3
  <2> QED BY <2>3, <2>4
<1> QED BY <1>1, <1>2, ClientType DEF EchoInv

-----------------------------------------------------------------------------
(* The steps of a server.                                                  *)

\* First(s, n) is some front of s, and all of it if n is large enough.
LEMMA FirstParts ==
    ASSUME NEW S, NEW s \in Seq(S), NEW n \in Int
    PROVE  \E k \in 0..Len(s) :
              /\ First(s, n) = SubSeq(s, 1, k) /\ First(s, n) \in Seq(S) /\ Len(First(s, n)) = k
              /\ n >= 0 => k <= n
              /\ n >= Len(s) => k = Len(s) /\ First(s, n) = s
<1>1. Len(s) \in Nat
  BY LenProperties
<1>2. CASE n < 0
  <2>1. First(s, n) = SubSeq(s, 1, n) /\ SubSeq(s, 1, n) = <<>> /\ SubSeq(s, 1, 0) = <<>>
    BY <1>1, <1>2, SubSeqEmpty DEF First
  <2>2. SubSeq(s, 1, 0) \in Seq(S) /\ Len(SubSeq(s, 1, 0)) = 0
    BY <1>1, SplitAt
  <2>3. 0 \in 0..Len(s)
    BY <1>1
  <2>4. First(s, n) = SubSeq(s, 1, 0)
    BY <2>1, Zenon
  <2> QED BY <1>1, <1>2, <2>2, <2>3, <2>4
<1>3. CASE 0 <= n /\ n < Len(s)
  <2>1. n \in 0..Len(s) /\ First(s, n) = SubSeq(s, 1, n)
    BY <1>1, <1>3 DEF First
  <2>2. SubSeq(s, 1, n) \in Seq(S) /\ Len(SubSeq(s, 1, n)) = n
    BY <2>1, SplitAt
  <2>3. n >= 0 /\ n <= n /\ ~ (n >= Len(s))
    BY <1>1, <1>3
  <2> QED BY <2>1, <2>2, <2>3, Zenon
<1>4. CASE n >= Len(s)
  <2>1. Len(s) \in 0..Len(s) /\ First(s, n) = SubSeq(s, 1, Len(s)) /\ SubSeq(s, 1, Len(s)) = s
    BY <1>1, <1>4, SubSeqFull DEF First
  <2>2. First(s, n) \in Seq(S) /\ Len(First(s, n)) = Len(s) /\ First(s, n) = s
    BY <2>1, Zenon
  <2>3. Len(s) <= n
    BY <1>1, <1>4
  <2> QED BY <2>1, <2>2, <2>3, Zenon
<1> QED BY <1>1, <1>2, <1>3, <1>4

\* A write that takes n bytes leaves the others.
LEMMA FirstAndRest ==
    ASSUME NEW S, NEW s \in Seq(S), NEW n \in Nat
    PROVE  /\ First(s, n) \in Seq(S) /\ SubSeq(s, n + 1, Len(s)) \in Seq(S)
           /\ First(s, n) \o SubSeq(s, n + 1, Len(s)) = s
           /\ Len(SubSeq(s, n + 1, Len(s))) <= Len(s)
<1>1. Len(s) \in Nat
  BY LenProperties
<1>2. CASE n <= Len(s)
  <2>1. n \in 0..Len(s) /\ First(s, n) = SubSeq(s, 1, n)
    BY <1>1, <1>2 DEF First
  <2>2. /\ SubSeq(s, 1, n) \in Seq(S) /\ SubSeq(s, n + 1, Len(s)) \in Seq(S)
        /\ Len(SubSeq(s, n + 1, Len(s))) = Len(s) - n
        /\ SubSeq(s, 1, n) \o SubSeq(s, n + 1, Len(s)) = s
    BY <2>1, SplitAt
  <2>3. Len(SubSeq(s, n + 1, Len(s))) <= Len(s)
    <3>1. Len(s) - n <= Len(s)
      BY <1>1
    <3> QED BY <2>2, <3>1, Zenon
  <2> QED BY <2>1, <2>2, <2>3, Zenon
<1>3. CASE n > Len(s)
  <2>1. First(s, n) = s
    BY <1>1, <1>3, SubSeqFull DEF First
  <2>2. SubSeq(s, n + 1, Len(s)) = <<>> /\ s \o <<>> = s /\ <<>> \in Seq(S) /\ Len(<<>>) = 0
    BY <1>1, <1>3, SubSeqEmpty, ConcatEmptySeq, EmptySeq
  <2>3. 0 <= Len(s)
    BY <1>1
  <2> QED BY <2>1, <2>2, <2>3, Zenon
<1> QED BY <1>1, <1>2, <1>3, SMTT(20)

LEMMA FrontOfRest ==
    ASSUME NEW S, NEW s \in Seq(S), NEW n \in 0..Len(s), NEW k \in 0..Len(s) - n
    PROVE  SubSeq(SubSeq(s, n + 1, Len(s)), 1, k) = SubSeq(s, n + 1, n + k)
<1> DEFINE u == SubSeq(s, n + 1, Len(s))
           a == SubSeq(u, 1, k)  b == SubSeq(u, k + 1, Len(u))
           p == SubSeq(s, n + 1, n + k)  q == SubSeq(s, n + k + 1, Len(s))
<1>1. /\ Len(s) \in Nat /\ k \in Nat /\ n + k \in 0..Len(s) /\ n + k \in n..Len(s)
      /\ (n + k) - n = k
  BY LenProperties
<1>2. u \in Seq(S) /\ Len(u) = Len(s) - n /\ k \in 0..Len(u)
  BY SplitAt
<1>3. p \in Seq(S) /\ Len(p) = k /\ u = p \o q
  BY <1>1, SplitRest
<1>4. q \in Seq(S)
  BY <1>1, SplitAt
<1> HIDE DEF u
<1>5. a \in Seq(S) /\ b \in Seq(S) /\ a \o b = u /\ Len(a) = k
  BY <1>2, SplitAt
<1> HIDE DEF a, b, p, q
<1>6. a = p
  BY <1>3, <1>4, <1>5, SameSplit
<1> QED BY <1>6 DEF a, p, u

\* What is still to be read of a client, piece by piece.
LEMMA UnreadPiece ==
    ASSUME SocketsType, NEW c \in Clients, NEW n \in Int
    PROVE  /\ Unread(c) \in Seq(Byte) /\ Len(Unread(c)) = Len(sent[c]) - taken[c]
           /\ First(Unread(c), n) \in Seq(Byte) /\ Len(First(Unread(c), n)) \in Nat
           /\ taken[c] + Len(First(Unread(c), n)) <= Len(sent[c])
           /\ First(Unread(c), n)
                 = SubSeq(sent[c], taken[c] + 1, taken[c] + Len(First(Unread(c), n)))
<1> DEFINE s == sent[c]  t == taken[c]  u == Unread(c)
<1>1. s \in Seq(Byte) /\ Len(s) \in Nat /\ t \in Nat /\ t <= Len(s)
  BY LenProperties DEF SocketsType
<1>2. u = SubSeq(s, t + 1, Len(s))
  BY DEF Unread
<1> HIDE DEF s, t, u
<1>3. u \in Seq(Byte) /\ Len(u) = Len(s) - t
  <2>1. t \in 0..Len(s)
    BY <1>1
  <2> QED BY <1>1, <1>2, <2>1, SplitAt
<1>4. PICK k \in 0..Len(u) :
        First(u, n) = SubSeq(u, 1, k) /\ First(u, n) \in Seq(Byte) /\ Len(First(u, n)) = k
  BY <1>3, FirstParts
<1>5. k \in Nat /\ t + k <= Len(s)
  BY <1>1, <1>3, <1>4
<1>6. SubSeq(u, 1, k) = SubSeq(s, t + 1, t + k)
  <2>1. t \in 0..Len(s) /\ k \in 0..Len(s) - t
    BY <1>1, <1>3
  <2> QED BY <1>1, <1>2, <2>1, FrontOfRest
<1>7. /\ u \in Seq(Byte) /\ Len(u) = Len(s) - t /\ First(u, n) \in Seq(Byte)
      /\ Len(First(u, n)) \in Nat /\ t + Len(First(u, n)) <= Len(s)
      /\ First(u, n) = SubSeq(s, t + 1, t + Len(First(u, n)))
  BY <1>3, <1>4, <1>5, <1>6, Zenon
<1> QED BY <1>7 DEF s, t, u

LEMMA RoomType == ASSUME SocketsType, NEW c \in Clients PROVE Room(c) \in Int
<1>1. SendBuf \in Int /\ Len(reply[c]) \in Int /\ seen[c] \in Int
  BY BoundsAssumption, LenProperties DEF SocketsType
<1> QED BY <1>1 DEF Room

\* A connection is accepted or closed, or the process ends.
LEMMA ConnectionStep ==
    ASSUME SocketsType, EchoInv,
           UNCHANGED <<program, sent, ending, seen, taken, outbuf, reply, stale, spoiled>>,
           conn' \in [Clients -> {"idle", "backlog", "open", "closed"}], alive' \in BOOLEAN
    PROVE  SocketsType' /\ EchoInv'
<1>1. UNCHANGED <<program, sent, ending, seen, taken, outbuf, reply, stale, spoiled>>
  OBVIOUS
<1>2. SocketsType'
  BY <1>1 DEF SocketsType, Bound
<1>3. EchoInv'
  BY <1>1, Zenon DEF EchoInv
<1> QED BY <1>2, <1>3

\* m bytes are read, and what is made of them put behind what was held; or
\* they are spoiled.
LEMMA ReadStep ==
    ASSUME SocketsType, EchoInv, program # "nonblocking",
           NEW c \in Clients, NEW m \in Nat, taken[c] + m <= Len(sent[c]), NEW x \in Seq(Char),
           UNCHANGED <<program, conn, sent, ending, seen, reply, alive, stale>>,
           taken' = [taken EXCEPT ![c] = @ + m],
           outbuf' \in [Clients -> Seq(Char)], \A d \in Clients \ {c} : outbuf'[d] = outbuf[d],
           spoiled' \in [Clients -> BOOLEAN], \A d \in Clients : spoiled[d] => spoiled'[d],
           ~ spoiled'[c] => /\ outbuf'[c] = outbuf[c] \o x
                            /\ Payload(x) = Echoed(program, SubSeq(sent[c], taken[c] + 1, taken[c] + m))
    PROVE  SocketsType' /\ EchoInv'
<1>1. taken' \in [Clients -> Nat] /\ \A d \in Clients : taken'[d] <= Len(sent[d])
  BY DEF SocketsType
<1>2. SocketsType'
  BY <1>1 DEF SocketsType, Bound
<1>3. ASSUME NEW d \in Clients, ~ spoiled'[d]
      PROVE  InStep(program, stale[d], sent[d], taken'[d], reply[d], outbuf'[d], ending[d] = "rst")
  <2>1. InStep(program, stale[d], sent[d], taken[d], reply[d], outbuf[d], ending[d] = "rst")
    BY <1>3 DEF EchoInv
  <2>2. CASE d # c
    <3>1. taken'[d] = taken[d] /\ outbuf'[d] = outbuf[d]
      BY <2>2 DEF SocketsType
    <3> QED BY <2>1, <3>1
  <2>3. CASE d = c
    <3>1. /\ taken'[d] = taken[d] + m /\ outbuf'[d] = outbuf[d] \o x
          /\ Payload(x) = Echoed(program, SubSeq(sent[d], taken[d] + 1, taken[d] + m))
          /\ taken[d] + m <= Len(sent[d])
      BY <1>3, <2>3 DEF SocketsType
    <3>2. /\ stale[d] \in Seq(Byte) /\ sent[d] \in Seq(Byte) /\ taken[d] \in Nat
          /\ reply[d] \in Seq(Char) /\ outbuf[d] \in Seq(Char)
      BY DEF SocketsType
    <3>3. InStep(program, stale[d], sent[d], taken[d] + m, reply[d], outbuf[d] \o x,
                 ending[d] = "rst")
      BY <2>1, <3>1, <3>2, InStepRead, Zenon
    <3> QED BY <3>1, <3>3
  <2> QED BY <2>2, <2>3
<1> QED BY <1>2, <1>3 DEF EchoInv

\* Some of what is held is sent.
LEMMA SendStep ==
    ASSUME SocketsType, EchoInv, program # "nonblocking", NEW c \in Clients,
           ending[c] # "rst", send(c),
           UNCHANGED <<program, conn, sent, taken, ending, seen, alive, stale, spoiled>>
    PROVE  /\ SocketsType' /\ EchoInv'
           /\ Len(outbuf'[c]) <= Len(outbuf[c]) /\ \A d \in Clients \ {c} : outbuf'[d] = outbuf[d]
<1> DEFINE o == outbuf[c]
           a == First(o, Room(c))
           b == SubSeq(o, Room(c) + 1, Len(o))
<1>1. Room(c) \in Nat /\ o \in Seq(Char) /\ reply[c] \in Seq(Char)
  BY RoomType DEF send, SocketsType
<1>2. a \in Seq(Char) /\ b \in Seq(Char) /\ a \o b = o /\ Len(b) <= Len(o)
  BY <1>1, FirstAndRest
<1>3. reply' = [reply EXCEPT ![c] = @ \o a] /\ outbuf' = [outbuf EXCEPT ![c] = b]
  BY DEF send
<1>4. outbuf[c] = o
  OBVIOUS
<1> HIDE DEF o, a, b
<1> DEFINE r == reply[c] \o a
<1>5. r \in Seq(Char) /\ Len(r) = Len(reply[c]) + Len(a) /\ Len(reply[c]) \in Nat /\ Len(a) \in Nat
  BY <1>1, <1>2, ConcatProperties, LenProperties
<1>6. /\ reply' = [reply EXCEPT ![c] = r]
      /\ \A d \in Clients : d # c => reply'[d] = reply[d] /\ outbuf'[d] = outbuf[d]
      /\ reply'[c] = r /\ outbuf'[c] = b
  BY <1>3 DEF SocketsType
<1> HIDE DEF r
<1>7. /\ reply' \in [Clients -> Seq(Char)] /\ outbuf' \in [Clients -> Seq(Char)]
      /\ \A d \in Clients : seen[d] <= Len(reply'[d])
  <2>1. seen[c] <= Len(r)
    BY <1>5 DEF SocketsType
  <2> QED BY <1>2, <1>3, <1>5, <1>6, <2>1 DEF SocketsType
<1>8. SocketsType'
  BY <1>7 DEF SocketsType, Bound
<1>9. ASSUME NEW d \in Clients, ~ spoiled[d]
      PROVE  InStep(program, stale[d], sent[d], taken[d], reply'[d], outbuf'[d], ending[d] = "rst")
  <2>1. InStep(program, stale[d], sent[d], taken[d], reply[d], outbuf[d], ending[d] = "rst")
    BY <1>9 DEF EchoInv
  <2>2. CASE d # c
    BY <1>6, <2>1, <2>2
  <2>3. CASE d = c
    <3>1. (ending[d] = "rst") = FALSE
      BY <2>3
    <3>2. InStep(program, stale[d], sent[d], taken[d], reply[d], a \o b, FALSE)
      BY <1>2, <1>4, <2>1, <2>3, <3>1
    <3>3. reply[d] \in Seq(Char)
      BY DEF SocketsType
    <3>4. InStep(program, stale[d], sent[d], taken[d], reply[d] \o a, b, ending[d] = "rst")
      BY <1>2, <3>2, <3>3, InStepSend, Zenon
    <3> QED BY <1>6, <2>3, <3>4 DEF r
  <2> QED BY <2>2, <2>3
<1> QED BY <1>2, <1>4, <1>6, <1>8, <1>9 DEF EchoInv

\* What is held for a connection that was reset is thrown away.
LEMMA DropStep ==
    ASSUME SocketsType, EchoInv, NEW c \in Clients, ending[c] = "rst",
           outbuf' = [outbuf EXCEPT ![c] = <<>>],
           UNCHANGED <<program, conn, sent, taken, ending, seen, reply, alive, stale, spoiled>>
    PROVE  SocketsType' /\ EchoInv'
<1>1. outbuf' \in [Clients -> Seq(Char)]
  BY EmptySeq DEF SocketsType
<1>2. SocketsType'
  BY <1>1 DEF SocketsType, Bound
<1>3. ASSUME program # "nonblocking", NEW d \in Clients, ~ spoiled[d]
      PROVE  InStep(program, stale[d], sent[d], taken[d], reply[d], outbuf'[d], ending[d] = "rst")
  <2>1. InStep(program, stale[d], sent[d], taken[d], reply[d], outbuf[d], ending[d] = "rst")
    BY <1>3 DEF EchoInv
  <2>2. CASE d # c
    BY <2>1, <2>2 DEF SocketsType
  <2>3. CASE d = c
    <3>1. (ending[d] = "rst") = TRUE
      BY <2>3
    <3>2. InStep(program, stale[d], sent[d], taken[d], reply[d], outbuf'[d], TRUE)
      BY <2>1, InStepCut, Zenon
    <3> QED BY <3>1, <3>2
  <2> QED BY <2>2, <2>3
<1> QED BY <1>2, <1>3 DEF EchoInv

\* What the servers see of a connection is the same for all of them.
LEMMA SameSockets ==
    /\ \A s, n : /\ Nonblocking!First(s, n) = First(s, n) /\ Poll!First(s, n) = First(s, n)
                 /\ Epoll!First(s, n) = First(s, n) /\ Grace!First(s, n) = First(s, n)
    /\ \A c : /\ Nonblocking!Unread(c) = Unread(c) /\ Poll!Unread(c) = Unread(c)
              /\ Epoll!Unread(c) = Unread(c) /\ Fork!Unread(c) = Unread(c)
              /\ Thread!Unread(c) = Unread(c) /\ Grace!Unread(c) = Unread(c)
              /\ Nonblocking!Room(c) = Room(c) /\ Epoll!Room(c) = Room(c)
    /\ \A s : Nonblocking!Rot(s) = Rot(s) /\ Epoll!Rot(s) = Rot(s)
    /\ \A b : Fork!rot13_char(b) = rot13_char(b) /\ Thread!rot13_char(b) = rot13_char(b)
    /\ \A c : Poll!send(c) => send(c)
    /\ \A c : Fork!send(c) => send(c)
    /\ \A c : Thread!send(c) => send(c)
    /\ \A c : Grace!send(c) => send(c)
    /\ \A S : Nonblocking!Min(S) = Min(S) /\ Poll!Min(S) = Min(S)
<1>1. \A s, n : /\ Nonblocking!First(s, n) = First(s, n) /\ Poll!First(s, n) = First(s, n)
                /\ Epoll!First(s, n) = First(s, n) /\ Grace!First(s, n) = First(s, n)
  BY DEF First, Nonblocking!First, Poll!First, Epoll!First, Grace!First
<1>2. \A c : /\ Nonblocking!Unread(c) = Unread(c) /\ Poll!Unread(c) = Unread(c)
             /\ Epoll!Unread(c) = Unread(c) /\ Fork!Unread(c) = Unread(c)
             /\ Thread!Unread(c) = Unread(c) /\ Grace!Unread(c) = Unread(c)
             /\ Nonblocking!Room(c) = Room(c) /\ Epoll!Room(c) = Room(c)
  BY DEF Unread, Nonblocking!Unread, Poll!Unread, Epoll!Unread, Fork!Unread, Thread!Unread,
      Grace!Unread, Room, Nonblocking!Room, Epoll!Room
<1>3. \A s : Nonblocking!Rot(s) = Rot(s) /\ Epoll!Rot(s) = Rot(s)
  BY DEF Rot, rot13_char, Nonblocking!Rot, Nonblocking!rot13_char, Epoll!Rot, Epoll!rot13_char
<1>4. \A b : Fork!rot13_char(b) = rot13_char(b) /\ Thread!rot13_char(b) = rot13_char(b)
  BY DEF rot13_char, Fork!rot13_char, Thread!rot13_char
<1>5. \A c : Poll!send(c) => send(c)
  BY DEF send, First, Room, Poll!send, Poll!First, Poll!Room
<1>6. \A c : Fork!send(c) => send(c)
  BY DEF send, First, Room, Fork!send, Fork!First, Fork!Room
<1>7. \A c : Thread!send(c) => send(c)
  BY DEF send, First, Room, Thread!send, Thread!First, Thread!Room
<1>8. \A c : Grace!send(c) => send(c)
  BY DEF send, First, Room, Grace!send, Grace!First, Grace!Room
<1>9. \A S : Nonblocking!Min(S) = Min(S) /\ Poll!Min(S) = Min(S)
  BY DEF Min, Nonblocking!Min, Poll!Min
<1> QED BY <1>1, <1>2, <1>3, <1>4, <1>5, <1>6, <1>7, <1>8, <1>9

-----------------------------------------------------------------------------
(* The poll server of chapter 21: each entry that poll reported has a      *)
(* client until it is scanned.                                             *)

PollInv ==
    program = "poll" =>
        /\ pc \in {"wait", "accept", "scan"} /\ (pc = "scan" => ready # {})
        /\ ready \subseteq {Poll!Listen} \cup Poll!Entries
        /\ event_set \in [Poll!Entries -> Clients \cup {None}]
        /\ \A e \in ready \cap Poll!Entries : event_set[e] # None

LEMMA PollLeast ==
    ASSUME NEW M, M \subseteq {Poll!Listen} \cup Poll!Entries, M # {}
    PROVE  Poll!Min(M) \in M
<1>1. M \subseteq Nat
  BY ServersAssumption DEF Poll!Listen, Poll!Entries, Poll!SizesAssumption
<1> QED BY <1>1, MinNatural, SameSockets

LEMMA PollStep ==
    ASSUME SocketsType, EchoInv, PollInv, PollNext
    PROVE  SocketsType' /\ EchoInv' /\ PollInv'
<1> USE DEF Poll!clientSide, Poll!serverSide, Poll!histories
<1>1. program = "poll" /\ program' = program /\ Poll!Next
  BY DEF PollNext, others
<1>2. CASE Poll!poll /\ alive
  <2>1. /\ UNCHANGED <<conn, sent, ending, seen, taken, outbuf, reply, stale, spoiled, alive, event_set>>
        /\ pc' \in {"accept", "scan"} /\ ready' = Poll!Reported /\ ready' # {}
    BY <1>2 DEF Poll!poll
  <2>2. conn' \in [Clients -> {"idle", "backlog", "open", "closed"}] /\ alive' \in BOOLEAN
    BY <2>1 DEF SocketsType
  <2>3. SocketsType' /\ EchoInv'
    BY <1>1, <2>1, <2>2, ConnectionStep
  <2>4. /\ Poll!Reported \subseteq {Poll!Listen} \cup Poll!Entries
        /\ \A e \in Poll!Reported \cap Poll!Entries : event_set[e] # None
    BY DEF Poll!Reported, Poll!Listen, Poll!Entries
  <2> QED BY <1>1, <2>1, <2>3, <2>4 DEF PollInv
<1>3. CASE Poll!accept /\ alive
  <2>1. /\ UNCHANGED <<sent, ending, seen, taken, outbuf, reply, stale, spoiled>>
        /\ ready' \subseteq ready /\ pc' \in {"wait", "scan"} /\ (pc' = "scan" => ready' # {})
    BY <1>3 DEF Poll!accept, Poll!Exit
  <2>2. PICK c \in Clients :
          \/ /\ Poll!Free # {} /\ conn' = [conn EXCEPT ![c] = "open"]
             /\ event_set' = [event_set EXCEPT ![Poll!Min(Poll!Free)] = c] /\ alive' = alive
          \/ conn' = conn /\ alive' = FALSE /\ event_set' = event_set
    BY <1>3 DEF Poll!accept, Poll!Exit, Poll!Backlog
  <2>3. conn' \in [Clients -> {"idle", "backlog", "open", "closed"}] /\ alive' \in BOOLEAN
    BY <2>2 DEF SocketsType
  <2>4. SocketsType' /\ EchoInv'
    BY <1>1, <2>1, <2>3, ConnectionStep
  <2>5. Poll!Free # {} => Poll!Min(Poll!Free) \in Poll!Free
    BY PollLeast DEF Poll!Free
  <2>6. \A e \in Poll!Entries : event_set[e] # None => event_set'[e] = event_set[e]
    BY <1>1, <2>2, <2>5 DEF PollInv, Poll!Free
  <2>7. event_set' \in [Poll!Entries -> Clients \cup {None}]
    BY <1>1, <2>2 DEF PollInv
  <2> QED BY <1>1, <2>1, <2>4, <2>6, <2>7 DEF PollInv
<1>4. ASSUME NEW e \in Poll!Entries, Poll!scan(e), alive
      PROVE  SocketsType' /\ EchoInv' /\ PollInv'
  <2> DEFINE c == event_set[e]
  <2>1. /\ Poll!echo(e, c) \/ Poll!close(e, c)
        /\ UNCHANGED <<sent, ending, seen, stale, spoiled>> /\ pc = "scan" /\ e = Poll!Min(ready)
        /\ ready' = IF alive' /\ outbuf'[c] # <<>> THEN ready ELSE ready \ {e}
        /\ pc' = IF ready' = {} THEN "wait" ELSE "scan"
    BY <1>4 DEF Poll!scan
  <2>2. e \in ready /\ c \in Clients
    BY <1>1, <2>1, PollLeast DEF PollInv
  <2>3. CASE Poll!close(e, c)
    <3>1. /\ UNCHANGED <<outbuf, taken, reply, alive>> /\ conn' = [conn EXCEPT ![c] = "closed"]
          /\ event_set' = [event_set EXCEPT ![e] = None] /\ outbuf[c] = <<>>
      BY <2>3 DEF Poll!close
    <3>2. conn' \in [Clients -> {"idle", "backlog", "open", "closed"}] /\ alive' \in BOOLEAN
      BY <3>1 DEF SocketsType
    <3>3. SocketsType' /\ EchoInv'
      BY <1>1, <2>1, <3>1, <3>2, ConnectionStep
    <3>4. ready' = ready \ {e}
      BY <2>1, <3>1
    <3> QED BY <1>1, <2>1, <3>1, <3>3, <3>4 DEF PollInv
  <2>4. CASE Poll!echo(e, c)
    <3>1. event_set' = event_set
      BY <2>4 DEF Poll!echo
    <3>2. PollInv'
      BY <1>1, <2>1, <3>1 DEF PollInv
    <3>3. CASE outbuf[c] = <<>> /\ Unread(c) # <<>>
      <4> DEFINE x == First(Unread(c), PieceSize)
                 m == Len(x)
      <4>1. /\ outbuf' = [outbuf EXCEPT ![c] = x]
            /\ taken' = [taken EXCEPT ![c] = @ + Len(outbuf'[c])]
            /\ UNCHANGED <<conn, reply, alive>>
        BY <2>4, <3>3, SameSockets DEF Poll!echo
      <4>2. /\ x \in Seq(Byte) /\ m \in Nat /\ taken[c] + m <= Len(sent[c])
            /\ x = SubSeq(sent[c], taken[c] + 1, taken[c] + m)
        BY <2>2, ServersAssumption, UnreadPiece DEF Poll!SizesAssumption
      <4>3. x \in Seq(Char) /\ Payload(x) = x /\ Echoed(program, SubSeq(sent[c], taken[c] + 1, taken[c] + m)) = x
        BY <1>1, <4>2, ByteTypes, PayloadOfBytes DEF Echoed
      <4>4. outbuf'[c] = x /\ outbuf[c] \o x = x
        BY <2>2, <3>3, <4>1, <4>3, ConcatEmptySeq DEF SocketsType
      <4>5. taken' = [taken EXCEPT ![c] = @ + m]
        BY <4>1, <4>4
      <4> HIDE DEF x
      <4>6. /\ outbuf' \in [Clients -> Seq(Char)] /\ \A d \in Clients \ {c} : outbuf'[d] = outbuf[d]
        BY <2>2, <4>1, <4>3 DEF SocketsType
      <4>7. spoiled' \in [Clients -> BOOLEAN] /\ \A d \in Clients : spoiled[d] => spoiled'[d]
        BY <2>1 DEF SocketsType
      <4>8. m \in Nat /\ taken[c] + m <= Len(sent[c])
        BY <4>2
      <4>9. /\ outbuf'[c] = outbuf[c] \o x
            /\ Payload(x) = Echoed(program, SubSeq(sent[c], taken[c] + 1, taken[c] + m))
        BY <4>3, <4>4
      <4>10. program # "nonblocking"
             /\ UNCHANGED <<program, conn, sent, ending, seen, reply, alive, stale>>
        BY <1>1, <2>1, <4>1
      <4> HIDE DEF m, c
      <4>11. SocketsType' /\ EchoInv'
        BY <2>2, <4>3, <4>5, <4>6, <4>7, <4>8, <4>9, <4>10, ReadStep
      <4> QED BY <3>2, <4>11
    <3>4. CASE outbuf[c] # <<>> /\ ending[c] = "rst"
      <4>1. UNCHANGED <<conn, taken, outbuf, reply>> /\ alive' = FALSE
        BY <2>4, <3>4 DEF Poll!echo, Poll!Exit
      <4>2. conn' \in [Clients -> {"idle", "backlog", "open", "closed"}] /\ alive' \in BOOLEAN
        BY <4>1 DEF SocketsType
      <4> QED BY <1>1, <2>1, <3>2, <4>1, <4>2, ConnectionStep
    <3>5. CASE outbuf[c] # <<>> /\ ending[c] # "rst"
      <4>1. send(c) /\ UNCHANGED <<conn, taken, alive>>
        BY <2>4, <3>5, SameSockets DEF Poll!echo
      <4>2. program # "nonblocking" /\ UNCHANGED <<program, conn, sent, taken, ending, seen, alive, stale, spoiled>>
        BY <1>1, <2>1, <4>1
      <4>3. SocketsType' /\ EchoInv'
        <5> HIDE DEF c
        <5> QED BY <2>2, <3>5, <4>1, <4>2, SendStep
      <4> QED BY <3>2, <4>3
    <3> QED BY <2>4, <3>3, <3>4, <3>5, SameSockets DEF Poll!echo
  <2> QED BY <2>1, <2>3, <2>4
<1>5. ASSUME NEW c \in Clients, Poll!Client(c), UNCHANGED event_set
      PROVE  SocketsType' /\ EchoInv' /\ PollInv'
  <2>1. ClientMoves(c)
    BY <1>1, <1>5, SameClients, ShortClient
  <2>2. SocketsType' /\ EchoInv'
    BY <2>1, ClientKeeps
  <2> QED BY <1>5, <2>1, <2>2 DEF PollInv, ClientMoves
<1> QED BY <1>1, <1>2, <1>3, <1>4, <1>5 DEF Poll!Next, Poll!Server

-----------------------------------------------------------------------------
(* The epoll server of chapter 23 holds nothing: what a write does not     *)
(* take is spoiled.                                                        *)

EpollInv ==
    program = "epoll" =>
        /\ pc \in {"wait", "batch"}
        /\ edges \subseteq Clients \cup {None}
        /\ ready \subseteq (Clients \cup {None}) \X {"in", "err"}
        /\ missed \subseteq Clients
        /\ \A c \in Clients : outbuf[c] = <<>>

LEMMA ServeStep ==
    ASSUME SocketsType, EchoInv, program = "epoll", NEW c \in Clients, outbuf[c] = <<>>,
           UNCHANGED <<program, sent, ending, seen, outbuf, alive, stale>>,
           conn' \in [Clients -> {"idle", "backlog", "open", "closed"}],
           ending[c] # "rst",
           taken' = [taken EXCEPT ![c] = Len(sent[c])],
           reply' = [reply EXCEPT ![c] = @ \o First(Rot(Unread(c)), Room(c))],
           spoiled' = [spoiled EXCEPT ![c] = @ \/ Len(Unread(c)) > Room(c)]
    PROVE  SocketsType' /\ EchoInv'
<1> DEFINE u == Unread(c)
           a == First(Rot(u), Room(c))
           m == Len(sent[c]) - taken[c]
           r == reply[c] \o a
<1>1. /\ u \in Seq(Byte) /\ Len(u) = m /\ m \in Nat /\ Len(sent[c]) \in Nat /\ taken[c] \in Nat
      /\ taken[c] + m = Len(sent[c]) /\ Room(c) \in Int
      /\ u = SubSeq(sent[c], taken[c] + 1, taken[c] + m)
  <2>1. Len(sent[c]) \in Nat /\ taken[c] \in Nat /\ taken[c] <= Len(sent[c])
    BY LenProperties DEF SocketsType
  <2>2. u \in Seq(Byte) /\ Len(u) = m /\ Room(c) \in Int
    BY RoomType, UnreadPiece
  <2>3. taken[c] + m = Len(sent[c])
    BY <2>1
  <2>4. u = SubSeq(sent[c], taken[c] + 1, taken[c] + m)
    BY <2>3 DEF Unread
  <2>5. m \in Nat
    BY <2>1
  <2> HIDE DEF u, m
  <2> QED BY <2>1, <2>2, <2>3, <2>4, <2>5, Zenon
<1> HIDE DEF u, m
<1>2. /\ Rot(u) \in Seq(Byte) /\ Len(Rot(u)) = m /\ a \in Seq(Byte) /\ (~ m > Room(c) => a = Rot(u))
  <2>1. Rot(u) \in Seq(Byte) /\ Len(Rot(u)) = m
    BY <1>1, RotType
  <2> DEFINE v == Rot(u)
  <2> HIDE DEF v
  <2>2. PICK k \in 0..Len(v) : First(v, Room(c)) \in Seq(Byte) /\ (Room(c) >= Len(v) => First(v, Room(c)) = v)
    BY <1>1, <2>1, FirstParts DEF v
  <2>3. ~ m > Room(c) => Room(c) >= Len(v)
    BY <1>1, <2>1 DEF v
  <2> QED BY <2>1, <2>2, <2>3 DEF v
<1> HIDE DEF a
<1>3. /\ r \in Seq(Char) /\ Len(r) = Len(reply[c]) + Len(a) /\ Len(reply[c]) \in Nat /\ Len(a) \in Nat
      /\ a \in Seq(Char)
  <2>1. reply[c] \in Seq(Char) /\ a \in Seq(Char)
    BY <1>2, ByteTypes DEF SocketsType
  <2> QED BY <2>1, ConcatProperties, LenProperties
<1>4. reply' = [reply EXCEPT ![c] = r] /\ spoiled' = [spoiled EXCEPT ![c] = @ \/ m > Room(c)]
  BY <1>1 DEF a, u
<1> HIDE DEF r
<1>5. /\ taken' \in [Clients -> Nat] /\ reply' \in [Clients -> Seq(Char)]
      /\ spoiled' \in [Clients -> BOOLEAN]
      /\ taken'[c] = taken[c] + m /\ reply'[c] = r
      /\ spoiled'[c] <=> spoiled[c] \/ m > Room(c)
      /\ \A d \in Clients : d # c => taken'[d] = taken[d] /\ reply'[d] = reply[d] /\ spoiled'[d] = spoiled[d]
  <2>1. /\ taken' \in [Clients -> Nat] /\ taken'[c] = taken[c] + m
        /\ \A d \in Clients : d # c => taken'[d] = taken[d]
    BY <1>1 DEF SocketsType
  <2>2. /\ reply' \in [Clients -> Seq(Char)] /\ reply'[c] = r
        /\ \A d \in Clients : d # c => reply'[d] = reply[d]
    <3>1. reply \in [Clients -> Seq(Char)] /\ r \in Seq(Char)
      BY <1>3 DEF SocketsType
    <3>2. reply' = [reply EXCEPT ![c] = r]
      BY <1>4
    <3> QED BY ONLY <3>1, <3>2, c \in Clients
  <2> DEFINE full == m > Room(c)
  <2>3. spoiled \in [Clients -> BOOLEAN] /\ full \in BOOLEAN
        /\ spoiled' = [spoiled EXCEPT ![c] = @ \/ full]
    <3>1. spoiled \in [Clients -> BOOLEAN]
      BY DEF SocketsType
    <3>2. full \in BOOLEAN
      OBVIOUS
    <3>3. spoiled' = [spoiled EXCEPT ![c] = @ \/ full]
      BY <1>4, Zenon
    <3> QED BY <3>1, <3>2, <3>3, Zenon
  <2> HIDE DEF full
  <2>4. /\ spoiled' \in [Clients -> BOOLEAN] /\ (spoiled'[c] <=> spoiled[c] \/ full)
        /\ \A d \in Clients : d # c => spoiled'[d] = spoiled[d]
    BY <2>3
  <2> QED BY <2>1, <2>2, <2>4, Zenon DEF full
<1>6. \A d \in Clients : taken'[d] <= Len(sent[d]) /\ seen[d] <= Len(reply'[d])
  <2>1. seen[c] <= Len(r) /\ taken'[c] <= Len(sent[c])
    BY <1>1, <1>3, <1>5, SMTT(20) DEF SocketsType
  <2> QED BY <1>5, <2>1 DEF SocketsType
<1>7. SocketsType'
  BY <1>5, <1>6 DEF SocketsType, Bound
<1>8. ASSUME NEW d \in Clients, ~ spoiled'[d]
      PROVE  InStep(program, stale[d], sent[d], taken'[d], reply'[d], outbuf[d], ending[d] = "rst")
  <2>1. InStep(program, stale[d], sent[d], taken[d], reply[d], outbuf[d], ending[d] = "rst")
    BY <1>5, <1>8 DEF EchoInv
  <2>2. CASE d # c
    BY <1>5, <2>1, <2>2
  <2>3. CASE d = c
    <3>1. /\ stale[d] \in Seq(Byte) /\ sent[d] \in Seq(Byte) /\ taken[d] \in Nat
          /\ reply[d] \in Seq(Char) /\ outbuf[d] = <<>> /\ <<>> \in Seq(Char)
          /\ taken[d] + m <= Len(sent[d])
      BY <1>1, <2>3, EmptySeq DEF SocketsType
    <3>2. a = Rot(u) /\ Payload(a) = Echoed(program, SubSeq(sent[d], taken[d] + 1, taken[d] + m))
      <4>1. a = Rot(u)
        BY <1>2, <1>5, <1>8, <2>3
      <4>2. Payload(a) = a
        BY <1>2, PayloadOfBytes
      <4> QED BY <1>1, <2>3, <4>1, <4>2 DEF Echoed
    <3>3. InStep(program, stale[d], sent[d], taken[d], reply[d], <<>>, FALSE)
      <4>1. (ending[d] = "rst") = FALSE
        BY <2>3
      <4> QED BY <2>1, <3>1, <4>1
    <3>4. InStep(program, stale[d], sent[d], taken[d] + m, reply[d], <<>> \o a, FALSE)
      BY <1>1, <1>3, <3>1, <3>2, <3>3, InStepRead, Zenon
    <3>5. <<>> \o a = a \o <<>>
      BY <1>3, ConcatEmptySeq
    <3>6. InStep(program, stale[d], sent[d], taken[d] + m, reply[d] \o a, <<>>, ending[d] = "rst")
      BY <1>3, <3>1, <3>4, <3>5, InStepSend, Zenon
    <3> QED BY <1>5, <2>3, <3>1, <3>6 DEF r
  <2> QED BY <2>2, <2>3
<1> QED BY <1>7, <1>8 DEF EchoInv

LEMMA EpollStep ==
    ASSUME SocketsType, EchoInv, EpollInv, EpollNext
    PROVE  SocketsType' /\ EchoInv' /\ EpollInv'
<1> USE DEF Epoll!clientSide, Epoll!serverSide, Epoll!histories
<1>1. program = "epoll" /\ program' = program /\ Epoll!Next
  BY DEF EpollNext, others
<1>2. CASE Epoll!epoll_wait /\ alive
  <2>1. /\ UNCHANGED <<conn, sent, ending, seen, taken, outbuf, reply, stale, spoiled, alive, missed>>
        /\ pc' = "batch" /\ ready' = Epoll!Reported /\ edges' = {}
    BY <1>2 DEF Epoll!epoll_wait
  <2>2. conn' \in [Clients -> {"idle", "backlog", "open", "closed"}] /\ alive' \in BOOLEAN
    BY <2>1 DEF SocketsType
  <2>3. SocketsType' /\ EchoInv'
    BY <1>1, <2>1, <2>2, ConnectionStep
  <2>4. Epoll!Reported \subseteq (Clients \cup {None}) \X {"in", "err"}
    BY <1>1 DEF Epoll!Reported, Epoll!Opened, EpollInv
  <2> QED BY <1>1, <2>1, <2>3, <2>4 DEF EpollInv
<1>3. CASE Epoll!accept /\ alive
  <2>1. /\ UNCHANGED <<sent, ending, seen, taken, outbuf, reply, stale, spoiled>>
        /\ ready' \subseteq ready /\ pc' \in {"wait", "batch"}
    BY <1>3 DEF Epoll!accept, Epoll!Exit
  <2>2. \/ conn' = conn /\ alive' = FALSE /\ UNCHANGED <<edges, missed>>
        \/ \E c \in Clients : /\ conn' = [conn EXCEPT ![c] = "open"] /\ alive' = alive
                              /\ edges' = edges \cup {c} /\ missed' \subseteq missed \cup Clients
    BY <1>3 DEF Epoll!accept, Epoll!Exit, Epoll!Backlog
  <2>3. conn' \in [Clients -> {"idle", "backlog", "open", "closed"}] /\ alive' \in BOOLEAN
    BY <2>2 DEF SocketsType
  <2>4. SocketsType' /\ EchoInv'
    BY <1>1, <2>1, <2>3, ConnectionStep
  <2> QED BY <1>1, <2>1, <2>2, <2>4 DEF EpollInv
<1>4. ASSUME NEW c \in Clients, Epoll!epoll_error(c), alive
      PROVE  SocketsType' /\ EchoInv' /\ EpollInv'
  <2>1. /\ UNCHANGED <<sent, ending, seen, taken, outbuf, reply, stale, spoiled, alive, edges, missed>>
        /\ ready' \subseteq ready /\ pc' \in {"wait", "batch"} /\ conn' = [conn EXCEPT ![c] = "closed"]
    BY <1>4 DEF Epoll!epoll_error
  <2>2. conn' \in [Clients -> {"idle", "backlog", "open", "closed"}] /\ alive' \in BOOLEAN
    BY <2>1 DEF SocketsType
  <2>3. SocketsType' /\ EchoInv'
    BY <1>1, <2>1, <2>2, ConnectionStep
  <2> QED BY <1>1, <2>1, <2>3 DEF EpollInv
<1>5. ASSUME NEW c \in Clients, Epoll!serve(c), alive
      PROVE  SocketsType' /\ EchoInv' /\ EpollInv'
  <2>1. UNCHANGED <<sent, ending, seen, stale, edges, outbuf>> /\ ready' = {} /\ pc' = "wait"
    BY <1>5 DEF Epoll!serve, Epoll!Exit
  <2>2. CASE ending[c] = "rst" \/ (Epoll!Unread(c) # <<>> /\ Epoll!Room(c) = 0)
    <3>1. UNCHANGED <<conn, taken, reply, spoiled, missed>> /\ alive' = FALSE
      BY <1>5, <2>2 DEF Epoll!serve, Epoll!Exit
    <3>2. conn' \in [Clients -> {"idle", "backlog", "open", "closed"}] /\ alive' \in BOOLEAN
      BY <3>1 DEF SocketsType
    <3>3. SocketsType' /\ EchoInv'
      BY <1>1, <2>1, <3>1, <3>2, ConnectionStep
    <3> QED BY <1>1, <2>1, <3>1, <3>3 DEF EpollInv
  <2>3. CASE ~ (ending[c] = "rst" \/ (Epoll!Unread(c) # <<>> /\ Epoll!Room(c) = 0))
    <3>1. /\ taken' = [taken EXCEPT ![c] = Len(sent[c])]
          /\ reply' = [reply EXCEPT ![c] = @ \o Epoll!First(Epoll!Rot(Epoll!Unread(c)), Epoll!Room(c))]
          /\ spoiled' = [spoiled EXCEPT ![c] = @ \/ Len(Epoll!Unread(c)) > Epoll!Room(c)]
          /\ conn' = [conn EXCEPT ![c] = IF ending[c] = "fin" THEN "closed" ELSE @]
          /\ alive' = alive /\ ending[c] # "rst"
          /\ missed' \subseteq missed \cup Clients
      BY <1>5, <2>3 DEF Epoll!serve, Epoll!Opened, Epoll!Backlog
    <3>2. /\ reply' = [reply EXCEPT ![c] = @ \o First(Rot(Unread(c)), Room(c))]
          /\ spoiled' = [spoiled EXCEPT ![c] = @ \/ Len(Unread(c)) > Room(c)]
      BY <3>1, SameSockets
    <3>3. conn' \in [Clients -> {"idle", "backlog", "open", "closed"}]
      BY <3>1 DEF SocketsType
    <3>4. outbuf[c] = <<>>
      BY <1>1 DEF EpollInv
    <3>5. SocketsType' /\ EchoInv'
      BY <1>1, <2>1, <3>1, <3>2, <3>3, <3>4, ServeStep
    <3> QED BY <1>1, <2>1, <3>1, <3>5 DEF EpollInv
  <2> QED BY <2>2, <2>3
<1>6. ASSUME NEW c \in Clients, Epoll!Arrives(c)
      PROVE  SocketsType' /\ EchoInv' /\ EpollInv'
  <2>1. ClientMoves(c)
    BY <1>1, <1>6, SameClients, ShortClient DEF Epoll!Arrives
  <2>2. SocketsType' /\ EchoInv'
    BY <2>1, ClientKeeps
  <2>3. edges' \subseteq edges \cup (Clients \cup {None}) /\ UNCHANGED missed
    BY <1>6 DEF Epoll!Arrives
  <2> QED BY <2>1, <2>2, <2>3 DEF EpollInv, ClientMoves
<1> QED BY <1>1, <1>2, <1>3, <1>4, <1>5, <1>6 DEF Epoll!Next, Epoll!Server

-----------------------------------------------------------------------------
(* The servers of chapters 25 and 26: a worker's line is never longer than *)
(* its array.                                                              *)

WorkerInv ==
    program \in {"fork", "thread"} =>
        /\ worker \in [Clients -> {"none", "recv", "send", "zombie", "reaped", "exited"}]
        /\ \A c \in Clients : Len(outbuf[c]) <= LINE_SIZE + 1
        /\ program = "fork" => pc \in {"wait", "handler"}
        /\ sigchld \in BOOLEAN

\* A worker reads a byte, and sends a line: as LineEcho's recv and answer.
LineReads(c) ==
    /\ Unread(c) # <<>>
    /\ taken' = [taken EXCEPT ![c] = @ + 1]
    /\ outbuf' = [outbuf EXCEPT ![c] = IF Len(@) < LINE_SIZE + 1
                                       THEN Append(@, rot13_char(Head(Unread(c)))) ELSE @]
    /\ spoiled' = [spoiled EXCEPT ![c] = @ \/ Len(outbuf[c]) = LINE_SIZE + 1]
    /\ \E p \in {"recv", "send"} : worker' = [worker EXCEPT ![c] = p]
    /\ UNCHANGED <<conn, sent, ending, seen, reply, alive, pc, ready, stale>>

LineAnswers(c) ==
    /\ \/ ending[c] = "rst" /\ outbuf' = [outbuf EXCEPT ![c] = <<>>] /\ UNCHANGED <<taken, reply>>
       \/ ending[c] # "rst" /\ send(c) /\ UNCHANGED taken
    /\ \E p \in {"recv", "send"} : worker' = [worker EXCEPT ![c] = p]
    /\ UNCHANGED <<conn, sent, ending, seen, alive, pc, ready, stale, spoiled>>

LEMMA SameWorkers ==
    ASSUME NEW c \in Clients
    PROVE  /\ Fork!recv(c) => LineReads(c)
           /\ Thread!recv(c) => LineReads(c)
           /\ Fork!answer(c) => LineAnswers(c)
           /\ Thread!answer(c) => LineAnswers(c)
<1>1. ASSUME Fork!recv(c) PROVE LineReads(c)
  <2>1. \E p \in {"recv", "send"} : worker' = [worker EXCEPT ![c] = p]
    BY <1>1 DEF Fork!recv
  <2> QED BY <1>1, <2>1, SameSockets, Zenon DEF Fork!recv, Fork!Stored, Fork!clientSide, LineReads
<1>2. ASSUME Thread!recv(c) PROVE LineReads(c)
  <2>1. \E p \in {"recv", "send"} : worker' = [worker EXCEPT ![c] = p]
    BY <1>2 DEF Thread!recv
  <2> QED BY <1>2, <2>1, SameSockets, Zenon DEF Thread!recv, Thread!Stored, Thread!clientSide, LineReads
<1>3. ASSUME Fork!answer(c) PROVE LineAnswers(c)
  <2>1. \E p \in {"recv", "send"} : worker' = [worker EXCEPT ![c] = p]
    BY <1>3 DEF Fork!answer
  <2> QED BY <1>3, <2>1, SameSockets DEF Fork!answer, Fork!clientSide, Fork!histories, LineAnswers
<1>4. ASSUME Thread!answer(c) PROVE LineAnswers(c)
  <2>1. \E p \in {"recv", "send"} : worker' = [worker EXCEPT ![c] = p]
    BY <1>4 DEF Thread!answer
  <2> QED BY <1>4, <2>1, SameSockets DEF Thread!answer, Thread!clientSide, Thread!histories,
              LineAnswers
<1> QED BY <1>1, <1>2, <1>3, <1>4

LEMMA LineReadStep ==
    ASSUME SocketsType, EchoInv, WorkerInv, program \in {"fork", "thread"}, program' = program,
           sigchld' = sigchld, NEW c \in Clients, LineReads(c)
    PROVE  SocketsType' /\ EchoInv' /\ WorkerInv'
<1> DEFINE u == Unread(c)
           b == rot13_char(Head(u))
           x == <<b>>
           o == outbuf[c]
           full == Len(o) = LINE_SIZE + 1
           new == IF Len(o) < LINE_SIZE + 1 THEN Append(o, b) ELSE o
<1>1. /\ u \in Seq(Byte) /\ Len(u) = Len(sent[c]) - taken[c] /\ u # <<>>
      /\ u = SubSeq(sent[c], taken[c] + 1, Len(sent[c]))
  <2>1. u \in Seq(Byte) /\ Len(u) = Len(sent[c]) - taken[c]
    <3>1. 1 \in Int
      OBVIOUS
    <3> QED BY <3>1, UnreadPiece, Zenon
  <2> QED BY <2>1 DEF Unread, LineReads
<1>2. Len(u) \in Nat \ {0} /\ Len(sent[c]) \in Nat /\ taken[c] \in Nat /\ taken[c] + 1 <= Len(sent[c])
  <2>1. Len(u) \in Nat /\ Len(u) # 0 /\ Len(sent[c]) \in Nat /\ taken[c] \in Nat
    BY <1>1, LenProperties, EmptySeq DEF SocketsType
  <2> QED BY <1>1, <2>1
<1>3. First(u, 1) = <<Head(u)>> /\ Head(u) \in Byte
      /\ <<Head(u)>> = SubSeq(sent[c], taken[c] + 1, taken[c] + 1)
  <2>0. u \in Seq(Byte) /\ Len(u) \in Nat \ {0}
    BY <1>1, <1>2
  <2>1. Head(u) = u[1] /\ u[1] \in Byte /\ 1 \in 1..Len(u)
    BY <2>0
  <2>2. First(u, 1) = SubSeq(u, 1, 1)
    <3> HIDE DEF u
    <3>0. \A n \in Nat \ {0} : 1 < n \/ n = 1
      OBVIOUS
    <3>1. 1 < Len(u) \/ Len(u) = 1
      BY <2>0, <3>0, Zenon
    <3> QED BY <2>0, <3>1 DEF First
  <2>3. /\ SubSeq(u, 1, 1) \in Seq(Byte) /\ Len(SubSeq(u, 1, 1)) = 1 /\ SubSeq(u, 1, 1)[1] = u[1]
    <3> HIDE DEF u
    <3>1. 1 \in 1..Len(u) + 1 /\ 1 \in 1 - 1..Len(u)
      BY <2>0
    <3> QED BY <2>0, <3>1, SubSeqProperties
  <2>4. SubSeq(u, 1, 1) = <<u[1]>>
    <3> DEFINE v == SubSeq(u, 1, 1)  w == <<u[1]>>
    <3>1. v \in Seq(Byte) /\ Len(v) = 1 /\ v[1] = u[1]
      BY <2>3
    <3>2. w \in Seq(Byte) /\ Len(w) = 1 /\ w[1] = u[1]
      BY <2>1
    <3> HIDE DEF v, w
    <3>3. \A k \in 1..Len(v) : v[k] = w[k]
      BY <3>1, <3>2
    <3>4. v = w
      BY <3>1, <3>2, <3>3, SeqEqual
    <3> QED BY <3>4 DEF v, w
  <2>5. First(u, 1) = SubSeq(sent[c], taken[c] + 1, taken[c] + Len(First(u, 1)))
    <3>1. 1 \in Int
      OBVIOUS
    <3> QED BY <3>1, UnreadPiece, Zenon
  <2>6. Len(First(u, 1)) = 1
    BY <2>2, <2>3, Zenon
  <2> HIDE DEF u
  <2> QED BY <2>1, <2>2, <2>4, <2>5, <2>6, Zenon
<1>4. b \in Byte /\ x = Rot(<<Head(u)>>)
  <2>1. b \in Byte
    BY <1>3, ByteTypes
  <2> DEFINE h == <<Head(u)>>
  <2>2. h \in Seq(Byte) /\ Len(h) = 1 /\ h[1] = Head(u)
    BY <1>3
  <2> HIDE DEF h
  <2>3. Rot(h) \in Seq(Byte) /\ Len(Rot(h)) = 1 /\ Rot(h)[1] = rot13_char(h[1])
    BY <2>2, RotType
  <2>4. x \in Seq(Byte) /\ Len(x) = 1 /\ x[1] = b
    BY <2>1
  <2>5. x = Rot(h)
    <3> HIDE DEF x
    <3> QED BY <2>2, <2>3, <2>4, SeqEqual DEF b
  <2> QED BY <2>1, <2>5 DEF h
<1>5. program # "nonblocking" /\ program \notin {"poll", "grace"}
  OBVIOUS
<1>6. x \in Seq(Char) /\ Payload(x) = Echoed(program, SubSeq(sent[c], taken[c] + 1, taken[c] + 1))
  <2>1. x \in Seq(Byte)
    BY <1>4
  <2>2. Payload(x) = x /\ x \in Seq(Char)
    BY <2>1, ByteTypes, PayloadOfBytes
  <2> HIDE DEF x
  <2> QED BY <1>3, <1>4, <1>5, <2>2 DEF Echoed
<1>7. /\ outbuf' = [outbuf EXCEPT ![c] = new] /\ spoiled' = [spoiled EXCEPT ![c] = @ \/ full]
      /\ UNCHANGED <<conn, sent, ending, seen, reply, alive, pc, ready, stale>>
      /\ taken' = [taken EXCEPT ![c] = @ + 1]
  BY Zenon DEF LineReads
<1>8. /\ o \in Seq(Char) /\ b \in Char /\ Append(o, b) \in Seq(Char) /\ Len(o) \in Nat
      /\ Append(o, b) = o \o x /\ Len(Append(o, b)) = Len(o) + 1 /\ Len(o) <= LINE_SIZE + 1
      /\ LINE_SIZE \in Nat
  <2>1. o \in Seq(Char) /\ b \in Char /\ LINE_SIZE \in Nat
    BY <1>4, ServersAssumption DEF SocketsType, Char, Fork!MaxLineAssumption
  <2>2. Append(o, b) \in Seq(Char) /\ Len(Append(o, b)) = Len(o) + 1 /\ Len(o) \in Nat
    BY <2>1, AppendProperties, LenProperties
  <2>3. Append(o, b) = o \o x
    <3> HIDE DEF o, b
    <3> QED BY <2>1
  <2> QED BY <2>1, <2>2, <2>3 DEF WorkerInv
<1>9. full \in BOOLEAN /\ spoiled \in [Clients -> BOOLEAN] /\ outbuf \in [Clients -> Seq(Char)]
  BY DEF SocketsType
<1> HIDE DEF u, b, x, full
<1>10. new \in Seq(Char) /\ Len(new) <= LINE_SIZE + 1 /\ (~ full => new = o \o x)
  BY <1>8 DEF full
<1> HIDE DEF new
<1>11. /\ outbuf' \in [Clients -> Seq(Char)] /\ outbuf'[c] = new
       /\ \A d \in Clients \ {c} : outbuf'[d] = outbuf[d]
  BY <1>7, <1>9, <1>10
<1>12. /\ spoiled' \in [Clients -> BOOLEAN] /\ (~ spoiled'[c] => ~ full)
       /\ \A d \in Clients : spoiled[d] => spoiled'[d]
  BY <1>7, <1>9
<1>13. SocketsType' /\ EchoInv'
  <2>1. 1 \in Nat
    OBVIOUS
  <2>2. /\ UNCHANGED <<program, conn, sent, ending, seen, reply, alive, stale>>
        /\ ~ spoiled'[c] => /\ outbuf'[c] = outbuf[c] \o x
                            /\ Payload(x) = Echoed(program, SubSeq(sent[c], taken[c] + 1, taken[c] + 1))
    BY <1>6, <1>7, <1>10, <1>11, <1>12
  <2> QED BY <1>2, <1>5, <1>6, <1>7, <1>11, <1>12, <2>1, <2>2, ReadStep, Zenon
<1>14. worker' \in [Clients -> {"none", "recv", "send", "zombie", "reaped", "exited"}]
  BY DEF LineReads, WorkerInv
<1>15. \A d \in Clients : Len(outbuf'[d]) <= LINE_SIZE + 1
  BY <1>10, <1>11 DEF WorkerInv
<1> QED BY <1>7, <1>13, <1>14, <1>15 DEF WorkerInv

LEMMA LineAnswerStep ==
    ASSUME SocketsType, EchoInv, WorkerInv, program \in {"fork", "thread"}, program' = program,
           sigchld' = sigchld, NEW c \in Clients, LineAnswers(c)
    PROVE  SocketsType' /\ EchoInv' /\ WorkerInv'
<1>1. /\ UNCHANGED <<program, conn, sent, taken, ending, seen, alive, stale, spoiled>>
      /\ program # "nonblocking" /\ LINE_SIZE \in Nat /\ pc' = pc
  BY ServersAssumption DEF LineAnswers, Fork!MaxLineAssumption
<1>2. worker' \in [Clients -> {"none", "recv", "send", "zombie", "reaped", "exited"}]
  BY DEF LineAnswers, WorkerInv
<1>3. CASE ending[c] = "rst" /\ outbuf' = [outbuf EXCEPT ![c] = <<>>] /\ UNCHANGED reply
  <2>1. SocketsType' /\ EchoInv'
    BY <1>1, <1>3, DropStep
  <2>2. \A d \in Clients : Len(outbuf'[d]) <= LINE_SIZE + 1
    <3>1. Len(<<>>) <= LINE_SIZE + 1
      BY <1>1
    <3> QED BY <1>3, <3>1 DEF SocketsType, WorkerInv
  <2> QED BY <1>1, <1>2, <2>1, <2>2 DEF WorkerInv
<1>4. CASE ending[c] # "rst" /\ send(c)
  <2>1. /\ SocketsType' /\ EchoInv'
        /\ Len(outbuf'[c]) <= Len(outbuf[c]) /\ \A d \in Clients \ {c} : outbuf'[d] = outbuf[d]
    BY <1>1, <1>4, SendStep
  <2>2. Len(outbuf'[c]) \in Nat /\ Len(outbuf[c]) \in Nat
    BY <2>1, LenProperties DEF SocketsType
  <2>3. \A d \in Clients : Len(outbuf'[d]) <= LINE_SIZE + 1
    BY <1>1, <2>1, <2>2 DEF WorkerInv
  <2> QED BY <1>1, <1>2, <2>1, <2>3 DEF WorkerInv
<1> QED BY <1>3, <1>4 DEF LineAnswers

\* What the servers do besides, and what the clients do.
LEMMA LineConnectionStep ==
    ASSUME SocketsType, EchoInv, WorkerInv, program \in {"fork", "thread"},
           UNCHANGED <<program, sent, ending, seen, taken, outbuf, reply, stale, spoiled>>,
           conn' = conn \/ (\E c \in Clients, s \in {"open", "closed"} : conn' = [conn EXCEPT ![c] = s]),
           alive' \in BOOLEAN, pc' = pc \/ pc' \in {"wait", "handler"}, sigchld' \in BOOLEAN,
           worker' = worker \/
              (\E c \in Clients, p \in {"recv", "zombie", "reaped", "exited"} : worker' = [worker EXCEPT ![c] = p])
    PROVE  SocketsType' /\ EchoInv' /\ WorkerInv'
<1>1. conn' \in [Clients -> {"idle", "backlog", "open", "closed"}]
  BY DEF SocketsType
<1>2. SocketsType' /\ EchoInv'
  BY <1>1, ConnectionStep
<1>3. worker' \in [Clients -> {"none", "recv", "send", "zombie", "reaped", "exited"}]
  BY DEF WorkerInv
<1> QED BY <1>2, <1>3 DEF WorkerInv

LEMMA LineClientStep ==
    ASSUME SocketsType, EchoInv, WorkerInv, program \in {"fork", "thread"}, program' = program,
           NEW c \in Clients, Fork!Client(c), UNCHANGED <<worker, sigchld>>
    PROVE  SocketsType' /\ EchoInv' /\ WorkerInv'
<1>1. ClientMoves(c)
  BY LineClient
<1>2. SocketsType' /\ EchoInv'
  BY <1>1, ClientKeeps
<1> QED BY <1>1, <1>2 DEF WorkerInv, ClientMoves

LEMMA ForkStep ==
    ASSUME SocketsType, EchoInv, WorkerInv, ForkNext
    PROVE  SocketsType' /\ EchoInv' /\ WorkerInv'
<1> USE DEF Fork!clientSide, Fork!serverSide, Fork!histories
<1>1. program = "fork" /\ program' = program /\ Fork!Next
  BY DEF ForkNext, others
<1>2. alive \in BOOLEAN /\ sigchld \in BOOLEAN
  BY <1>1 DEF SocketsType, WorkerInv
<1>3. CASE Fork!accept
  BY <1>1, <1>2, <1>3, LineConnectionStep DEF Fork!accept, Fork!Backlog
<1>4. CASE Fork!sigchld_delivered
  BY <1>1, <1>2, <1>4, LineConnectionStep DEF Fork!sigchld_delivered
<1>5. CASE Fork!sigchld_handler
  BY <1>1, <1>2, <1>5, LineConnectionStep DEF Fork!sigchld_handler, Fork!Zombies, Fork!waitpid_again
<1>6. ASSUME NEW c \in Clients, Fork!child_run(c)
      PROVE  SocketsType' /\ EchoInv' /\ WorkerInv'
  <2>1. CASE Fork!recv(c) /\ UNCHANGED sigchld
    BY <1>1, <2>1, SameWorkers, LineReadStep
  <2>2. CASE Fork!answer(c) /\ UNCHANGED sigchld
    BY <1>1, <2>2, SameWorkers, LineAnswerStep
  <2>3. CASE Fork!exit(c)
    BY <1>1, <1>2, <2>3, LineConnectionStep DEF Fork!exit
  <2> QED BY <1>6, <2>1, <2>2, <2>3 DEF Fork!child_run
<1>7. ASSUME NEW c \in Clients, Fork!Client(c), UNCHANGED <<worker, sigchld>>
      PROVE  SocketsType' /\ EchoInv' /\ WorkerInv'
  BY <1>1, <1>7, LineClientStep
<1> QED BY <1>1, <1>3, <1>4, <1>5, <1>6, <1>7 DEF Fork!Next, Fork!Server

LEMMA ThreadStep ==
    ASSUME SocketsType, EchoInv, WorkerInv, ThreadNext
    PROVE  SocketsType' /\ EchoInv' /\ WorkerInv'
<1> USE DEF Thread!clientSide, Thread!serverSide, Thread!histories
<1>1. program = "thread" /\ program' = program /\ Thread!Next /\ sigchld' = sigchld
  BY DEF ThreadNext, others
<1>2. alive \in BOOLEAN /\ sigchld \in BOOLEAN
  BY <1>1 DEF SocketsType, WorkerInv
<1>3. CASE Thread!accept
  BY <1>1, <1>2, <1>3, LineConnectionStep DEF Thread!accept, Thread!Backlog
<1>4. ASSUME NEW c \in Clients, Thread!thread_run(c)
      PROVE  SocketsType' /\ EchoInv' /\ WorkerInv'
  <2>1. CASE Thread!recv(c)
    BY <1>1, <2>1, SameWorkers, LineReadStep
  <2>2. CASE Thread!answer(c)
    BY <1>1, <2>2, SameWorkers, LineAnswerStep
  <2>3. CASE Thread!thread_return(c)
    BY <1>1, <1>2, <2>3, LineConnectionStep DEF Thread!thread_return, Thread!Exit
  <2> QED BY <1>4, <2>1, <2>2, <2>3 DEF Thread!thread_run
<1>5. ASSUME NEW c \in Clients, Thread!Client(c), UNCHANGED worker
      PROVE  SocketsType' /\ EchoInv' /\ WorkerInv'
  BY <1>1, <1>5, SameClients, LineClientStep
<1> QED BY <1>1, <1>3, <1>4, <1>5 DEF Thread!Next, Thread!Server

-----------------------------------------------------------------------------
(* The server of chapter 11: it holds something only for the connection    *)
(* that it answers next, and it has one at most.                           *)

GraceInv ==
    program = "grace" =>
        /\ pc \in {"wait", "read", "sleep", "send"}
        /\ pc = "wait" => \A c \in Clients : conn[c] # "open"
        /\ \A c, d \in Clients : conn[c] = "open" /\ conn[d] = "open" => c = d
        /\ \A c \in Clients : outbuf[c] # <<>> => conn[c] = "open" /\ pc \in {"sleep", "send"}

LEMMA GraceReadStep ==
    ASSUME SocketsType, EchoInv, program = "grace", program' = program, NEW c \in Clients,
           outbuf[c] = <<>>, First(Unread(c), MAXLINE) # <<>>,
           taken' = [taken EXCEPT ![c] = @ + Len(First(Unread(c), MAXLINE))],
           outbuf' = [outbuf EXCEPT ![c] = <<"Hi">> \o First(Unread(c), MAXLINE)],
           spoiled' = [spoiled EXCEPT ![c] = @ \/ Len(First(Unread(c), MAXLINE)) + 4 >= MAXLINE],
           UNCHANGED <<conn, sent, ending, seen, reply, alive, stale>>
    PROVE  SocketsType' /\ EchoInv' /\ \A d \in Clients \ {c} : outbuf'[d] = outbuf[d]
<1> DEFINE y == First(Unread(c), MAXLINE)
           x == <<"Hi">> \o y
           m == Len(y)
           full == m + 4 >= MAXLINE
<1>1. /\ y \in Seq(Byte) /\ m \in Nat /\ taken[c] + m <= Len(sent[c])
      /\ y = SubSeq(sent[c], taken[c] + 1, taken[c] + m)
  <2>1. MAXLINE \in Int
    BY ServersAssumption DEF Grace!MaxLineAssumption
  <2> QED BY <2>1, UnreadPiece, Zenon
<1>2. /\ taken' = [taken EXCEPT ![c] = @ + m] /\ outbuf' = [outbuf EXCEPT ![c] = x]
      /\ spoiled' = [spoiled EXCEPT ![c] = @ \/ full]
  BY Zenon
<1>3. spoiled \in [Clients -> BOOLEAN] /\ full \in BOOLEAN
  <2>1. spoiled \in [Clients -> BOOLEAN]
    BY DEF SocketsType
  <2>2. full \in BOOLEAN
    OBVIOUS
  <2> QED BY <2>1, <2>2
<1> HIDE DEF y, full
<1>4. x \in Seq(Char) /\ Payload(x) = y
  BY <1>1, PayloadOfGreeting
<1>5. Echoed(program, SubSeq(sent[c], taken[c] + 1, taken[c] + m)) = y
  BY <1>1 DEF Echoed
<1>6. outbuf[c] \o x = x
  BY <1>4, ConcatEmptySeq
<1> HIDE DEF x, m
<1>7. /\ outbuf' \in [Clients -> Seq(Char)] /\ outbuf'[c] = x
      /\ \A d \in Clients \ {c} : outbuf'[d] = outbuf[d]
  <2>1. outbuf \in [Clients -> Seq(Char)]
    BY DEF SocketsType
  <2> QED BY ONLY <1>2, <1>4, <2>1, c \in Clients
<1>8. spoiled' \in [Clients -> BOOLEAN] /\ \A d \in Clients : spoiled[d] => spoiled'[d]
  BY <1>2, <1>3
<1>9. /\ outbuf'[c] = outbuf[c] \o x
      /\ Payload(x) = Echoed(program, SubSeq(sent[c], taken[c] + 1, taken[c] + m))
  BY <1>4, <1>5, <1>6, <1>7
<1>10. program # "nonblocking" /\ m \in Nat /\ taken[c] + m <= Len(sent[c])
  BY <1>1
<1>11. UNCHANGED <<program, conn, sent, ending, seen, reply, alive, stale>>
  OBVIOUS
<1>12. SocketsType' /\ EchoInv'
  BY <1>2, <1>4, <1>7, <1>8, <1>9, <1>10, <1>11, ReadStep
<1> QED BY <1>7, <1>12

LEMMA GraceStep ==
    ASSUME SocketsType, EchoInv, GraceInv, GraceNext
    PROVE  SocketsType' /\ EchoInv' /\ GraceInv'
<1> USE DEF Grace!clientSide, Grace!serverSide, Grace!histories
<1>1. program = "grace" /\ program' = program /\ Grace!Next
  BY DEF GraceNext, others
<1>2. conn \in [Clients -> {"idle", "backlog", "open", "closed"}] /\ alive \in BOOLEAN
      /\ outbuf \in [Clients -> Seq(Char)]
  BY DEF SocketsType
<1>3. CASE Grace!accept
  <2>1. PICK c \in Clients : conn' = [conn EXCEPT ![c] = "open"]
    BY <1>3 DEF Grace!accept, Grace!Backlog
  <2>2. /\ UNCHANGED <<sent, ending, seen, taken, outbuf, reply, stale, spoiled, alive>>
        /\ pc = "wait" /\ pc' = "read"
    BY <1>3 DEF Grace!accept
  <2>3. conn' \in [Clients -> {"idle", "backlog", "open", "closed"}] /\ alive' \in BOOLEAN
    BY <1>2, <2>1, <2>2
  <2>4. SocketsType' /\ EchoInv'
    BY <1>1, <2>2, <2>3, ConnectionStep
  <2>5. \A d \in Clients : conn'[d] = "open" => d = c
    BY <1>1, <1>2, <2>1, <2>2 DEF GraceInv
  <2>6. \A d \in Clients : outbuf[d] = <<>>
    BY <1>1, <2>2 DEF GraceInv
  <2> QED BY <1>1, <2>2, <2>4, <2>5, <2>6 DEF GraceInv
<1>4. CASE Grace!sleep
  <2>1. /\ UNCHANGED <<conn, sent, ending, seen, taken, outbuf, reply, stale, spoiled, alive>>
        /\ pc = "sleep" /\ pc' = "send"
    BY <1>4 DEF Grace!sleep
  <2>2. SocketsType' /\ EchoInv'
    BY <1>1, <1>2, <2>1, ConnectionStep
  <2> QED BY <1>1, <2>1, <2>2 DEF GraceInv
<1>5. ASSUME NEW c \in Clients, Grace!read(c)
      PROVE  SocketsType' /\ EchoInv' /\ GraceInv'
  <2>1. conn[c] = "open" /\ pc = "read" /\ UNCHANGED <<sent, ending, seen, stale>>
        /\ \A d \in Clients : outbuf[d] = <<>>
    BY <1>1, <1>5 DEF Grace!read, GraceInv
  <2>2. CASE Grace!Exit /\ UNCHANGED <<pc, spoiled>>
    <3>1. UNCHANGED <<conn, taken, outbuf, reply>> /\ alive' = FALSE
      BY <2>2 DEF Grace!Exit
    <3>2. SocketsType' /\ EchoInv'
      BY <1>1, <1>2, <2>1, <2>2, <3>1, ConnectionStep
    <3> QED BY <1>1, <2>2, <3>1, <3>2 DEF GraceInv
  <2>3. CASE ~ (Grace!Exit /\ UNCHANGED <<pc, spoiled>>)
    <3>1. /\ First(Unread(c), MAXLINE) # <<>>
          /\ taken' = [taken EXCEPT ![c] = @ + Len(First(Unread(c), MAXLINE))]
          /\ outbuf' = [outbuf EXCEPT ![c] = <<"Hi">> \o First(Unread(c), MAXLINE)]
          /\ spoiled' = [spoiled EXCEPT ![c] = @ \/ Len(First(Unread(c), MAXLINE)) + 4 >= MAXLINE]
          /\ pc' = "sleep" /\ UNCHANGED <<conn, reply, alive>>
      BY <1>5, <2>3, SameSockets, Zenon DEF Grace!read, Grace!Hi
    <3>2. SocketsType' /\ EchoInv' /\ \A d \in Clients \ {c} : outbuf'[d] = outbuf[d]
      BY <1>1, <2>1, <3>1, GraceReadStep
    <3> QED BY <1>1, <2>1, <3>1, <3>2 DEF GraceInv
  <2> QED BY <2>2, <2>3
<1>6. ASSUME NEW c \in Clients, Grace!answer(c)
      PROVE  SocketsType' /\ EchoInv' /\ GraceInv'
  <2>1. /\ conn[c] = "open" /\ pc = "send" /\ UNCHANGED <<sent, ending, seen, stale, spoiled>>
        /\ pc' = IF outbuf'[c] = <<>> THEN "read" ELSE pc
        /\ \A d \in Clients \ {c} : outbuf[d] = <<>>
    BY <1>1, <1>6 DEF Grace!answer, GraceInv
  <2>2. CASE ending[c] = "rst"
    <3>1. UNCHANGED <<conn, taken, outbuf, reply>> /\ alive' = FALSE
      BY <1>6, <2>2 DEF Grace!answer, Grace!Exit
    <3>2. SocketsType' /\ EchoInv'
      BY <1>1, <1>2, <2>1, <3>1, ConnectionStep
    <3> QED BY <1>1, <2>1, <3>1, <3>2 DEF GraceInv
  <2>3. CASE ending[c] # "rst"
    <3>1. send(c) /\ UNCHANGED <<conn, taken, alive>>
      BY <1>6, <2>3, SameSockets DEF Grace!answer
    <3>2. SocketsType' /\ EchoInv' /\ \A d \in Clients \ {c} : outbuf'[d] = outbuf[d]
      BY <1>1, <2>1, <2>3, <3>1, SendStep
    <3> QED BY <1>1, <2>1, <3>1, <3>2 DEF GraceInv
  <2> QED BY <2>2, <2>3
<1>7. ASSUME NEW c \in Clients, Grace!Client(c)
      PROVE  SocketsType' /\ EchoInv' /\ GraceInv'
  <2>1. ClientMoves(c)
    BY <1>1, <1>7, SameClients, ShortClient
  <2>2. SocketsType' /\ EchoInv'
    BY <2>1, ClientKeeps
  <2>3. \A d \in Clients : (conn'[d] = "open") = (conn[d] = "open")
    BY <1>2, <2>1 DEF ClientMoves
  <2> QED BY <1>1, <2>1, <2>2, <2>3 DEF GraceInv, ClientMoves
<1> QED BY <1>1, <1>3, <1>4, <1>5, <1>6, <1>7 DEF Grace!Next, Grace!Server

-----------------------------------------------------------------------------
(* The select server of chapter 22: the client that holds a descriptor has *)
(* the bytes of its buffer that are not sent yet; it holds no other one.   *)

Buffers == [connect_fd : Clients \cup {None}, buffer : Seq(Byte), readIndex : Nat,
            readable : BOOLEAN]
Fits(b) == b \in Buffers /\ Len(b.buffer) <= MAX_LINE /\ b.readIndex <= Len(b.buffer)

Holds(f, c) == c \in Clients /\ buffer[f].connect_fd = c

BufferInv ==
    /\ pc \in {"wait", "accept", "scan"} /\ (pc = "scan" => ready # {})
    /\ ready \subseteq ({Nonblocking!Listen} \cup Nonblocking!Fds) \X {"r", "w"}
    /\ buffer \in [Nonblocking!Fds -> Buffers]
    /\ \A f \in Nonblocking!Fds : Fits(buffer[f])

HolderInv ==
    /\ \A f \in Nonblocking!Fds, c \in Clients : Holds(f, c) => conn[c] = "open"
    /\ \A f, g \in Nonblocking!Fds, c \in Clients : Holds(f, c) /\ Holds(g, c) => f = g
    /\ \A e \in ready :
        /\ e[1] = Nonblocking!Listen => e = <<Nonblocking!Listen, "r">> /\ pc = "accept"
        /\ e[1] \in Nonblocking!Fds => \E c \in Clients : Holds(e[1], c)

PendingInv ==
    /\ \A c \in Clients :
        /\ conn[c] \in {"idle", "backlog"} => sent[c] = <<>> /\ reply[c] = <<>>
        /\ ~ spoiled[c] => InStep(program, stale[c], sent[c], taken[c], reply[c], <<>>, TRUE)
    /\ \A f \in Nonblocking!Fds, c \in Clients :
        Holds(f, c) /\ ~ spoiled[c] =>
            InStep(program, stale[c], sent[c], taken[c], reply[c],
                   Nonblocking!Pending(buffer[f]), FALSE)

NonblockingInv == program = "nonblocking" => BufferInv /\ HolderInv /\ PendingInv

LEMMA MaxLineType ==
    /\ MAX_LINE \in Nat \ {0} /\ None \notin Clients
    /\ Nonblocking!Fds \subseteq Nat \ {0} /\ Nonblocking!Listen = 0
    /\ {Nonblocking!Listen} \cup Nonblocking!Fds \subseteq Nat
BY ServersAssumption DEF Nonblocking!SizesAssumption, Nonblocking!NoneAssumption,
   Nonblocking!Fds, Nonblocking!Listen

LEMMA PendingType ==
    ASSUME NEW b, Fits(b)
    PROVE  /\ Nonblocking!Pending(b) \in Seq(Byte)
           /\ Len(Nonblocking!Pending(b)) = Len(b.buffer) - b.readIndex
           /\ b.buffer \in Seq(Byte) /\ Len(b.buffer) \in Nat /\ b.readIndex \in 0..Len(b.buffer)
<1>1. b.buffer \in Seq(Byte) /\ Len(b.buffer) \in Nat /\ b.readIndex \in 0..Len(b.buffer)
  BY LenProperties DEF Fits, Buffers
<1> QED BY <1>1, SplitAt DEF Nonblocking!Pending

\* What was in the buffer stays there; a read that fits adds all its bytes.
LEMMA BufferRead ==
    ASSUME SocketsType, NEW c \in Clients, NEW b, Fits(b)
    PROVE  /\ Fits(Nonblocking!onSocketRead(b, c))
           /\ Nonblocking!onSocketRead(b, c).connect_fd = b.connect_fd
           /\ Len(b.buffer) + Len(Unread(c)) <= MAX_LINE =>
                Nonblocking!Pending(Nonblocking!onSocketRead(b, c))
                    = Nonblocking!Pending(b) \o Rot(Unread(c))
<1> DEFINE s == b.buffer
           u == Unread(c)
           x == Rot(u)
           t == s \o x
           n == b.readIndex
           w == Nonblocking!onSocketRead(b, c)
           v == First(t, MAX_LINE)
<1>1. s \in Seq(Byte) /\ Len(s) \in Nat /\ Len(s) <= MAX_LINE /\ n \in 0..Len(s) /\ b \in Buffers
  BY PendingType DEF Fits
<1>2. u \in Seq(Byte) /\ Len(u) \in Nat
  BY UnreadPiece, MaxLineType, LenProperties
<1>3. x \in Seq(Byte) /\ Len(x) = Len(u)
  BY <1>2, RotType
<1>4. /\ w = [b EXCEPT !.buffer = v, !.readable = @ \/ NL \in Nonblocking!Range(u)]
  BY SameSockets DEF Nonblocking!onSocketRead, NL, Nonblocking!NL
<1> HIDE DEF s, u, x, n
<1>5. t \in Seq(Byte) /\ Len(t) = Len(s) + Len(x)
  BY <1>1, <1>3, ConcatProperties
<1> HIDE DEF t
<1>6. PICK k \in 0..Len(t) : /\ v \in Seq(Byte) /\ Len(v) = k
                             /\ k <= MAX_LINE
                             /\ MAX_LINE >= Len(t) => k = Len(t) /\ v = t
                             /\ v = SubSeq(t, 1, k)
  <2>1. MAX_LINE \in Int /\ MAX_LINE >= 0
    BY MaxLineType
  <2> QED BY <1>5, <2>1, FirstParts
<1> HIDE DEF v
<1>7. Len(s) <= k
  <2>1. Len(t) \in Nat /\ MAX_LINE \in Nat /\ Len(s) <= Len(t)
    BY <1>1, <1>2, <1>3, <1>5, MaxLineType
  <2>2. CASE MAX_LINE >= Len(t)
    BY <1>6, <2>1, <2>2
  <2>3. CASE MAX_LINE < Len(t)
    <3>1. v = SubSeq(t, 1, MAX_LINE) /\ MAX_LINE \in 0..Len(t)
      BY <2>1, <2>3 DEF v, First
    <3>2. Len(v) = MAX_LINE
      BY <1>5, <3>1, SplitAt
    <3> QED BY <1>1, <1>6, <3>2
  <2> QED BY <2>1, <2>2, <2>3
<1>8. /\ w \in Buffers /\ w.buffer = v /\ w.readIndex = n /\ w.connect_fd = b.connect_fd
  <2>1. v \in Seq(Byte)
    BY <1>6
  <2> QED BY <1>1, <1>4, <2>1 DEF Buffers, n
<1> HIDE DEF w
<1>9. Fits(w)
  BY <1>1, <1>6, <1>7, <1>8, MaxLineType DEF Fits
<1>10. ASSUME Len(s) + Len(u) <= MAX_LINE
       PROVE  Nonblocking!Pending(w) = Nonblocking!Pending(b) \o x
  <2>1. v = t /\ Len(t) = Len(s) + Len(x) /\ Len(s) \in Nat /\ Len(x) \in Nat
    BY <1>1, <1>2, <1>3, <1>5, <1>6, <1>10, MaxLineType
  <2>2. Nonblocking!Pending(w) = SubSeq(t, n + 1, Len(t))
    BY <1>8, <2>1 DEF Nonblocking!Pending
  <2>3. Nonblocking!Pending(b) = SubSeq(s, n + 1, Len(s))
    BY DEF Nonblocking!Pending, s, n
  <2> DEFINE p == SubSeq(s, 1, n)  q == SubSeq(s, n + 1, Len(s))
             f == SubSeq(t, 1, n)  g == SubSeq(t, n + 1, Len(t))
  <2>4. p \in Seq(Byte) /\ q \in Seq(Byte) /\ p \o q = s /\ Len(p) = n
    BY <1>1, SplitAt
  <2>5. f \in Seq(Byte) /\ g \in Seq(Byte) /\ f \o g = t /\ Len(f) = n
    <3>1. n \in 0..Len(t)
      BY <1>1, <2>1
    <3> QED BY <1>5, <3>1, SplitAt
  <2> HIDE DEF p, q, f, g
  <2>6. (p \o q) \o x = p \o (q \o x)
    <3>1. p \in Seq(Byte) /\ q \in Seq(Byte) /\ x \in Seq(Byte)
      BY <1>3, <2>4
    <3> QED BY <3>1, CharsConcat, Zenon
  <2>7. f \o g = p \o (q \o x)
    BY <2>4, <2>5, <2>6 DEF t
  <2>8. q \o x \in Seq(Byte)
    BY <1>3, <2>4, ConcatProperties
  <2>9. g = q \o x
    BY <2>4, <2>5, <2>7, <2>8, SameSplit
  <2> QED BY <2>2, <2>3, <2>9 DEF q, g
<1> QED BY <1>8, <1>9, <1>10 DEF w, s, u, x

\* What is sent is taken from the front of the bytes that are pending.
LEMMA BufferWrite ==
    ASSUME NEW b, Fits(b), NEW n \in Int
    PROVE  LET a == First(Nonblocking!Pending(b), n)
               w == Nonblocking!onSocketWrite(b, Len(a))
           IN  /\ Fits(w) /\ w.connect_fd = b.connect_fd /\ a \in Seq(Byte)
               /\ Nonblocking!Pending(w) \in Seq(Byte)
               /\ a \o Nonblocking!Pending(w) = Nonblocking!Pending(b)
<1> DEFINE s == b.buffer
           i == b.readIndex
           p == Nonblocking!Pending(b)
           a == First(p, n)
           w == Nonblocking!onSocketWrite(b, Len(a))
<1>1. /\ s \in Seq(Byte) /\ Len(s) \in Nat /\ i \in 0..Len(s) /\ b \in Buffers
      /\ p \in Seq(Byte) /\ Len(p) = Len(s) - i /\ p = SubSeq(s, i + 1, Len(s)) /\ Len(s) <= MAX_LINE
  BY PendingType DEF Fits, Nonblocking!Pending
<1>2. w = IF Len(a) = Len(p) THEN [b EXCEPT !.buffer = <<>>, !.readIndex = 0, !.readable = FALSE]
          ELSE [b EXCEPT !.readIndex = i + Len(a)]
  BY Zenon DEF Nonblocking!onSocketWrite
<1> HIDE DEF p
<1>3. PICK k \in 0..Len(p) : a = SubSeq(p, 1, k) /\ a \in Seq(Byte) /\ Len(a) = k
  <2>1. p \in Seq(Byte)
    BY <1>1
  <2>2. PICK k \in 0..Len(p) :
           /\ First(p, n) = SubSeq(p, 1, k) /\ First(p, n) \in Seq(Byte) /\ Len(First(p, n)) = k
           /\ n >= 0 => k <= n
           /\ n >= Len(p) => k = Len(p) /\ First(p, n) = p
    BY <2>1, FirstParts, Zenon
  <2> QED BY <2>2, Zenon DEF a
<1> HIDE DEF a
<1>4. CASE Len(a) = Len(p)
  <2>1. a = p
    BY <1>1, <1>3, <1>4, SubSeqFull
  <2>2. <<>> \in Seq(Byte) /\ Len(<<>>) = 0 /\ 0 \in Nat /\ 0 <= MAX_LINE
    BY EmptySeq, MaxLineType
  <2>3. w \in Buffers /\ w.buffer = <<>> /\ w.readIndex = 0 /\ w.connect_fd = b.connect_fd
    BY <1>1, <1>2, <1>4, <2>2 DEF Buffers
  <2> HIDE DEF w
  <2>4. Fits(w)
    BY <2>2, <2>3 DEF Fits
  <2>5. Nonblocking!Pending(w) = <<>>
    <3>1. Nonblocking!Pending(w) = SubSeq(<<>>, 1, 0)
      BY <2>2, <2>3 DEF Nonblocking!Pending
    <3> QED BY <3>1, SubSeqEmpty
  <2>6. a \o <<>> = a
    BY <1>3, ConcatEmptySeq, SMTT(20)
  <2> QED BY <1>3, <2>1, <2>2, <2>3, <2>4, <2>5, <2>6 DEF w, a, p
<1>5. CASE Len(a) # Len(p)
  <2>1. i + k \in i..Len(s) /\ i + k \in 0..Len(s) /\ i + k \in Nat
    BY <1>1, <1>3, SMTT(20)
  <2>2. w = [b EXCEPT !.readIndex = i + k]
    BY <1>2, <1>3, <1>5
  <2>3. w \in Buffers /\ w.buffer = s /\ w.readIndex = i + k /\ w.connect_fd = b.connect_fd
    BY <1>1, <2>1, <2>2 DEF Buffers
  <2> HIDE DEF w
  <2>4. Fits(w)
    BY <1>1, <2>1, <2>3 DEF Fits
  <2>5. Nonblocking!Pending(w) = SubSeq(s, i + k + 1, Len(s))
    BY <2>3 DEF Nonblocking!Pending
  <2>6. p = SubSeq(s, i + 1, i + k) \o SubSeq(s, i + k + 1, Len(s))
    BY <1>1, <2>1, SplitRest
  <2>7. a = SubSeq(s, i + 1, i + k)
    <3>1. k \in 0..Len(s) - i
      BY <1>1, <1>3
    <3> QED BY <1>1, <1>3, <3>1, FrontOfRest
  <2>8. Nonblocking!Pending(w) \in Seq(Byte)
    BY <2>4, PendingType
  <2> QED BY <1>3, <2>3, <2>4, <2>5, <2>6, <2>7, <2>8 DEF w, a, p
<1> QED BY <1>4, <1>5

LEMMA NonblockingLeast ==
    ASSUME NEW M, M \subseteq {Nonblocking!Listen} \cup Nonblocking!Fds, M # {}
    PROVE  Nonblocking!Min(M) \in M
<1>1. M \subseteq Nat
  BY MaxLineType
<1> QED BY <1>1, MinNatural, SameSockets

LEMMA NonblockingEcho ==
    ASSUME program = "nonblocking", program' = program
    PROVE  EchoInv'
BY DEF EchoInv

\* The select server looks at its descriptors, or ends.
LEMMA NonblockingLook ==
    ASSUME SocketsType, EchoInv, BufferInv, HolderInv, PendingInv, program = "nonblocking",
           UNCHANGED <<program, conn, sent, ending, seen, taken, outbuf, reply, stale, spoiled, buffer>>,
           alive' \in BOOLEAN, BufferInv', HolderInv'
    PROVE  SocketsType' /\ EchoInv' /\ NonblockingInv'
<1>1. SocketsType' /\ EchoInv'
  <2>1. conn' \in [Clients -> {"idle", "backlog", "open", "closed"}]
    BY DEF SocketsType
  <2> QED BY <2>1, ConnectionStep
<1>2. PendingInv'
  <2>1. UNCHANGED <<program, conn, sent, taken, reply, stale, spoiled, buffer>>
    OBVIOUS
  <2> QED BY <2>1, Zenon DEF PendingInv, Holds
<1> QED BY <1>1, <1>2 DEF NonblockingInv

LEMMA SelectStep ==
    ASSUME SocketsType, EchoInv, BufferInv, HolderInv, PendingInv, program = "nonblocking",
           program' = program, Nonblocking!select
    PROVE  SocketsType' /\ EchoInv' /\ NonblockingInv'
<1>1. /\ UNCHANGED <<program, conn, sent, ending, seen, taken, outbuf, reply, stale, spoiled, buffer>>
      /\ alive' = alive /\ ready' = Nonblocking!Reported /\ ready' # {}
      /\ pc' = IF <<Nonblocking!Listen, "r">> \in ready' THEN "accept" ELSE "scan"
  BY DEF Nonblocking!select, Nonblocking!clientSide, Nonblocking!serverSide, Nonblocking!histories
<1>2. \A e \in Nonblocking!Reported :
         \/ e = <<Nonblocking!Listen, "r">>
         \/ /\ e \in Nonblocking!Fds \X {"r", "w"}
            /\ buffer[e[1]].connect_fd # None
  BY DEF Nonblocking!Reported, Nonblocking!Holder
<1>3. BufferInv'
  BY <1>1, <1>2 DEF BufferInv
<1>4. HolderInv'
  <2>1. ASSUME NEW e \in ready', e[1] \in Nonblocking!Fds
        PROVE  \E c \in Clients : buffer[e[1]].connect_fd = c
    <3>1. buffer[e[1]].connect_fd # None
      BY <1>1, <1>2, <2>1, MaxLineType
    <3> QED BY <2>1, <3>1 DEF BufferInv, Buffers
  <2>2. \A e \in ready' : e[1] = Nonblocking!Listen =>
            e = <<Nonblocking!Listen, "r">> /\ pc' = "accept"
    BY <1>1, <1>2, MaxLineType
  <2> QED BY <1>1, <2>1, <2>2 DEF HolderInv, Holds
<1> QED BY <1>1, <1>3, <1>4, NonblockingLook DEF SocketsType

LEMMA NonblockingAccept ==
    ASSUME SocketsType, EchoInv, BufferInv, HolderInv, PendingInv, program = "nonblocking",
           program' = program, Nonblocking!accept
    PROVE  SocketsType' /\ EchoInv' /\ NonblockingInv'
<1>1. /\ UNCHANGED <<program, sent, ending, seen, spoiled>> /\ pc = "accept"
      /\ ready' = ready \ {<<Nonblocking!Listen, "r">>}
      /\ pc' = IF ready' = {} THEN "wait" ELSE "scan"
  BY DEF Nonblocking!accept, Nonblocking!clientSide
<1>2. /\ pc' \in {"wait", "scan"} /\ (pc' = "scan" => ready' # {})
      /\ ready' \subseteq ({Nonblocking!Listen} \cup Nonblocking!Fds) \X {"r", "w"}
      /\ \A e \in ready' : /\ e[1] # Nonblocking!Listen
                           /\ e[1] \in Nonblocking!Fds => \E c \in Clients : Holds(e[1], c)
  BY <1>1 DEF BufferInv, HolderInv
<1>3. ASSUME Nonblocking!Exit, UNCHANGED <<stale, buffer>>
      PROVE  SocketsType' /\ EchoInv' /\ NonblockingInv'
  <2>1. UNCHANGED <<conn, taken, outbuf, reply, buffer>> /\ alive' = FALSE
    BY <1>3 DEF Nonblocking!Exit, Nonblocking!serverSide
  <2>2. BufferInv'
    BY <1>2, <2>1 DEF BufferInv
  <2>3. HolderInv'
    BY <1>2, <2>1 DEF HolderInv, Holds
  <2>4. alive' \in BOOLEAN /\ UNCHANGED <<program, conn, sent, ending, seen, taken, outbuf, reply, stale, spoiled, buffer>>
    BY <1>1, <1>3, <2>1
  <2> QED BY <2>2, <2>3, <2>4, NonblockingLook
<1>4. ASSUME NEW c \in Clients, conn[c] = "backlog", conn' = [conn EXCEPT ![c] = "open"],
             UNCHANGED <<taken, outbuf, reply, alive, stale, buffer>>
      PROVE  SocketsType' /\ EchoInv' /\ NonblockingInv'
  <2>1. /\ \A d \in Clients : conn[d] = "open" => conn'[d] = "open"
        /\ \A d \in Clients : conn'[d] \in {"idle", "backlog"} => conn[d] = conn'[d]
        /\ conn' \in [Clients -> {"idle", "backlog", "open", "closed"}] /\ alive' \in BOOLEAN
    BY <1>4 DEF SocketsType
  <2>2. SocketsType' /\ EchoInv'
    BY <1>1, <1>4, <2>1, ConnectionStep
  <2>3. BufferInv'
    BY <1>2, <1>4 DEF BufferInv
  <2>4. HolderInv'
    BY <1>2, <1>4, <2>1 DEF HolderInv, Holds
  <2>5. PendingInv'
    <3>1. UNCHANGED <<program, sent, taken, reply, stale, spoiled, buffer>>
      BY <1>1, <1>4
    <3> QED BY <2>1, <3>1, Zenon DEF PendingInv, Holds
  <2> QED BY <2>2, <2>3, <2>4, <2>5 DEF NonblockingInv
<1>5. ASSUME NEW c \in Clients, conn[c] = "backlog", Nonblocking!Free # {},
             Nonblocking!Connected(c, Nonblocking!Min(Nonblocking!Free)),
             UNCHANGED <<taken, outbuf, reply, alive>>
      PROVE  SocketsType' /\ EchoInv' /\ NonblockingInv'
  <2> DEFINE f == Nonblocking!Min(Nonblocking!Free)
             p == Nonblocking!Pending(buffer[f])
             b == [buffer[f] EXCEPT !.connect_fd = c]
  <2>1. f \in Nonblocking!Fds /\ buffer[f].connect_fd = None
    BY <1>5, NonblockingLeast DEF Nonblocking!Free, Nonblocking!Holder
  <2>2. /\ conn' = [conn EXCEPT ![c] = "open"] /\ stale' = [stale EXCEPT ![c] = p]
        /\ buffer' = [buffer EXCEPT ![f] = b]
    BY <1>5 DEF Nonblocking!Connected
  <2> HIDE DEF f
  <2>3. /\ Fits(b) /\ b.connect_fd = c /\ Nonblocking!Pending(b) = p /\ p \in Seq(Byte)
    <3>1. Fits(buffer[f])
      BY <2>1 DEF BufferInv
    <3>2. p \in Seq(Byte)
      BY <3>1, PendingType
    <3> QED BY <3>1, <3>2 DEF Fits, Buffers, Nonblocking!Pending
  <2> HIDE DEF p, b
  <2>4. /\ \A g \in Nonblocking!Fds : g # f => buffer'[g] = buffer[g]
        /\ buffer'[f] = b /\ buffer' \in [Nonblocking!Fds -> Buffers]
        /\ \A g \in Nonblocking!Fds : Fits(buffer'[g])
    BY <2>1, <2>2, <2>3 DEF BufferInv, Fits
  <2>5. /\ \A d \in Clients : conn[d] = "open" => conn'[d] = "open"
        /\ \A d \in Clients : conn'[d] \in {"idle", "backlog"} => conn[d] = conn'[d]
        /\ conn' \in [Clients -> {"idle", "backlog", "open", "closed"}]
        /\ conn'[c] = "open"
    BY <2>2 DEF SocketsType
  <2>6. /\ stale' \in [Clients -> Seq(Byte)] /\ stale'[c] = p
        /\ \A d \in Clients : d # c => stale'[d] = stale[d]
    BY <2>2, <2>3 DEF SocketsType
  <2>7. SocketsType'
    BY <1>1, <1>5, <2>5, <2>6 DEF SocketsType, Bound
  <2>8. BufferInv'
    BY <1>2, <2>4 DEF BufferInv
  <2>9. /\ \A g \in Nonblocking!Fds, d \in Clients : d # c => (Holds(g, d)' <=> Holds(g, d))
        /\ \A g \in Nonblocking!Fds : Holds(g, c)' => g = f
    <3>1. ASSUME NEW g \in Nonblocking!Fds, NEW d \in Clients, d # c PROVE Holds(g, d)' <=> Holds(g, d)
      <4>1. CASE g = f
        BY <2>1, <2>3, <2>4, <3>1, <4>1, MaxLineType DEF Holds
      <4>2. CASE g # f
        BY <2>4, <3>1, <4>2 DEF Holds
      <4> QED BY <4>1, <4>2
    <3>2. ASSUME NEW g \in Nonblocking!Fds, Holds(g, c)' PROVE g = f
      <4>1. CASE g # f
        BY <1>5, <2>4, <3>2, <4>1 DEF Holds, HolderInv
      <4> QED BY <4>1
    <3> QED BY <3>1, <3>2
  <2>10. HolderInv'
    <3>1. \A g \in Nonblocking!Fds, d \in Clients : Holds(g, d)' => conn'[d] = "open"
      BY <2>5, <2>9 DEF HolderInv
    <3>2. \A g, h \in Nonblocking!Fds, d \in Clients : Holds(g, d)' /\ Holds(h, d)' => g = h
      BY <2>9 DEF HolderInv
    <3>3. \A e \in ready' : e[1] \in Nonblocking!Fds => \E d \in Clients : Holds(e[1], d)'
      <4>1. ASSUME NEW e \in ready', e[1] \in Nonblocking!Fds PROVE \E d \in Clients : Holds(e[1], d)'
        <5>1. PICK d \in Clients : Holds(e[1], d)
          BY <1>2, <4>1
        <5>2. d # c
          BY <1>5, <4>1, <5>1 DEF HolderInv
        <5>3. Holds(e[1], d)'
          BY <2>9, <4>1, <5>1, <5>2, Zenon
        <5> QED BY <5>3
      <4> QED BY <4>1
    <3> QED BY <1>2, <3>1, <3>2, <3>3 DEF HolderInv
  <2>11. /\ sent[c] = <<>> /\ reply[c] = <<>> /\ taken[c] = 0
    <3>1. sent[c] = <<>> /\ reply[c] = <<>>
      BY <1>5 DEF PendingInv
    <3>2. taken[c] \in Nat /\ taken[c] <= 0
      BY <3>1 DEF SocketsType
    <3> QED BY <3>1, <3>2
  <2>12. /\ InStep(program, p, sent[c], taken[c], reply[c], p, FALSE)
         /\ InStep(program, p, sent[c], taken[c], reply[c], <<>>, TRUE)
    <3>1. InStep(program, p, sent[c], taken[c], reply[c], p, FALSE)
      BY <2>3, <2>11, InStepFirst
    <3> QED BY <3>1, InStepCut, Zenon
  <2>13. PendingInv'
    <3>1. UNCHANGED <<program, sent, taken, reply, spoiled>>
      BY <1>1, <1>5
    <3>2. ASSUME NEW d \in Clients, ~ spoiled[d]
          PROVE  InStep(program, stale'[d], sent[d], taken[d], reply[d], <<>>, TRUE)
      BY <2>6, <2>12, <3>2 DEF PendingInv
    <3>3. ASSUME NEW g \in Nonblocking!Fds, NEW d \in Clients, Holds(g, d)', ~ spoiled[d]
          PROVE  InStep(program, stale'[d], sent[d], taken[d], reply[d], Nonblocking!Pending(buffer'[g]), FALSE)
      <4>1. CASE d = c
        <5>1. g = f /\ buffer'[g] = b /\ stale'[d] = p
          BY <2>4, <2>6, <2>9, <3>3, <4>1
        <5> QED BY <2>3, <2>12, <4>1, <5>1
      <4>2. CASE d # c
        <5>1. Holds(g, d) /\ stale'[d] = stale[d] /\ g # f
          BY <2>1, <2>6, <2>9, <3>3, <4>2, MaxLineType DEF Holds
        <5> QED BY <2>4, <3>3, <5>1 DEF PendingInv
      <4> QED BY <4>1, <4>2
    <3>4. \A d \in Clients : conn'[d] \in {"idle", "backlog"} => sent[d] = <<>> /\ reply[d] = <<>>
      BY <2>5 DEF PendingInv
    <3> QED BY <3>1, <3>2, <3>3, <3>4, Zenon DEF PendingInv
  <2> QED BY <1>1, <2>7, <2>8, <2>10, <2>13, NonblockingEcho DEF NonblockingInv
<1> QED BY <1>3, <1>4, <1>5 DEF Nonblocking!accept, Nonblocking!Backlog, Nonblocking!serverSide

\* The client of a descriptor is served: n of its bytes were read by then,
\* r is its reply, b the buffer.
LEMMA ServedStep ==
    ASSUME SocketsType, EchoInv, BufferInv, HolderInv, PendingInv, program = "nonblocking",
           program' = program, NEW h \in Nonblocking!Fds, NEW c \in Clients, Holds(h, c),
           pc = "scan", ready' = ready \ {<<h, "r">>, <<h, "w">>},
           pc' = IF ready' = {} THEN "wait" ELSE "scan",
           NEW n \in Nat, n <= Len(sent[c]), taken' = [taken EXCEPT ![c] = n],
           NEW r \in Seq(Char), Len(reply[c]) <= Len(r), reply' = [reply EXCEPT ![c] = r],
           NEW b, Fits(b), buffer' = [buffer EXCEPT ![h] = b],
           spoiled' \in [Clients -> BOOLEAN], \A d \in Clients : spoiled[d] => spoiled'[d],
           UNCHANGED <<sent, ending, seen, outbuf, alive, stale>>,
           \/ b.connect_fd = c /\ conn' = conn
           \/ b.connect_fd = None /\ conn' = [conn EXCEPT ![c] = "closed"],
           ~ spoiled'[c] =>
              /\ InStep(program, stale[c], sent[c], n, r, <<>>, TRUE)
              /\ b.connect_fd = c =>
                    InStep(program, stale[c], sent[c], n, r, Nonblocking!Pending(b), FALSE)
    PROVE  SocketsType' /\ EchoInv' /\ NonblockingInv'
<1>1. /\ taken' \in [Clients -> Nat] /\ taken'[c] = n
      /\ \A d \in Clients : d # c => taken'[d] = taken[d]
  BY DEF SocketsType
<1>2. /\ reply' \in [Clients -> Seq(Char)] /\ reply'[c] = r
      /\ \A d \in Clients : d # c => reply'[d] = reply[d]
  <2>1. reply \in [Clients -> Seq(Char)] /\ r \in Seq(Char) /\ reply' = [reply EXCEPT ![c] = r]
    BY DEF SocketsType
  <2> QED BY ONLY <2>1, c \in Clients
<1>3. /\ conn' \in [Clients -> {"idle", "backlog", "open", "closed"}]
      /\ \A d \in Clients : d # c => conn'[d] = conn[d]
      /\ b.connect_fd = c => conn' = conn
      /\ conn[c] = "open" /\ conn'[c] \notin {"idle", "backlog"}
  <2>1. conn \in [Clients -> {"idle", "backlog", "open", "closed"}] /\ conn[c] = "open"
        /\ (b.connect_fd = None => b.connect_fd # c)
    <3>1. conn \in [Clients -> {"idle", "backlog", "open", "closed"}]
      BY DEF SocketsType
    <3>2. conn[c] = "open"
      BY DEF HolderInv
    <3>3. b.connect_fd = None => b.connect_fd # c
      BY MaxLineType
    <3> QED BY <3>1, <3>2, <3>3
  <2> QED BY <2>1
<1>4. /\ buffer' \in [Nonblocking!Fds -> Buffers] /\ buffer'[h] = b
      /\ \A f \in Nonblocking!Fds : f # h => buffer'[f] = buffer[f]
      /\ \A f \in Nonblocking!Fds : Fits(buffer'[f])
  BY DEF BufferInv, Fits
<1>5. /\ ready' \subseteq ready /\ pc' \in {"wait", "scan"} /\ (pc' = "scan" => ready' # {})
      /\ \A e \in ready' : e[1] # h /\ e[1] # Nonblocking!Listen
  BY DEF BufferInv, HolderInv
<1>6. SocketsType'
  <2>1. \A d \in Clients : taken'[d] <= Len(sent[d])
    BY <1>1 DEF SocketsType
  <2>2. seen[c] \in Nat /\ seen[c] <= Len(reply[c]) /\ Len(reply[c]) \in Nat /\ Len(r) \in Nat
    BY LenProperties DEF SocketsType
  <2>3. \A d \in Clients : seen[d] <= Len(reply'[d])
    BY <1>2, <2>2 DEF SocketsType
  <2> QED BY <1>1, <1>2, <1>3, <2>1, <2>3 DEF SocketsType, Bound
<1>7. BufferInv'
  <2>1. ready' \subseteq ({Nonblocking!Listen} \cup Nonblocking!Fds) \X {"r", "w"}
    BY <1>5 DEF BufferInv
  <2> QED BY <1>4, <1>5, <2>1 DEF BufferInv
<1>8. /\ \A f \in Nonblocking!Fds, d \in Clients : Holds(f, d)' => Holds(f, d)
      /\ \A f \in Nonblocking!Fds, d \in Clients : f # h => (Holds(f, d)' <=> Holds(f, d))
      /\ \A d \in Clients : Holds(h, d)' => d = c /\ b.connect_fd = c
  <2>1. \A f \in Nonblocking!Fds, d \in Clients : f # h => (Holds(f, d)' <=> Holds(f, d))
    BY <1>4 DEF Holds
  <2>2. \A d \in Clients : Holds(h, d)' => d = c /\ b.connect_fd = c
    BY <1>4, MaxLineType DEF Holds
  <2> QED BY <2>1, <2>2
<1>9. HolderInv'
  <2>1. ASSUME NEW f \in Nonblocking!Fds, NEW d \in Clients, Holds(f, d)' PROVE conn'[d] = "open"
    <3>1. Holds(f, d) /\ conn[d] = "open"
      BY <1>8, <2>1 DEF HolderInv
    <3>2. CASE d = c
      <4>1. f = h
        BY <3>1, <3>2 DEF HolderInv
      <4> QED BY <1>3, <1>8, <2>1, <3>1, <4>1
    <3> QED BY <1>3, <3>1, <3>2
  <2>2. \A f, g \in Nonblocking!Fds, d \in Clients : Holds(f, d)' /\ Holds(g, d)' => f = g
    BY <1>8 DEF HolderInv
  <2>3. ASSUME NEW e \in ready', e[1] \in Nonblocking!Fds PROVE \E d \in Clients : Holds(e[1], d)'
    <3>1. e[1] # h /\ \E d \in Clients : Holds(e[1], d)
      BY <1>5, <2>3 DEF HolderInv
    <3> QED BY <1>8, <2>3, <3>1
  <2> QED BY <1>5, <2>1, <2>2, <2>3 DEF HolderInv
<1>10. PendingInv'
  <2>1. UNCHANGED <<program, sent, stale>>
    OBVIOUS
  <2>2. \A d \in Clients : conn'[d] \in {"idle", "backlog"} => sent[d] = <<>> /\ reply'[d] = <<>>
    BY <1>2, <1>3 DEF PendingInv
  <2>3. ASSUME NEW d \in Clients, ~ spoiled'[d]
        PROVE  InStep(program, stale[d], sent[d], taken'[d], reply'[d], <<>>, TRUE)
    <3>1. CASE d = c
      <4>1. taken'[d] = n /\ reply'[d] = r
        BY <1>1, <1>2, <3>1
      <4> QED BY <2>3, <3>1, <4>1
    <3>2. CASE d # c
      <4>1. taken'[d] = taken[d] /\ reply'[d] = reply[d] /\ ~ spoiled[d]
        BY <1>1, <1>2, <2>3, <3>2
      <4> QED BY <4>1 DEF PendingInv
    <3> QED BY <3>1, <3>2
  <2>4. ASSUME NEW f \in Nonblocking!Fds, NEW d \in Clients, Holds(f, d)', ~ spoiled'[d]
        PROVE  InStep(program, stale[d], sent[d], taken'[d], reply'[d],
                      Nonblocking!Pending(buffer'[f]), FALSE)
    <3>1. CASE f = h
      <4>1. d = c /\ b.connect_fd = c /\ taken'[d] = n /\ reply'[d] = r /\ buffer'[f] = b
        BY <1>1, <1>2, <1>4, <1>8, <2>4, <3>1
      <4> QED BY <2>4, <4>1
    <3>2. CASE f # h
      <4>1. Holds(f, d) /\ d # c
        BY <1>8, <2>4, <3>2 DEF HolderInv
      <4>2. taken'[d] = taken[d] /\ reply'[d] = reply[d] /\ buffer'[f] = buffer[f] /\ ~ spoiled[d]
        BY <1>1, <1>2, <1>4, <2>4, <3>2, <4>1
      <4> QED BY <4>1, <4>2 DEF PendingInv
    <3> QED BY <3>1, <3>2
  <2> QED BY <2>1, <2>2, <2>3, <2>4, Zenon DEF PendingInv
<1> QED BY <1>6, <1>7, <1>9, <1>10, NonblockingEcho DEF NonblockingInv

\* The buffer after the reads, and after the sends.
LEMMA ReadInStep ==
    ASSUME SocketsType, program = "nonblocking", NEW c \in Clients, NEW v, Fits(v),
           InStep(program, stale[c], sent[c], taken[c], reply[c], Nonblocking!Pending(v), FALSE),
           Len(v.buffer) + Len(Unread(c)) <= MAX_LINE
    PROVE  InStep(program, stale[c], sent[c], Len(sent[c]), reply[c],
                  Nonblocking!Pending(Nonblocking!onSocketRead(v, c)), FALSE)
<1> DEFINE u == Unread(c)
           x == Rot(u)
           o == Nonblocking!Pending(v)
           m == Len(sent[c]) - taken[c]
<1>1. Nonblocking!Pending(Nonblocking!onSocketRead(v, c)) = o \o x
  BY BufferRead
<1>2. /\ m \in Nat /\ taken[c] + m = Len(sent[c]) /\ taken[c] + m <= Len(sent[c])
      /\ taken[c] \in Nat
  <2>1. Len(sent[c]) \in Nat /\ taken[c] \in Nat /\ taken[c] <= Len(sent[c])
    BY LenProperties DEF SocketsType
  <2> QED BY <2>1
<1>3. u \in Seq(Byte) /\ u = SubSeq(sent[c], taken[c] + 1, taken[c] + m)
  <2>1. u \in Seq(Byte)
    BY UnreadPiece, MaxLineType
  <2>2. u = SubSeq(sent[c], taken[c] + 1, taken[c] + m)
    BY <1>2 DEF Unread
  <2> QED BY <2>1, <2>2
<1> HIDE DEF u, m
<1>4. x \in Seq(Byte) /\ x \in Seq(Char) /\ Payload(x) = x
  <2>1. x \in Seq(Byte)
    BY <1>3, RotType
  <2> HIDE DEF x
  <2> QED BY <2>1, ByteTypes, PayloadOfBytes
<1>5. Echoed(program, SubSeq(sent[c], taken[c] + 1, taken[c] + m)) = x
  BY <1>3 DEF Echoed
<1> HIDE DEF x
<1>6. o \in Seq(Char) /\ stale[c] \in Seq(Byte) /\ sent[c] \in Seq(Byte) /\ reply[c] \in Seq(Char)
  BY PendingType, ByteTypes DEF SocketsType
<1>7. InStep(program, stale[c], sent[c], taken[c], reply[c], o, FALSE)
  OBVIOUS
<1>8. Payload(x) = Echoed(program, SubSeq(sent[c], taken[c] + 1, taken[c] + m))
  BY <1>4, <1>5
<1> HIDE DEF o
<1>9. InStep(program, stale[c], sent[c], taken[c] + m, reply[c], o \o x, FALSE)
  BY <1>2, <1>4, <1>6, <1>7, <1>8, InStepRead, Zenon
<1> QED BY <1>1, <1>2, <1>9 DEF o

LEMMA SentInStep ==
    ASSUME NEW p, NEW st, NEW s, NEW n, NEW r \in Seq(Char), NEW b, Fits(b), NEW k \in Int,
           InStep(p, st, s, n, r, Nonblocking!Pending(b), FALSE)
    PROVE  LET a == First(Nonblocking!Pending(b), k)
               w == Nonblocking!onSocketWrite(b, Len(a))
           IN  InStep(p, st, s, n, r \o a, Nonblocking!Pending(w), FALSE)
<1> DEFINE a == First(Nonblocking!Pending(b), k)
           o == Nonblocking!Pending(Nonblocking!onSocketWrite(b, Len(a)))
<1>1. a \in Seq(Byte) /\ o \in Seq(Byte) /\ a \o o = Nonblocking!Pending(b)
  BY BufferWrite, Zenon
<1> HIDE DEF a, o
<1>2. a \in Seq(Char) /\ o \in Seq(Char) /\ InStep(p, st, s, n, r, a \o o, FALSE)
  BY <1>1, ByteTypes
<1>3. InStep(p, st, s, n, r \o a, o, FALSE)
  BY <1>2, InStepSend, Zenon
<1> QED BY <1>3 DEF a, o

LEMMA HandleStep ==
    ASSUME SocketsType, EchoInv, BufferInv, HolderInv, PendingInv, program = "nonblocking",
           program' = program, NEW h \in Nonblocking!Fds, Nonblocking!handle(h)
    PROVE  SocketsType' /\ EchoInv' /\ NonblockingInv'
<1>1. /\ pc = "scan" /\ h = Nonblocking!Min({e[1] : e \in ready})
      /\ ready' = ready \ {<<h, "r">>, <<h, "w">>} /\ pc' = IF ready' = {} THEN "wait" ELSE "scan"
      /\ UNCHANGED <<program, sent, ending, seen, outbuf, alive, stale>>
  BY DEF Nonblocking!handle, Nonblocking!clientSide
<1>2. PICK c \in Clients : Holds(h, c)
  <2>1. ready # {} /\ {e[1] : e \in ready} \subseteq {Nonblocking!Listen} \cup Nonblocking!Fds
    BY <1>1 DEF BufferInv
  <2>2. h \in {e[1] : e \in ready}
    BY <1>1, <2>1, NonblockingLeast
  <2> QED BY <2>2 DEF HolderInv
<1>3. Nonblocking!Holder(h) = c /\ c # None /\ Fits(buffer[h]) /\ buffer[h].connect_fd = c
  BY <1>2, MaxLineType DEF Holds, Nonblocking!Holder, BufferInv
<1> DEFINE v == buffer[h]
           reading == <<h, "r">> \in ready
           b == IF reading THEN Nonblocking!onSocketRead(v, c) ELSE v
           n == IF reading THEN Len(sent[c]) ELSE taken[c]
           a == First(Nonblocking!Pending(b), Room(c))
           w == Nonblocking!onSocketWrite(b, Len(a))
           full == reading /\ Len(v.buffer) + Len(Unread(c)) > MAX_LINE
           closed == [b EXCEPT !.connect_fd = None]
           r == reply[c] \o a
<1>4. /\ taken' = [taken EXCEPT ![c] = n] /\ spoiled' = [spoiled EXCEPT ![c] = @ \/ full]
      /\ \/ /\ conn' = [conn EXCEPT ![c] = "closed"] /\ buffer' = [buffer EXCEPT ![h] = closed]
            /\ reply' = reply
         \/ buffer' = [buffer EXCEPT ![h] = b] /\ UNCHANGED <<conn, reply>>
         \/ /\ reply' = [reply EXCEPT ![c] = @ \o a] /\ buffer' = [buffer EXCEPT ![h] = w]
            /\ conn' = conn
  <2>1. taken' = [taken EXCEPT ![c] = n]
    BY <1>3 DEF Nonblocking!handle
  <2>2. spoiled' = [spoiled EXCEPT ![c] = @ \/ full]
    BY <1>3, SameSockets DEF Nonblocking!handle
  <2>3. \/ /\ conn' = [conn EXCEPT ![c] = "closed"] /\ buffer' = [buffer EXCEPT ![h] = closed]
           /\ reply' = reply
        \/ buffer' = [buffer EXCEPT ![h] = b] /\ UNCHANGED <<conn, reply>>
        \/ /\ reply' = [reply EXCEPT ![c] = @ \o a] /\ buffer' = [buffer EXCEPT ![h] = w]
           /\ conn' = conn
    BY <1>3, SameSockets DEF Nonblocking!handle, Nonblocking!close
  <2> QED BY <2>1, <2>2, <2>3
<1>5. /\ n \in Nat /\ n <= Len(sent[c]) /\ Room(c) \in Int /\ reply[c] \in Seq(Char)
      /\ Len(reply[c]) \in Nat
  BY RoomType, LenProperties DEF SocketsType
<1>6. Fits(b) /\ b.connect_fd = c
  BY <1>3, BufferRead
<1>7. /\ spoiled' \in [Clients -> BOOLEAN] /\ (\A d \in Clients : spoiled[d] => spoiled'[d])
      /\ ~ spoiled'[c] => ~ spoiled[c] /\ ~ full
  <2>1. spoiled \in [Clients -> BOOLEAN] /\ full \in BOOLEAN /\ spoiled' = [spoiled EXCEPT ![c] = @ \/ full]
    <3>1. full \in BOOLEAN
      OBVIOUS
    <3>2. spoiled' = [spoiled EXCEPT ![c] = @ \/ full]
      BY <1>4, Zenon
    <3> QED BY <3>1, <3>2 DEF SocketsType
  <2> HIDE DEF full
  <2> QED BY <2>1
<1>8. ASSUME ~ spoiled'[c]
      PROVE  /\ InStep(program, stale[c], sent[c], n, reply[c], Nonblocking!Pending(b), FALSE)
             /\ InStep(program, stale[c], sent[c], n, reply[c], <<>>, TRUE)
  <2>1. InStep(program, stale[c], sent[c], taken[c], reply[c], Nonblocking!Pending(v), FALSE)
    BY <1>2, <1>7, <1>8 DEF PendingInv
  <2>2. InStep(program, stale[c], sent[c], n, reply[c], Nonblocking!Pending(b), FALSE)
    <3>1. CASE reading
      <4>1. Len(v.buffer) + Len(Unread(c)) <= MAX_LINE
        <5>1. Len(v.buffer) \in Nat /\ Len(Unread(c)) \in Nat /\ MAX_LINE \in Nat
          <6>1. Unread(c) \in Seq(Byte)
            BY UnreadPiece, MaxLineType
          <6> QED BY <1>3, <6>1, PendingType, LenProperties, MaxLineType
        <5> QED BY <1>7, <1>8, <3>1, <5>1
      <4>2. InStep(program, stale[c], sent[c], Len(sent[c]), reply[c],
                   Nonblocking!Pending(Nonblocking!onSocketRead(v, c)), FALSE)
        BY <1>3, <2>1, <4>1, ReadInStep
      <4> QED BY <3>1, <4>2
    <3>2. CASE ~ reading
      BY <2>1, <3>2
    <3> QED BY <3>1, <3>2
  <2> HIDE DEF b, n
  <2>3. InStep(program, stale[c], sent[c], n, reply[c], <<>>, TRUE)
    BY <2>2, InStepCut, Zenon
  <2> QED BY <2>2, <2>3
<1> HIDE DEF v, reading, b, n, full
<1>9. CASE /\ conn' = [conn EXCEPT ![c] = "closed"] /\ buffer' = [buffer EXCEPT ![h] = closed]
           /\ reply' = reply
  <2>1. Fits(closed) /\ closed.connect_fd = None
    BY <1>6 DEF Fits, Buffers
  <2>2. reply' = [reply EXCEPT ![c] = reply[c]] /\ Len(reply[c]) <= Len(reply[c]) /\ closed.connect_fd # c
    BY <1>3, <1>5, <1>9, <2>1 DEF SocketsType
  <2> HIDE DEF closed
  <2> QED BY <1>1, <1>2, <1>4, <1>5, <1>7, <1>8, <1>9, <2>1, <2>2, ServedStep, Zenon
<1>10. CASE buffer' = [buffer EXCEPT ![h] = b] /\ UNCHANGED <<conn, reply>>
  <2>1. reply' = [reply EXCEPT ![c] = reply[c]] /\ Len(reply[c]) <= Len(reply[c])
    BY <1>5, <1>10 DEF SocketsType
  <2>2. conn' = conn
    BY <1>10
  <2> QED BY <1>1, <1>2, <1>4, <1>5, <1>6, <1>7, <1>8, <1>10, <2>1, <2>2, ServedStep, Zenon
<1>11. CASE /\ reply' = [reply EXCEPT ![c] = @ \o a] /\ buffer' = [buffer EXCEPT ![h] = w]
            /\ conn' = conn
  <2>1. Fits(w) /\ w.connect_fd = c /\ a \in Seq(Byte)
    BY <1>5, <1>6, BufferWrite
  <2>2. ~ spoiled'[c] => InStep(program, stale[c], sent[c], n, r, Nonblocking!Pending(w), FALSE)
    BY <1>5, <1>6, <1>8, SentInStep, Zenon
  <2> HIDE DEF w, a
  <2>3. a \in Seq(Char) /\ r \in Seq(Char) /\ Len(reply[c]) <= Len(r)
    <3>1. a \in Seq(Char)
      BY <2>1, ByteTypes
    <3>2. r \in Seq(Char) /\ Len(r) = Len(reply[c]) + Len(a) /\ Len(a) \in Nat
      BY <1>5, <3>1, ConcatProperties, LenProperties
    <3> HIDE DEF r
    <3> QED BY <1>5, <3>1, <3>2
  <2> HIDE DEF r
  <2>4. ~ spoiled'[c] => InStep(program, stale[c], sent[c], n, r, <<>>, TRUE)
    BY <2>2, InStepCut, Zenon
  <2>5. reply' = [reply EXCEPT ![c] = r] /\ conn' = conn
    BY <1>11 DEF r
  <2> QED BY <1>1, <1>2, <1>4, <1>5, <1>7, <1>11, <2>1, <2>2, <2>3, <2>4, <2>5, ServedStep, Zenon
<1> QED BY <1>4, <1>9, <1>10, <1>11

LEMMA NonblockingClient ==
    ASSUME SocketsType, EchoInv, BufferInv, HolderInv, PendingInv, program = "nonblocking",
           program' = program, NEW c \in Clients, Nonblocking!Client(c), buffer' = buffer
    PROVE  SocketsType' /\ EchoInv' /\ NonblockingInv'
<1>1. ClientMoves(c)
  BY SameClients, ShortClient
<1>2. SocketsType' /\ EchoInv'
  BY <1>1, ClientKeeps
<1>3. UNCHANGED <<program, taken, reply, pc, ready, stale, spoiled>>
  BY <1>1 DEF ClientMoves
<1>4. BufferInv'
  BY <1>3 DEF BufferInv
<1>5. /\ \A d \in Clients : conn[d] = "open" => conn'[d] = "open"
      /\ \A d \in Clients : conn'[d] \in {"idle", "backlog"} => conn[d] \in {"idle", "backlog"}
  BY <1>1 DEF ClientMoves, SocketsType
<1>6. HolderInv'
  BY <1>3, <1>5 DEF HolderInv, Holds
<1>7. \A d \in Clients : conn'[d] \in {"idle", "backlog"} => sent'[d] = sent[d]
  <2> SUFFICES ASSUME NEW d \in Clients, conn'[d] \in {"idle", "backlog"} PROVE sent'[d] = sent[d]
    OBVIOUS
  <2>1. conn[d] # "open"
    BY <1>5
  <2>2. sent' = sent \/ (conn[c] = "open" /\ \E b \in Byte : sent' = [sent EXCEPT ![c] = Append(@, b)])
    BY <1>1 DEF ClientMoves
  <2> QED BY <2>1, <2>2 DEF SocketsType
<1>8. PendingInv'
  <2>1. \A d \in Clients : conn'[d] \in {"idle", "backlog"} => sent'[d] = <<>> /\ reply[d] = <<>>
    BY <1>5, <1>7 DEF PendingInv
  <2>2. ASSUME NEW d \in Clients, ~ spoiled[d]
        PROVE  InStep(program, stale[d], sent'[d], taken[d], reply[d], <<>>, TRUE)
    <3>1. InStep(program, stale[d], sent[d], taken[d], reply[d], <<>>, TRUE)
      BY <2>2 DEF PendingInv
    <3> QED BY <1>1, <3>1, ClientInStep
  <2>3. ASSUME NEW f \in Nonblocking!Fds, NEW d \in Clients, Holds(f, d), ~ spoiled[d]
        PROVE  InStep(program, stale[d], sent'[d], taken[d], reply[d], Nonblocking!Pending(buffer[f]), FALSE)
    <3>1. InStep(program, stale[d], sent[d], taken[d], reply[d], Nonblocking!Pending(buffer[f]), FALSE)
      BY <2>3 DEF PendingInv
    <3> QED BY <1>1, <3>1, ClientInStep
  <2> QED BY <1>3, <2>1, <2>2, <2>3, Zenon DEF PendingInv, Holds
<1> QED BY <1>2, <1>4, <1>6, <1>8 DEF NonblockingInv

LEMMA NonblockingStep ==
    ASSUME SocketsType, EchoInv, NonblockingInv, NonblockingNext
    PROVE  SocketsType' /\ EchoInv' /\ NonblockingInv'
<1>1. program = "nonblocking" /\ program' = program /\ Nonblocking!Next
  BY DEF NonblockingNext, others
<1>2. BufferInv /\ HolderInv /\ PendingInv
  BY <1>1 DEF NonblockingInv
<1> QED BY <1>1, <1>2, SelectStep, NonblockingAccept, HandleStep, NonblockingClient
        DEF Nonblocking!Next, Nonblocking!Server

-----------------------------------------------------------------------------
(* The datagrams of chapter 6: unless the network copied one of a          *)
(* client's, one is under way at most, of its last line, and the client    *)
(* waits for it.                                                           *)

UnderWay == requests \cup message \cup answers

DatagramType ==
    /\ lines \in [Clients -> Seq(Lengths)]
    /\ waits \in [Clients -> BOOLEAN]
    /\ shown \in [Clients -> Seq(Nat)]
    /\ \A c \in Clients : shown[c] \in Seq(1..Len(lines[c]))
    /\ UnderWay \subseteq Datagram!Datagram
    /\ \A d \in UnderWay : d.line <= Len(lines[d.client])
    /\ \A d, e \in message : d = e
    /\ count \in Nat
    /\ running \in BOOLEAN /\ damaged \in BOOLEAN
    /\ lost \in [Clients -> BOOLEAN] /\ copied \in [Clients -> BOOLEAN]

\* Of the client c.
OneUnderWay(c) ==
    /\ \A k \in DOMAIN shown[c] : shown[c][k] = k
    /\ Len(shown[c]) = Len(lines[c]) - (IF waits[c] THEN 1 ELSE 0)
    /\ \A d \in UnderWay : d.client = c => waits[c] /\ d.line = Len(lines[c]) /\ d.copy = FALSE
    /\ \A d \in requests : d.client = c => d \notin message /\ d \notin answers
    /\ \A d \in message : d.client = c => d \notin answers

DatagramInv ==
    program # "connected" =>
        DatagramType /\ \A c \in Clients : ~ copied[c] => OneUnderWay(c)

LEMMA TheSame ==
    ASSUME DatagramType, NEW c \in Clients, OneUnderWay(c), NEW d \in UnderWay, NEW e \in UnderWay,
           d.client = c, e.client = c
    PROVE  d = e
<1>1. d \in Datagram!Datagram /\ e \in Datagram!Datagram
  BY DEF DatagramType
<1>2. d.line = e.line /\ d.copy = e.copy
  BY DEF OneUnderWay
<1> QED BY <1>1, <1>2 DEF Datagram!Datagram

LEMMA DatagramSend ==
    ASSUME DatagramType, \A c \in Clients : ~ copied[c] => OneUnderWay(c),
           NEW c \in Clients, Datagram!sendto(c)
    PROVE  DatagramType' /\ \A b \in Clients : ~ copied'[b] => OneUnderWay(b)'
<1> DEFINE d == [client |-> c, line |-> Len(lines[c]) + 1, copy |-> FALSE]
<1>1. PICK n \in Lengths : lines' = [lines EXCEPT ![c] = Append(@, n)]
  BY DEF Datagram!sendto
<1>2. /\ ~ waits[c] /\ waits' = [waits EXCEPT ![c] = TRUE]
      /\ requests' = requests \cup {[client |-> c, line |-> Len(lines'[c]), copy |-> FALSE]}
      /\ UNCHANGED <<shown, answers, message, count, running, damaged, lost, copied>>
  BY DEF Datagram!sendto, Datagram!serverVars
<1> DEFINE s == Append(lines[c], n)
<1>3. s \in Seq(Lengths) /\ Len(s) = Len(lines[c]) + 1 /\ Len(lines[c]) \in Nat
  BY AppendProperties, LenProperties DEF DatagramType
<1>4. /\ lines' \in [Clients -> Seq(Lengths)] /\ lines'[c] = s
      /\ \A b \in Clients : b # c => lines'[b] = lines[b]
  <2>1. lines \in [Clients -> Seq(Lengths)] /\ s \in Seq(Lengths) /\ lines' = [lines EXCEPT ![c] = s]
    BY <1>1, <1>3 DEF DatagramType
  <2> HIDE DEF s
  <2> QED BY <2>1
<1> HIDE DEF s
<1>5. /\ requests' = requests \cup {d} /\ UnderWay' = UnderWay \cup {d}
      /\ d \in Datagram!Datagram /\ d.line = Len(lines'[c]) /\ d.client = c /\ d.copy = FALSE
  BY <1>2, <1>3, <1>4 DEF UnderWay, Datagram!Datagram
<1>6. /\ \A b \in Clients : Len(lines[b]) \in Nat /\ Len(lines'[b]) \in Nat
                            /\ Len(lines[b]) <= Len(lines'[b])
  <2>1. \A b \in Clients : Len(lines[b]) \in Nat
    BY LenProperties DEF DatagramType
  <2> QED BY <1>3, <1>4, <2>1
<1> HIDE DEF d
<1>7. DatagramType'
  <2>1. ASSUME NEW b \in Clients PROVE shown[b] \in Seq(1..Len(lines'[b]))
    <3>1. 1..Len(lines[b]) \subseteq 1..Len(lines'[b]) /\ shown[b] \in Seq(1..Len(lines[b]))
      BY <1>6 DEF DatagramType
    <3> QED BY <3>1, SeqMonotonic
  <2>2. waits' \in [Clients -> BOOLEAN]
    BY <1>2 DEF DatagramType
  <2>3. UnderWay' \subseteq Datagram!Datagram
    BY <1>5 DEF DatagramType
  <2>4. ASSUME NEW e \in UnderWay' PROVE e.line <= Len(lines'[e.client])
    <3>1. CASE e = d
      BY <1>5, <1>6, <3>1
    <3>2. CASE e \in UnderWay
      <4>1. /\ e.client \in Clients /\ e.line \in Nat /\ e.line <= Len(lines[e.client])
        BY <3>2 DEF DatagramType, Datagram!Datagram
      <4> QED BY <1>6, <4>1
    <3> QED BY <1>5, <2>4, <3>1, <3>2
  <2> QED BY <1>2, <1>4, <2>1, <2>2, <2>3, <2>4 DEF DatagramType
<1>8. ASSUME NEW b \in Clients, ~ copied[b] PROVE OneUnderWay(b)'
  <2>1. OneUnderWay(b)
    BY <1>8
  <2>2. CASE b # c
    <3>1. lines'[b] = lines[b] /\ waits'[b] = waits[b]
      BY <1>2, <1>4, <2>2 DEF DatagramType
    <3> QED BY <1>2, <1>5, <2>1, <2>2, <3>1 DEF OneUnderWay
  <2>3. CASE b = c
    <3>1. \A e \in UnderWay : e.client # c
      BY <1>2, <2>1, <2>3 DEF OneUnderWay
    <3>2. waits'[c] = TRUE /\ Len(lines'[c]) = Len(lines[c]) + 1 /\ Len(shown[c]) = Len(lines[c])
      BY <1>2, <1>3, <1>4, <2>1, <2>3 DEF OneUnderWay, DatagramType
    <3>3. d \notin message /\ d \notin answers
      BY <1>5, <3>1 DEF UnderWay
    <3>4. Len(shown[c]) = Len(lines'[c]) - (IF waits'[c] THEN 1 ELSE 0)
      <4>1. (IF waits'[c] THEN 1 ELSE 0) = 1
        BY <3>2, Zenon
      <4>2. Len(shown[c]) = (Len(lines[c]) + 1) - 1
        BY <1>3, <3>2
      <4> QED BY <3>2, <4>1, <4>2, Zenon
    <3>5. \A k \in DOMAIN shown'[b] : shown'[b][k] = k
      BY <1>2, <2>1 DEF OneUnderWay
    <3>6. \A e \in UnderWay' : e.client = c => e = d
      BY <1>5, <3>1
    <3>7. requests \subseteq UnderWay /\ message \subseteq UnderWay
      BY DEF UnderWay
    <3> QED BY <1>2, <1>5, <2>3, <3>1, <3>2, <3>3, <3>4, <3>5, <3>6, <3>7 DEF OneUnderWay
  <2> QED BY <2>2, <2>3
<1> QED BY <1>2, <1>7, <1>8

LEMMA DatagramReceive ==
    ASSUME DatagramType, \A c \in Clients : ~ copied[c] => OneUnderWay(c),
           NEW c \in Clients, Datagram!recvfrom(c)
    PROVE  DatagramType' /\ \A b \in Clients : ~ copied'[b] => OneUnderWay(b)'
<1>1. PICK d \in answers : /\ d.client = c /\ answers' = answers \ {d}
                           /\ shown' = [shown EXCEPT ![c] = Append(@, d.line)]
  BY DEF Datagram!recvfrom
<1>2. /\ waits[c] /\ waits' = [waits EXCEPT ![c] = FALSE]
      /\ UNCHANGED <<lines, requests, message, count, running, damaged, lost, copied>>
  BY DEF Datagram!recvfrom, Datagram!serverVars
<1> DEFINE s == Append(shown[c], d.line)
<1>3. /\ d \in UnderWay /\ d.line \in Nat /\ d.line \in 1..Len(lines[c]) /\ Len(lines[c]) \in Nat
      /\ shown[c] \in Seq(Nat) /\ shown[c] \in Seq(1..Len(lines[c])) /\ Len(shown[c]) \in Nat
  <2>1. d \in UnderWay
    BY DEF UnderWay
  <2>2. d.line \in Nat \ {0} /\ d.line <= Len(lines[c]) /\ Len(lines[c]) \in Nat
    BY <1>1, <2>1, LenProperties DEF DatagramType, Datagram!Datagram
  <2>3. shown[c] \in Seq(Nat) /\ shown[c] \in Seq(1..Len(lines[c])) /\ Len(shown[c]) \in Nat
    BY LenProperties DEF DatagramType
  <2> QED BY <2>1, <2>2, <2>3
<1>4. /\ s \in Seq(Nat) /\ s \in Seq(1..Len(lines[c])) /\ Len(s) = Len(shown[c]) + 1
      /\ DOMAIN s = 1..Len(shown[c]) + 1 /\ DOMAIN shown[c] = 1..Len(shown[c])
      /\ \A k \in 1..Len(shown[c]) : s[k] = shown[c][k]
      /\ s[Len(shown[c]) + 1] = d.line
  BY <1>3, AppendProperties, LenProperties
<1>5. /\ shown' \in [Clients -> Seq(Nat)] /\ shown'[c] = s
      /\ \A b \in Clients : b # c => shown'[b] = shown[b]
  <2>1. shown \in [Clients -> Seq(Nat)] /\ s \in Seq(Nat) /\ shown' = [shown EXCEPT ![c] = s]
    BY <1>1, <1>4 DEF DatagramType
  <2> HIDE DEF s
  <2> QED BY <2>1
<1> HIDE DEF s
<1>6. UnderWay' \subseteq UnderWay /\ answers' \subseteq answers
  BY <1>1, <1>2 DEF UnderWay
<1>7. DatagramType'
  <2>1. \A b \in Clients : shown'[b] \in Seq(1..Len(lines[b]))
    BY <1>4, <1>5 DEF DatagramType
  <2>2. waits' \in [Clients -> BOOLEAN]
    BY <1>2 DEF DatagramType
  <2> QED BY <1>2, <1>5, <1>6, <2>1, <2>2 DEF DatagramType
<1>8. ASSUME NEW b \in Clients, ~ copied[b] PROVE OneUnderWay(b)'
  <2>1. OneUnderWay(b)
    BY <1>8
  <2>2. CASE b # c
    <3>1. shown'[b] = shown[b] /\ waits'[b] = waits[b]
      BY <1>2, <1>5, <2>2 DEF DatagramType
    <3> QED BY <1>2, <1>6, <2>1, <2>2, <3>1 DEF OneUnderWay
  <2>3. CASE b = c
    <3>1. /\ d.line = Len(lines[c]) /\ Len(shown[c]) = Len(lines[c]) - 1
          /\ \A k \in DOMAIN shown[c] : shown[c][k] = k
      BY <1>1, <1>2, <1>3, <2>1, <2>3 DEF OneUnderWay
    <3>2. ASSUME NEW k \in DOMAIN s PROVE s[k] = k
      <4>1. k \in 1..Len(shown[c]) \/ (k = Len(shown[c]) + 1 /\ Len(shown[c]) + 1 = Len(lines[c]))
        <5>1. k \in 1..Len(shown[c]) + 1
          BY <1>4, <3>2, Zenon
        <5>2. Len(shown[c]) \in Nat /\ Len(lines[c]) \in Nat /\ Len(shown[c]) = Len(lines[c]) - 1
          BY <1>3, <3>1, Zenon
        <5> QED BY ONLY <5>1, <5>2
      <4> QED BY <1>4, <3>1, <4>1, Zenon
    <3>3. \A e \in UnderWay' : e.client # c
      <4>1. ASSUME NEW e \in UnderWay', e.client = c PROVE FALSE
        <5>1. e \in UnderWay /\ e = d
          BY <1>1, <1>3, <1>6, <2>1, <2>3, <4>1, TheSame
        <5>2. d \notin requests /\ d \notin message
          BY <1>1, <2>1, <2>3 DEF OneUnderWay
        <5> QED BY <1>1, <1>2, <4>1, <5>1, <5>2 DEF UnderWay
      <4> QED BY <4>1
    <3>4. waits'[c] = FALSE /\ Len(s) = Len(lines[c])
      BY <1>2, <1>3, <1>4, <3>1 DEF DatagramType
    <3>5. /\ \A e \in requests' : e.client # c
          /\ \A e \in message' : e.client # c
      BY <3>3 DEF UnderWay
    <3>6. Len(s) = Len(lines[c]) - (IF waits'[c] THEN 1 ELSE 0)
      <4>1. (IF waits'[c] THEN 1 ELSE 0) = 0
        BY <3>4, Zenon
      <4>2. Len(lines[c]) = Len(lines[c]) - 0
        BY <1>3
      <4> QED BY <3>4, <4>1, <4>2, Zenon
    <3> QED BY <1>2, <1>5, <2>3, <3>2, <3>3, <3>5, <3>6 DEF OneUnderWay
  <2> QED BY <2>2, <2>3
<1> QED BY <1>2, <1>7, <1>8

\* The server, and the network that loses datagrams.
LEMMA DatagramServer1 ==
    ASSUME DatagramType, \A c \in Clients : ~ copied[c] => OneUnderWay(c),
           \/ Datagram!receive \/ Datagram!answer \/ Datagram!recvfrom_int
           \/ \E d \in requests \cup answers : Datagram!Lose(d)
    PROVE  DatagramType' /\ \A b \in Clients : ~ copied'[b] => OneUnderWay(b)'
<1>1. UNCHANGED <<lines, waits, shown, copied>>
  BY DEF Datagram!receive, Datagram!answer, Datagram!recvfrom_int, Datagram!Lose,
      Datagram!clientVars
<1>2. UnderWay' \subseteq UnderWay
  BY DEF Datagram!receive, Datagram!answer, Datagram!recvfrom_int, Datagram!Lose, UnderWay,
      Datagram!serverVars
<1>3. /\ \A d, e \in message' : d = e
      /\ requests' \subseteq requests
      /\ \/ message' = {} /\ answers' \subseteq answers \cup message
         \/ message' = message /\ answers' \subseteq answers
         \/ /\ answers' = answers
            /\ \E d \in requests : message' = {d} /\ requests' = requests \ {d}
  BY DEF Datagram!receive, Datagram!answer, Datagram!recvfrom_int, Datagram!Lose,
      Datagram!serverVars, DatagramType
<1>4. DatagramType'
  <2>1. lost' \in [Clients -> BOOLEAN]
    BY DEF Datagram!receive, Datagram!answer, Datagram!recvfrom_int, Datagram!Lose, DatagramType
  <2>2. count' \in Nat
    BY DEF Datagram!receive, Datagram!answer, Datagram!recvfrom_int, Datagram!Lose,
        Datagram!serverVars, DatagramType
  <2>3. running' \in BOOLEAN /\ damaged' \in BOOLEAN
    BY DEF Datagram!receive, Datagram!answer, Datagram!recvfrom_int, Datagram!Lose,
        Datagram!serverVars, DatagramType
  <2> QED BY <1>1, <1>2, <1>3, <2>1, <2>2, <2>3 DEF DatagramType
<1>5. ASSUME NEW b \in Clients, ~ copied[b] PROVE OneUnderWay(b)'
  <2>1. OneUnderWay(b)
    BY <1>5
  <2>2. \A d \in requests' : d.client = b => d \notin message' /\ d \notin answers'
    BY <1>3, <2>1 DEF OneUnderWay
  <2>3. \A d \in message' : d.client = b => d \notin answers'
    BY <1>3, <2>1 DEF OneUnderWay
  <2> QED BY <1>1, <1>2, <2>1, <2>2, <2>3 DEF OneUnderWay
<1> QED BY <1>1, <1>4, <1>5

LEMMA DatagramCopy ==
    ASSUME DatagramType, \A c \in Clients : ~ copied[c] => OneUnderWay(c),
           NEW d \in requests \cup answers, Datagram!Copy(d)
    PROVE  DatagramType' /\ \A b \in Clients : ~ copied'[b] => OneUnderWay(b)'
<1> DEFINE e == [d EXCEPT !.copy = TRUE]
<1>1. /\ d \in UnderWay /\ d \in Datagram!Datagram /\ e \in Datagram!Datagram
      /\ e.client = d.client /\ e.line = d.line /\ d.client \in Clients
  BY DEF UnderWay, DatagramType, Datagram!Datagram
<1>2. /\ UNCHANGED <<lines, waits, shown, message, count, running, damaged, lost>>
      /\ copied' = [copied EXCEPT ![d.client] = TRUE]
      /\ \/ requests' = requests \cup {d, e} /\ answers' = answers /\ d \in requests
         \/ answers' = answers \cup {d, e} /\ requests' = requests /\ d \in answers
  BY DEF Datagram!Copy, Datagram!clientVars, Datagram!serverVars
<1> HIDE DEF e
<1>3. UnderWay' = UnderWay \cup {e}
  BY <1>2 DEF UnderWay
<1>4. DatagramType'
  <2>1. copied' \in [Clients -> BOOLEAN]
    BY <1>2 DEF DatagramType
  <2>2. \A f \in UnderWay' : f.line <= Len(lines[f.client])
    BY <1>1, <1>3 DEF DatagramType
  <2> QED BY <1>1, <1>2, <1>3, <2>1, <2>2 DEF DatagramType
<1>5. ASSUME NEW b \in Clients, ~ copied'[b] PROVE OneUnderWay(b)'
  <2>1. b # d.client /\ ~ copied[b]
    BY <1>1, <1>2, <1>5 DEF DatagramType
  <2>2. OneUnderWay(b)
    BY <2>1
  <2>3. \A f \in requests' : f.client = b => f \in requests
    BY <1>1, <1>2, <2>1
  <2>4. \A f \in answers' : f.client = b => f \in answers
    BY <1>1, <1>2, <2>1
  <2>5. \A f \in UnderWay' : f.client = b => f \in UnderWay
    BY <1>1, <1>3, <2>1
  <2> QED BY <1>2, <2>2, <2>3, <2>4, <2>5 DEF OneUnderWay
<1> QED BY <1>4, <1>5

LEMMA DatagramStep == ASSUME DatagramInv, DatagramsNext PROVE DatagramInv'
<1>1. program = "datagrams" /\ program' = program /\ Datagram!Next
  BY DEF DatagramsNext
<1>2. DatagramType /\ \A c \in Clients : ~ copied[c] => OneUnderWay(c)
  BY <1>1 DEF DatagramInv
<1>3. DatagramType' /\ \A b \in Clients : ~ copied'[b] => OneUnderWay(b)'
  BY <1>1, <1>2, DatagramSend, DatagramReceive, DatagramServer1, DatagramCopy
      DEF Datagram!Next, Datagram!Server
<1> QED BY <1>3, Zenon DEF DatagramInv

LEMMA DatagramFirst == ASSUME Datagram!Init PROVE DatagramInv
<1>1. /\ lines = [c \in Clients |-> <<>>] /\ shown = lines /\ waits = [c \in Clients |-> FALSE]
      /\ UnderWay = {} /\ requests = {} /\ message = {} /\ lost = waits /\ copied = waits
      /\ count = 0 /\ running = TRUE /\ damaged = FALSE
  BY DEF Datagram!Init, UnderWay
<1>2. DatagramType
  <2>1. \A S : <<>> \in Seq(S)
    BY EmptySeq
  <2> QED BY <1>1, <2>1 DEF DatagramType
<1>3. ASSUME NEW c \in Clients PROVE OneUnderWay(c)
  <2>1. lines[c] = <<>> /\ shown[c] = <<>> /\ waits[c] = FALSE
    BY <1>1
  <2>2. Len(<<>>) = 0 /\ DOMAIN <<>> = {}
    BY EmptySeq
  <2>3. Len(shown[c]) = Len(lines[c]) - (IF waits[c] THEN 1 ELSE 0)
    BY <2>1, <2>2
  <2> QED BY <1>1, <2>1, <2>2, <2>3 DEF OneUnderWay
<1> QED BY <1>2, <1>3 DEF DatagramInv

-----------------------------------------------------------------------------
(* The datagrams of chapter 14: as long as the server heard one client     *)
(* only, one datagram of each is somewhere between the client, the socket  *)
(* and the array at most, and what is in the array is of that client.      *)

CByte == [client : Clients, line : Nat]

\* The line k of c, of n bytes, and a text that begins with it.
LineText(c, k, n) == [i \in 1..n |-> [client |-> c, line |-> k]]
Begins(text, c, k, n) ==
    /\ n <= Len(text) /\ SubSeq(text, 1, n) = LineText(c, k, n)
    /\ \A i \in n + 1..Len(text) : text[i].client = c /\ text[i].line < k

ConnectedType ==
    /\ lines \in [Clients -> Seq([length : Lengths, goodbye : BOOLEAN])]
    /\ waits \in [Clients -> {"no", "recv", "ended"}]
    /\ shown \in [Clients -> Seq(Seq(CByte))]
    /\ requests \subseteq CByte
    /\ \A d \in requests : d.line \in 1..Len(lines[d.client])
    /\ \A a \in answers : a.client \in peer /\ a.number \in Nat /\ a.text \in Seq(CByte)
    /\ message \in Seq(CByte)
    /\ queue \in Seq(CByte)
    /\ \A k \in 1..Len(queue) : queue[k].line \in 1..Len(lines[queue[k].client])
    /\ peer \subseteq Clients /\ \A c, d \in peer : c = d
    /\ unanswered \subseteq peer
    /\ count \in Nat
    /\ running \in BOOLEAN /\ damaged \in BOOLEAN /\ mixed \in BOOLEAN
    /\ lost \in [Clients -> BOOLEAN]

Requested(c) == \E d \in requests : d.client = c
InSocket(c) == \E k \in 1..Len(queue) : queue[k].client = c
Replied(c) == \E a \in answers : a.client = c
LastLine(c) == Len(lines[c])

\* Of the client c.
OnePlace(c) ==
    /\ Len(shown[c]) = LastLine(c) - (IF waits[c] = "no" THEN 0 ELSE 1)
    /\ Requested(c) \/ InSocket(c) \/ c \in unanswered \/ Replied(c) => waits[c] = "recv"
    /\ \A d \in requests : d.client = c => d.line = LastLine(c)
    /\ \A k \in 1..Len(queue) : queue[k].client = c => queue[k].line = LastLine(c)
    /\ Requested(c) => ~ InSocket(c) /\ c \notin unanswered /\ ~ Replied(c)
    /\ InSocket(c) => c \notin unanswered /\ ~ Replied(c)
    /\ c \in unanswered => ~ Replied(c)
    /\ \A j, k \in 1..Len(queue) : queue[j].client = c /\ queue[k].client = c => j = k
    /\ \A a, b \in answers : a.client = c /\ b.client = c => a = b

OwnText(c) ==
    /\ \A k \in 1..Len(shown[c]) : Begins(shown[c][k], c, k, lines[c][k].length)
    /\ \A a \in answers :
          a.client = c => Begins(a.text, c, LastLine(c), lines[c][LastLine(c)].length)
    /\ c \in peer =>
        /\ \A i \in 1..Len(message) : message[i].client = c /\ message[i].line <= LastLine(c)
        /\ Requested(c) \/ InSocket(c) => \A i \in 1..Len(message) : message[i].line < LastLine(c)
    /\ c \in unanswered => Begins(message, c, LastLine(c), lines[c][LastLine(c)].length)

ConnectedInv ==
    program = "connected" =>
        ConnectedType /\ (~ mixed => \A c \in Clients : OnePlace(c) /\ OwnText(c))

LEMMA LinesType ==
    ASSUME ConnectedType, NEW c \in Clients
    PROVE  /\ lines[c] \in Seq([length : Lengths, goodbye : BOOLEAN]) /\ Len(lines[c]) \in Nat
           /\ \A k \in 1..Len(lines[c]) : lines[c][k].length \in Nat /\ lines[c][k].goodbye \in BOOLEAN
<1>1. lines[c] \in Seq([length : Lengths, goodbye : BOOLEAN])
  BY DEF ConnectedType
<1>2. Len(lines[c]) \in Nat /\ \A k \in 1..Len(lines[c]) : lines[c][k] \in [length : Lengths, goodbye : BOOLEAN]
  BY <1>1, LenProperties, ElementOfSeq
<1>3. Lengths \subseteq Nat
  BY OthersAssumption DEF Datagram!LengthsAssumption
<1> QED BY <1>1, <1>2, <1>3

LEMMA LineTextType ==
    ASSUME NEW c \in Clients, NEW k \in Nat, NEW n \in Nat
    PROVE  /\ LineText(c, k, n) \in Seq(CByte) /\ Len(LineText(c, k, n)) = n
           /\ \A i \in 1..n : LineText(c, k, n)[i].client = c /\ LineText(c, k, n)[i].line = k
           /\ Begins(LineText(c, k, n), c, k, n)
<1> DEFINE t == LineText(c, k, n)
<1>1. t = [i \in 1..n |-> [client |-> c, line |-> k]]
  BY DEF LineText
<1>2. t \in [1..n -> CByte] /\ \A i \in 1..n : t[i].client = c /\ t[i].line = k
  BY <1>1 DEF CByte
<1> HIDE DEF t
<1>3. t \in Seq(CByte) /\ Len(t) = n
  BY <1>2, IsASeq, LenProperties
<1>4. SubSeq(t, 1, n) = t
  BY <1>3, SubSeqFull
<1>5. n <= n /\ n + 1..n = {}
  OBVIOUS
<1>6. Begins(t, c, k, n)
  BY <1>3, <1>4, <1>5 DEF Begins, t
<1> QED BY <1>2, <1>3, <1>6 DEF t

\* What was received last is in front of what is left of the earlier lines.
LEMMA OverwrittenText ==
    ASSUME NEW c \in Clients, NEW k \in Nat \ {0}, NEW n \in Nat, message \in Seq(CByte),
           NEW w \in Connected!Overwritten(LineText(c, k, n))
    PROVE  /\ w \in Seq(CByte)
           /\ (\A i \in 1..Len(message) : message[i].client = c /\ message[i].line < k) =>
                 /\ Begins(w, c, k, n)
                 /\ \A i \in 1..Len(w) : w[i].client = c /\ w[i].line <= k
<1> DEFINE t == LineText(c, k, n)
           old == \A i \in 1..Len(message) : message[i].client = c /\ message[i].line < k
<1>1. /\ t \in Seq(CByte) /\ Len(t) = n /\ Begins(t, c, k, n)
      /\ \A i \in 1..n : t[i].client = c /\ t[i].line = k
  <2>1. k \in Nat
    OBVIOUS
  <2> QED BY <2>1, LineTextType
<1>2. Len(message) \in Nat
  BY LenProperties
<1>3. CASE n > Len(message) /\ w = t
  BY <1>1, <1>3 DEF t
<1>4. CASE n > Len(message) /\ w = Append(t, [t[1] EXCEPT !.line = 0])
  <2> DEFINE x == [t[1] EXCEPT !.line = 0]
  <2>1. x \in CByte /\ x.client = c /\ x.line = 0
    <3>1. t[1] \in CByte /\ t[1].client = c
      BY <1>1, <1>2, <1>4, ElementOfSeq
    <3> QED BY <3>1 DEF CByte
  <2>2. w = Append(t, x)
    BY <1>4
  <2> HIDE DEF x, t
  <2>3. /\ w \in Seq(CByte) /\ Len(w) = n + 1
        /\ \A i \in 1..n : w[i] = t[i]
        /\ w[n + 1] = x
    BY <1>1, <2>1, <2>2, AppendProperties
  <2>4. SubSeq(w, 1, n) = t
    <3>1. n \in 0..Len(t)
      BY <1>1
    <3>2. SubSeq(w, 1, n) = SubSeq(t, 1, n)
      BY <1>1, <2>1, <2>2, <3>1, FrontOfAppend
    <3>3. SubSeq(t, 1, n) = t
      BY <1>1, SubSeqFull
    <3> QED BY <3>2, <3>3
  <2>5. Begins(w, c, k, n)
    <3>1. \A i \in n + 1..Len(w) : i = n + 1
      BY <2>3
    <3>2. 0 < k /\ n <= Len(w)
      BY <2>3
    <3> QED BY <2>1, <2>3, <2>4, <3>1, <3>2 DEF Begins, t
  <2>6. \A i \in 1..Len(w) : w[i].client = c /\ w[i].line <= k
    <3>1. \A i \in 1..Len(w) : i \in 1..n \/ i = n + 1
      BY <2>3
    <3> QED BY <1>1, <2>1, <2>3, <3>1
  <2> QED BY <2>3, <2>5, <2>6
<1>5. CASE n <= Len(message) /\ w = t \o SubSeq(message, n + 1, Len(message))
  <2> DEFINE r == SubSeq(message, n + 1, Len(message))
  <2>1. /\ r \in Seq(CByte) /\ Len(r) = Len(message) - n
        /\ \A i \in 1..Len(r) : r[i] = message[n + i]
    <3>1. n \in 0..Len(message) /\ Len(message) \in n..Len(message)
      BY <1>2, <1>5
    <3> QED BY <3>1, SplitRest, SplitAt, SMTT(20)
  <2>2. w = t \o r
    BY <1>5
  <2> HIDE DEF r, t
  <2>3. /\ w \in Seq(CByte) /\ Len(w) = n + Len(r) /\ Len(r) \in Nat
        /\ \A i \in 1..n + Len(r) : w[i] = IF i <= n THEN t[i] ELSE r[i - n]
    BY <1>1, <2>1, <2>2, ConcatProperties, LenProperties
  <2>4. SubSeq(w, 1, n) = t
    <3> DEFINE p == SubSeq(w, 1, n)  q == SubSeq(w, n + 1, Len(w))
    <3>1. p \in Seq(CByte) /\ q \in Seq(CByte) /\ p \o q = w /\ Len(p) = n
      <4>1. n \in 0..Len(w)
        BY <2>3
      <4> QED BY <2>3, <4>1, SplitAt
    <3> HIDE DEF p, q
    <3>2. p = t
      BY <1>1, <2>1, <2>2, <3>1, SameSplit
    <3> QED BY <3>2 DEF p
  <2>5. ASSUME old, NEW i \in n + 1..Len(w) PROVE w[i].client = c /\ w[i].line < k
    <3>1. i - n \in 1..Len(r) /\ ~ i <= n /\ i \in 1..n + Len(r) /\ n + (i - n) = i
          /\ i \in 1..Len(message)
      BY <1>2, <1>5, <2>1, <2>3, <2>5
    <3>2. w[i] = message[i]
      BY <2>1, <2>3, <3>1
    <3> QED BY <2>5, <3>1, <3>2
  <2>6. ASSUME old, NEW i \in 1..Len(w) PROVE w[i].client = c /\ w[i].line <= k
    <3>1. CASE i \in 1..n
      <4>1. w[i] = t[i]
        BY <2>3, <3>1
      <4> QED BY <1>1, <3>1, <4>1
    <3>2. CASE i \in n + 1..Len(w)
      <4>1. i \in 1..Len(message) /\ w[i] = message[i]
        <5>1. i - n \in 1..Len(r) /\ ~ i <= n /\ i \in 1..n + Len(r) /\ n + (i - n) = i
              /\ i \in 1..Len(message)
          BY <1>2, <1>5, <2>1, <2>3, <3>2
        <5> QED BY <2>1, <2>3, <5>1
      <4>2. message[i] \in CByte
        BY <4>1, ElementOfSeq
      <4>3. message[i].line \in Nat /\ message[i].line < k
        BY <2>6, <4>1, <4>2 DEF CByte
      <4> QED BY <2>5, <2>6, <3>2, <4>1, <4>3
    <3> QED BY <2>3, <3>1, <3>2
  <2>7. n <= Len(w)
    BY <2>3
  <2> QED BY <2>3, <2>4, <2>5, <2>6, <2>7 DEF Begins, t
<1>6. w \in IF Len(t) > Len(message)
           THEN {t, Append(t, [t[1] EXCEPT !.line = 0])}
           ELSE {t \o SubSeq(message, Len(t) + 1, Len(message))}
  BY DEF Connected!Overwritten
<1> DEFINE a == Append(t, [t[1] EXCEPT !.line = 0])
           b == t \o SubSeq(message, n + 1, Len(message))
<1>7. \/ n > Len(message) /\ w = t
      \/ n > Len(message) /\ w = a
      \/ ~ n > Len(message) /\ w = b
  <2>1. Len(t) = n
    BY <1>1
  <2> HIDE DEF t
  <2> QED BY <2>1, <1>6, Zenon
<1>8. ~ n > Len(message) => n <= Len(message)
  BY <1>2
<1> QED BY <1>3, <1>4, <1>5, <1>7, <1>8, Zenon

\* What the steps below show, of the parts that ConnectedInv has.
Unmixed == ~ mixed => \A b \in Clients : OnePlace(b) /\ OwnText(b)

LEMMA SendtoStep ==
    ASSUME ConnectedType, Unmixed, NEW c \in Clients, Connected!sendto(c)
    PROVE  ConnectedType' /\ Unmixed'
<1>1. PICK n \in Lengths, goodbye \in BOOLEAN :
          lines' = [lines EXCEPT ![c] = Append(@, [length |-> n, goodbye |-> goodbye])]
  BY DEF Connected!sendto
<1> DEFINE S == [length : Lengths, goodbye : BOOLEAN]
           x == [length |-> n, goodbye |-> goodbye]
<1>2. x \in S
  OBVIOUS
<1>3. lines' = [lines EXCEPT ![c] = Append(lines[c], x)] /\ lines \in [Clients -> Seq(S)]
  BY <1>1 DEF ConnectedType
<1> HIDE DEF S, x
<1>4. lines' \in [Clients -> Seq(S)] /\ lines'[c] = Append(lines[c], x)
      /\ \A b \in Clients \ {c} : lines'[b] = lines[b]
  <2>1. Append(lines[c], x) \in Seq(S)
    BY <1>2, <1>3, AppendProperties
  <2> QED BY <1>3, <2>1
<1>5. /\ Len(lines[c]) \in Nat /\ Len(lines'[c]) = Len(lines[c]) + 1
      /\ \A k \in 1..Len(lines[c]) : lines'[c][k] = lines[c][k]
  <2>1. lines[c] \in Seq(S)
    BY <1>3
  <2> QED BY <1>2, <1>4, <2>1, AppendProperties, LenProperties
<1> DEFINE d == [client |-> c, line |-> Len(lines'[c])]
<1>6. requests' = requests \cup {d} /\ waits[c] = "no" /\ waits' = [waits EXCEPT ![c] = "recv"]
      /\ UNCHANGED <<shown, answers, message, unanswered, queue, peer, count, running, damaged, mixed, lost>>
  BY DEF Connected!sendto, Connected!serverVars
<1>7. d \in CByte /\ d.client = c /\ d.line = Len(lines[c]) + 1
  BY <1>5 DEF CByte
<1> HIDE DEF d
<1>8. \A b \in Clients : Len(lines[b]) \in Nat
  BY LinesType
<1>9. waits'[c] = "recv" /\ \A b \in Clients \ {c} : waits'[b] = waits[b]
  BY <1>6 DEF ConnectedType
<1>10. ConnectedType'
  <2>1. lines' \in [Clients -> Seq([length : Lengths, goodbye : BOOLEAN])]
    BY <1>4 DEF S
  <2>2. waits' \in [Clients -> {"no", "recv", "ended"}]
    BY <1>6 DEF ConnectedType
  <2>3. requests' \subseteq CByte /\ \A e \in requests' : e.line \in 1..Len(lines'[e.client])
    <3>1. ASSUME NEW e \in requests PROVE e \in CByte /\ e.line \in 1..Len(lines'[e.client])
      <4>1. e \in CByte /\ e.client \in Clients /\ e.line \in 1..Len(lines[e.client])
        BY <3>1 DEF ConnectedType, CByte
      <4> QED BY <1>4, <1>5, <4>1
    <3>2. d.line \in 1..Len(lines'[d.client])
      BY <1>5, <1>7
    <3> QED BY <1>6, <1>7, <3>1, <3>2
  <2>4. \A k \in 1..Len(queue) : queue[k].line \in 1..Len(lines'[queue[k].client])
    <3>1. ASSUME NEW k \in 1..Len(queue) PROVE queue[k].line \in 1..Len(lines'[queue[k].client])
      <4>1. queue \in Seq(CByte) /\ queue[k].line \in 1..Len(lines[queue[k].client])
        BY <3>1 DEF ConnectedType
      <4>2. queue[k] \in CByte
        BY <4>1, <3>1, ElementOfSeq
      <4>3. queue[k].client \in Clients
        BY <4>2 DEF CByte
      <4> QED BY <1>4, <1>5, <4>1, <4>3, SMTT(20)
    <3> QED BY <3>1
  <2> QED BY <2>1, <2>2, <2>3, <2>4, <1>6 DEF ConnectedType
<1>11. ASSUME ~ mixed, NEW b \in Clients PROVE OnePlace(b)' /\ OwnText(b)'
  <2>1. OnePlace(b) /\ OwnText(b) /\ OnePlace(c) /\ OwnText(c)
    BY <1>11 DEF Unmixed
  <2>2. CASE b # c
    <3>1. lines'[b] = lines[b] /\ waits'[b] = waits[b] /\ \A e \in requests' : e.client = b => e \in requests
      BY <1>4, <1>6, <1>7, <1>9, <2>2
    <3>2. OnePlace(b)'
      BY <1>6, <2>1, <3>1 DEF OnePlace, Requested, InSocket, Replied, LastLine
    <3>3. OwnText(b)'
      BY <1>6, <2>1, <3>1 DEF OwnText, Requested, InSocket, LastLine
    <3> QED BY <3>2, <3>3
  <2>3. CASE b = c
    <3>1. ~ Requested(c) /\ ~ InSocket(c) /\ c \notin unanswered /\ ~ Replied(c)
          /\ Len(shown[c]) = Len(lines[c])
      BY <1>5, <1>6, <2>1 DEF OnePlace, LastLine
    <3>2. \A e \in requests' : e.client = c => e = d
      BY <1>6, <3>1 DEF Requested
    <3>5. ~ InSocket(c)' /\ c \notin unanswered' /\ ~ Replied(c)'
      BY <1>6, <3>1 DEF InSocket, Replied
    <3>6. Len(shown'[c]) = Len(lines'[c]) - (IF waits'[c] = "no" THEN 0 ELSE 1)
      <4>1. Len(shown'[c]) = Len(lines[c])
        BY <1>6, <3>1
      <4>2. Len(shown'[c]) = Len(lines'[c]) - 1
        BY <1>5, <4>1
      <4> QED BY <1>9, <4>2, Zenon
    <3>7. \A e \in requests' : e.client = c => e.line = Len(lines'[c])
      BY <1>5, <1>7, <3>2
    <3>3. OnePlace(c)'
      BY <1>9, <3>5, <3>6, <3>7 DEF OnePlace, InSocket, Replied, LastLine
    <3>4. OwnText(c)'
      <4>1. \A k \in 1..Len(shown'[c]) : Begins(shown'[c][k], c, k, lines'[c][k].length)
        BY <1>5, <1>6, <2>1, <3>1 DEF OwnText
      <4>2. c \in peer' => \A i \in 1..Len(message') :
              message'[i].client = c /\ message'[i].line < Len(lines'[c]) /\ message'[i].line <= Len(lines'[c])
        <5>1. ASSUME c \in peer, NEW i \in 1..Len(message)
              PROVE  message[i].client = c /\ message[i].line < Len(lines'[c]) /\ message[i].line <= Len(lines'[c])
          <6>1. message[i] \in CByte
            BY <5>1, ElementOfSeq DEF ConnectedType
          <6>2. message[i].client = c /\ message[i].line <= Len(lines[c])
            BY <2>1, <5>1 DEF OwnText, LastLine
          <6> QED BY <1>5, <6>1, <6>2 DEF CByte
        <5> QED BY <1>6, <5>1
      <4> QED BY <1>6, <3>1, <4>1, <4>2 DEF OwnText, Requested, InSocket, Replied, LastLine
    <3> QED BY <2>3, <3>3, <3>4
  <2> QED BY <2>2, <2>3
<1> QED BY <1>6, <1>10, <1>11 DEF Unmixed

LEMMA RecvfromStep ==
    ASSUME ConnectedType, Unmixed, NEW c \in Clients, Connected!recvfrom(c)
    PROVE  ConnectedType' /\ Unmixed'
<1>1. PICK a \in answers : a.client = c /\ answers' = answers \ {a}
                           /\ shown' = [shown EXCEPT ![c] = Append(@, a.text)]
  BY DEF Connected!recvfrom
<1>2. waits[c] = "recv" /\ waits' = [waits EXCEPT ![c] = "no"]
      /\ UNCHANGED <<lines, requests, message, unanswered, queue, peer, count, running, damaged, mixed, lost>>
  BY DEF Connected!recvfrom, Connected!serverVars
<1> DEFINE S == Seq(CByte)
<1>3. a.text \in S /\ shown \in [Clients -> Seq(S)] /\ waits \in [Clients -> {"no", "recv", "ended"}]
  BY <1>1 DEF ConnectedType
<1> HIDE DEF S
<1>4. Append(shown[c], a.text) \in Seq(S) /\ Len(shown[c]) \in Nat
      /\ Len(Append(shown[c], a.text)) = Len(shown[c]) + 1
      /\ \A k \in 1..Len(shown[c]) : Append(shown[c], a.text)[k] = shown[c][k]
      /\ Append(shown[c], a.text)[Len(shown[c]) + 1] = a.text
  <2>1. shown[c] \in Seq(S)
    BY <1>3
  <2> QED BY <1>3, <2>1, AppendProperties, LenProperties
<1>5. shown' \in [Clients -> Seq(S)] /\ shown'[c] = Append(shown[c], a.text)
      /\ \A b \in Clients \ {c} : shown'[b] = shown[b]
  BY <1>1, <1>3, <1>4
<1>6. waits' \in [Clients -> {"no", "recv", "ended"}] /\ waits'[c] = "no"
      /\ \A b \in Clients \ {c} : waits'[b] = waits[b]
  BY <1>2, <1>3
<1>7. ConnectedType'
  <2>1. shown' \in [Clients -> Seq(Seq(CByte))]
    BY <1>5 DEF S
  <2> QED BY <1>1, <1>2, <1>6, <2>1 DEF ConnectedType
<1>8. ASSUME ~ mixed, NEW b \in Clients PROVE OnePlace(b)' /\ OwnText(b)'
  <2>1. OnePlace(b) /\ OwnText(b) /\ OnePlace(c) /\ OwnText(c)
    BY <1>8 DEF Unmixed
  <2>2. CASE b # c
    <3>1. shown'[b] = shown[b] /\ waits'[b] = waits[b] /\ \A e \in answers' : e \in answers
      BY <1>1, <1>5, <1>6, <2>2
    <3>2. OnePlace(b)'
      BY <1>2, <2>1, <3>1 DEF OnePlace, Requested, InSocket, Replied, LastLine
    <3>3. OwnText(b)'
      BY <1>2, <2>1, <3>1 DEF OwnText, Requested, InSocket, LastLine
    <3> QED BY <3>2, <3>3
  <2>3. CASE b = c
    <3>1. Replied(c)
      BY <1>1 DEF Replied
    <3>2. ~ Requested(c) /\ ~ InSocket(c) /\ c \notin unanswered /\ \A e \in answers : e.client = c => e = a
      BY <1>1, <2>1, <3>1 DEF OnePlace
    <3>3. ~ Requested(c)' /\ ~ InSocket(c)' /\ c \notin unanswered' /\ ~ Replied(c)'
      BY <1>1, <1>2, <3>2 DEF Requested, InSocket, Replied
    <3>4. Len(lines[c]) \in Nat /\ Len(shown[c]) = Len(lines[c]) - 1
      BY <1>2, <2>1, LinesType DEF OnePlace, LastLine
    <3>5. OnePlace(c)'
      BY <1>2, <1>4, <1>5, <1>6, <3>3, <3>4 DEF OnePlace, LastLine, Requested, InSocket, Replied
    <3>6. OwnText(c)'
      <4>1. \A k \in 1..Len(shown'[c]) : Begins(shown'[c][k], c, k, lines'[c][k].length)
        <5>1. \A k \in 1..Len(shown[c]) : Begins(shown[c][k], c, k, lines[c][k].length)
          BY <2>1 DEF OwnText
        <5>2. Begins(a.text, c, Len(lines[c]), lines[c][Len(lines[c])].length)
          BY <1>1, <2>1 DEF OwnText, LastLine
        <5>3. \A k \in 1..Len(shown'[c]) : k \in 1..Len(shown[c]) \/ k = Len(shown[c]) + 1
          <6> DEFINE q == Len(shown[c])
                     z == Len(shown'[c])
          <6>1. q \in Nat /\ z = q + 1
            BY <1>4, <1>5, Zenon
          <6> HIDE DEF q, z
          <6>2. \A k \in 1..z : k \in 1..q \/ k = q + 1
            BY ONLY <6>1
          <6> QED BY <6>2 DEF q, z
        <5>4. Len(shown[c]) + 1 = Len(lines[c])
          BY <3>4
        <5> QED BY <1>2, <1>4, <1>5, <5>1, <5>2, <5>3, <5>4
      <4>2. c \in peer' => \A i \in 1..Len(message') : message'[i].client = c /\ message'[i].line <= LastLine(c)'
        BY <1>2, <2>1 DEF OwnText, LastLine
      <4>3. \A e \in answers' : e.client # c
        BY <3>3 DEF Replied
      <4> QED BY <3>3, <4>1, <4>2, <4>3 DEF OwnText
    <3> QED BY <2>3, <3>5, <3>6
  <2> QED BY <2>2, <2>3
<1> QED BY <1>2, <1>7, <1>8 DEF Unmixed

LEMMA ArriveStep ==
    ASSUME ConnectedType, Unmixed, NEW d \in requests, Connected!arrive(d)
    PROVE  ConnectedType' /\ Unmixed'
<1>1. /\ requests' = requests \ {d} /\ queue' = Append(queue, d)
      /\ UNCHANGED <<lines, waits, shown, answers, message, unanswered, peer, count, running,
                     damaged, mixed, lost>>
  BY DEF Connected!arrive, Connected!clientVars
<1>2. d \in CByte /\ d.line \in 1..Len(lines[d.client]) /\ queue \in Seq(CByte) /\ requests \subseteq CByte
  BY DEF ConnectedType
<1>3. /\ queue' \in Seq(CByte) /\ Len(queue) \in Nat /\ Len(queue') = Len(queue) + 1
      /\ \A k \in 1..Len(queue) : queue'[k] = queue[k]
      /\ queue'[Len(queue) + 1] = d
  BY <1>1, <1>2, AppendProperties, LenProperties
<1>4. \A k \in 1..Len(queue') : k \in 1..Len(queue) \/ k = Len(queue) + 1
  BY <1>3
<1>5. ConnectedType'
  <2>1. \A k \in 1..Len(queue) : queue[k].line \in 1..Len(lines[queue[k].client])
    BY DEF ConnectedType
  <2>2. \A k \in 1..Len(queue') : queue'[k].line \in 1..Len(lines[queue'[k].client])
    BY <1>2, <1>3, <1>4, <2>1
  <2> QED BY <1>1, <1>3, <2>2 DEF ConnectedType
<1>6. ASSUME ~ mixed, NEW b \in Clients PROVE OnePlace(b)' /\ OwnText(b)'
  <2>1. OnePlace(b) /\ OwnText(b)
    BY <1>6 DEF Unmixed
  <2>2. \A e \in requests' : e \in requests /\ e # d
    BY <1>1
  <2>3. CASE b # d.client
    <3>1. \A k \in 1..Len(queue') : queue'[k].client = b => k \in 1..Len(queue) /\ queue[k].client = b /\ queue'[k] = queue[k]
      BY <1>3, <1>4, <2>3
    <3>2. \A k \in 1..Len(queue) : k \in 1..Len(queue')
      BY <1>3
    <3>3. OnePlace(b)'
      BY <1>1, <2>1, <2>2, <3>1 DEF OnePlace, Requested, InSocket, Replied, LastLine
    <3>4. OwnText(b)'
      BY <1>1, <2>1, <2>2, <3>1 DEF OwnText, Requested, InSocket, LastLine
    <3> QED BY <3>3, <3>4
  <2>4. CASE b = d.client
    <3>1. Requested(b) /\ ~ InSocket(b) /\ b \notin unanswered /\ ~ Replied(b) /\ d.line = LastLine(b)
      BY <2>1, <2>4 DEF OnePlace, Requested
    <3>2. ~ Requested(b)'
      <4>1. ASSUME NEW e \in requests, e.client = b PROVE e = d
        <5>1. e.line = d.line /\ e \in CByte
          BY <1>2, <2>1, <3>1, <4>1 DEF OnePlace
        <5> QED BY <1>2, <2>4, <4>1, <5>1 DEF CByte
      <4> QED BY <2>2, <4>1 DEF Requested
    <3>3. \A k \in 1..Len(queue') : queue'[k].client = b => k = Len(queue) + 1 /\ queue'[k] = d
      BY <1>3, <1>4, <3>1 DEF InSocket
    <3>4. b \notin unanswered' /\ ~ Replied(b)'
      BY <1>1, <3>1 DEF Replied
    <3>5. OnePlace(b)'
      BY <1>1, <2>1, <3>1, <3>2, <3>3, <3>4 DEF OnePlace, Requested, LastLine
    <3>6. OwnText(b)'
      BY <1>1, <2>1, <3>1 DEF OwnText, LastLine
    <3> QED BY <3>5, <3>6
  <2> QED BY <2>3, <2>4
<1> QED BY <1>1, <1>5, <1>6 DEF Unmixed

LEMMA RefuseStep ==
    ASSUME ConnectedType, Unmixed, NEW d \in requests, Connected!refuse(d)
    PROVE  ConnectedType' /\ Unmixed'
<1>1. /\ requests' = requests \ {d} /\ waits' = [waits EXCEPT ![d.client] = "ended"]
      /\ UNCHANGED <<lines, shown, answers, message, unanswered, queue, peer, count, running,
                     damaged, mixed, lost>>
  BY DEF Connected!refuse, Connected!serverVars
<1>2. d \in CByte /\ d.client \in Clients /\ requests \subseteq CByte
  BY DEF ConnectedType, CByte
<1>3. waits' \in [Clients -> {"no", "recv", "ended"}] /\ waits'[d.client] = "ended"
      /\ \A b \in Clients \ {d.client} : waits'[b] = waits[b]
  BY <1>1, <1>2 DEF ConnectedType
<1>4. ConnectedType'
  BY <1>1, <1>3 DEF ConnectedType
<1>5. ASSUME ~ mixed, NEW b \in Clients PROVE OnePlace(b)' /\ OwnText(b)'
  <2>1. OnePlace(b) /\ OwnText(b)
    BY <1>5 DEF Unmixed
  <2>2. \A e \in requests' : e \in requests /\ e # d
    BY <1>1
  <2>3. OwnText(b)'
    BY <1>1, <2>1, <2>2 DEF OwnText, Requested, InSocket, LastLine
  <2>4. CASE b # d.client
    <3>1. waits'[b] = waits[b]
      BY <1>3, <2>4
    <3>2. OnePlace(b)'
      BY <1>1, <2>1, <2>2, <3>1 DEF OnePlace, Requested, InSocket, Replied, LastLine
    <3> QED BY <2>3, <3>2
  <2>5. CASE b = d.client
    <3>1. /\ Requested(b) /\ ~ InSocket(b) /\ b \notin unanswered /\ ~ Replied(b)
          /\ d.line = LastLine(b) /\ waits[b] = "recv" /\ waits'[b] = "ended"
      BY <1>3, <2>1, <2>5 DEF OnePlace, Requested
    <3>2. ~ Requested(b)'
      <4>1. ASSUME NEW e \in requests, e.client = b PROVE e = d
        <5>1. e.line = d.line /\ e \in CByte
          BY <1>2, <2>1, <3>1, <4>1 DEF OnePlace
        <5> QED BY <1>2, <2>5, <4>1, <5>1 DEF CByte
      <4> QED BY <2>2, <4>1 DEF Requested
    <3>3. ~ InSocket(b)' /\ b \notin unanswered' /\ ~ Replied(b)'
      BY <1>1, <3>1 DEF InSocket, Replied
    <3>4. Len(shown'[b]) = LastLine(b)' - (IF waits'[b] = "no" THEN 0 ELSE 1)
      BY <1>1, <2>1, <3>1 DEF OnePlace, LastLine
    <3>5. OnePlace(b)'
      BY <1>1, <2>1, <2>2, <3>2, <3>3, <3>4 DEF OnePlace, Requested, InSocket, Replied, LastLine
    <3> QED BY <2>3, <3>5
  <2> QED BY <2>4, <2>5
<1> QED BY <1>1, <1>4, <1>5 DEF Unmixed

LEMMA LoseStep ==
    ASSUME ConnectedType, Unmixed, NEW d \in requests \cup answers, Connected!Lose(d)
    PROVE  ConnectedType' /\ Unmixed'
<1>1. /\ requests' \subseteq requests /\ answers' \subseteq answers
      /\ lost' = [lost EXCEPT ![d.client] = TRUE]
      /\ UNCHANGED <<lines, waits, shown, message, unanswered, queue, peer, count, running,
                     damaged, mixed>>
  BY DEF Connected!Lose, Connected!serverVars, Connected!clientVars
<1>2. lost' \in [Clients -> BOOLEAN]
  BY <1>1 DEF ConnectedType
<1>3. ConnectedType'
  BY <1>1, <1>2 DEF ConnectedType
<1>4. ASSUME ~ mixed, NEW b \in Clients PROVE OnePlace(b)' /\ OwnText(b)'
  <2>1. OnePlace(b) /\ OwnText(b)
    BY <1>4 DEF Unmixed
  <2>2. OnePlace(b)'
    BY <1>1, <2>1 DEF OnePlace, Requested, InSocket, Replied, LastLine
  <2>3. OwnText(b)'
    BY <1>1, <2>1 DEF OwnText, Requested, InSocket, LastLine
  <2> QED BY <2>2, <2>3
<1> QED BY <1>1, <1>3, <1>4 DEF Unmixed

\* What the server takes from its socket is a whole line, and what it leaves
\* there is what was behind it.
LEMMA TakenLine ==
    ASSUME ConnectedType, queue # <<>>
    PROVE  /\ Head(queue) = queue[1] /\ 1 \in 1..Len(queue) /\ Head(queue) \in CByte
           /\ Head(queue).client \in Clients
           /\ Head(queue).line \in 1..Len(lines[Head(queue).client])
           /\ lines[Head(queue).client][Head(queue).line].length \in Nat
           /\ lines[Head(queue).client][Head(queue).line].goodbye \in BOOLEAN
           /\ Connected!Text(Head(queue).client, Head(queue).line)
                 = LineText(Head(queue).client, Head(queue).line,
                            lines[Head(queue).client][Head(queue).line].length)
           /\ Tail(queue) \in Seq(CByte) /\ Len(Tail(queue)) = Len(queue) - 1
           /\ \A k \in 1..Len(Tail(queue)) :
                 k + 1 \in 1..Len(queue) /\ k + 1 # 1 /\ Tail(queue)[k] = queue[k + 1]
<1> DEFINE q == queue  h == Head(queue)
<1>1. queue \in Seq(CByte)
  BY DEF ConnectedType
<1>2. Len(queue) \in Nat /\ 1 \in 1..Len(queue)
  BY <1>1, EmptySeq, LenProperties
<1>3. /\ Tail(queue) \in Seq(CByte) /\ Len(Tail(queue)) = Len(queue) - 1
      /\ \A k \in 1..Len(Tail(queue)) : Tail(queue)[k] = queue[k + 1]
  BY <1>1, HeadTailProperties
<1>4. \A k \in 1..Len(Tail(queue)) : k + 1 \in 1..Len(queue) /\ k + 1 # 1
  BY <1>2, <1>3
<1>5. h = queue[1] /\ h \in CByte
  BY <1>1, <1>2, ElementOfSeq
<1>6. h.client \in Clients /\ h.line \in 1..Len(lines[h.client])
  BY <1>2, <1>5 DEF ConnectedType, CByte
<1>7. lines[h.client][h.line].length \in Nat /\ lines[h.client][h.line].goodbye \in BOOLEAN
  BY <1>6, LinesType
<1>8. Connected!Text(h.client, h.line) = LineText(h.client, h.line, lines[h.client][h.line].length)
  BY DEF Connected!Text, LineText
<1> QED BY <1>2, <1>3, <1>4, <1>5, <1>6, <1>7, <1>8

\* What a client has in the socket once the first datagram is taken.
LEMMA LeftInSocket ==
    ASSUME ConnectedType, queue # <<>>, queue' = Tail(queue), NEW b \in Clients, OnePlace(b)
    PROVE  /\ InSocket(b)' => InSocket(b)
           /\ b = Head(queue).client => InSocket(b) /\ ~ InSocket(b)' /\ Head(queue).line = LastLine(b)
           /\ \A k \in 1..Len(queue') : queue'[k].client = b => queue'[k].line = LastLine(b)
           /\ \A j, k \in 1..Len(queue') : queue'[j].client = b /\ queue'[k].client = b => j = k
<1>1. /\ Head(queue) = queue[1] /\ 1 \in 1..Len(queue)
      /\ \A k \in 1..Len(queue') :
            k + 1 \in 1..Len(queue) /\ k + 1 # 1 /\ queue'[k] = queue[k + 1]
  BY TakenLine
<1>2. /\ \A k \in 1..Len(queue) : queue[k].client = b => queue[k].line = LastLine(b)
      /\ \A j, k \in 1..Len(queue) : queue[j].client = b /\ queue[k].client = b => j = k
  BY DEF OnePlace
<1>3. InSocket(b)' => InSocket(b)
  BY <1>1 DEF InSocket
<1>4. b = Head(queue).client => InSocket(b) /\ ~ InSocket(b)' /\ Head(queue).line = LastLine(b)
  BY <1>1, <1>2 DEF InSocket
<1>5. \A k \in 1..Len(queue') : queue'[k].client = b => queue'[k].line = LastLine(b)
  BY <1>1, <1>2
<1>6. ASSUME NEW j \in 1..Len(queue'), NEW k \in 1..Len(queue'),
             queue'[j].client = b, queue'[k].client = b
      PROVE  j = k
  <2>1. j + 1 = k + 1
    BY <1>1, <1>2, <1>6
  <2> QED BY <2>1
<1> QED BY <1>3, <1>4, <1>5, <1>6

LEMMA ConnectStep ==
    ASSUME ConnectedType, Unmixed, Connected!connect
    PROVE  ConnectedType' /\ Unmixed'
<1> DEFINE c == Head(queue).client
           k == Head(queue).line
           n == lines[c][k].length
<1>1. /\ peer = {} /\ queue # <<>> /\ queue' = Tail(queue)
      /\ message' = Connected!Text(c, k) /\ peer' = {c}
      /\ running' = ~ lines[c][k].goodbye /\ unanswered' = IF running' THEN peer' ELSE {}
      /\ UNCHANGED <<lines, waits, shown, requests, answers, count, damaged, mixed, lost>>
  BY DEF Connected!connect, Connected!clientVars
<1>2. unanswered = {} /\ answers = {}
  BY <1>1 DEF ConnectedType
<1>3. /\ c \in Clients /\ k \in 1..Len(lines[c]) /\ n \in Nat
      /\ message' = LineText(c, k, n) /\ lines[c][k].goodbye \in BOOLEAN
      /\ queue' \in Seq(CByte)
      /\ \A i \in 1..Len(queue') : i + 1 \in 1..Len(queue) /\ queue'[i] = queue[i + 1]
  <2>1. c \in Clients /\ k \in 1..Len(lines[c]) /\ n \in Nat /\ lines[c][k].goodbye \in BOOLEAN
    BY <1>1, TakenLine, Zenon
  <2>2. Connected!Text(c, k) = LineText(c, k, n)
    BY <1>1, TakenLine, Zenon
  <2>3. /\ queue' \in Seq(CByte)
        /\ \A i \in 1..Len(queue') : i + 1 \in 1..Len(queue) /\ queue'[i] = queue[i + 1]
    BY <1>1, TakenLine, Zenon
  <2> QED BY <1>1, <2>1, <2>2, <2>3, Zenon
<1>4. unanswered' \subseteq {c} /\ running' \in BOOLEAN /\ answers' = {}
  BY <1>1, <1>2, <1>3
<1> HIDE DEF c, k, n
<1>5. k \in Nat /\ Len(lines[c]) \in Nat
  BY <1>3, LinesType
<1>6. /\ message' \in Seq(CByte) /\ Len(message') = n
      /\ \A i \in 1..n : message'[i].client = c /\ message'[i].line = k
      /\ Begins(message', c, k, n)
  <2>3. c \in Clients /\ k \in Nat /\ n \in Nat
    BY <1>3, <1>5
  <2> DEFINE t == LineText(c, k, n)
  <2>1. /\ t \in Seq(CByte) /\ Len(t) = n /\ Begins(t, c, k, n)
        /\ \A i \in 1..n : t[i].client = c /\ t[i].line = k
    <3>1. t \in Seq(CByte) /\ Len(t) = n
      BY ONLY <2>3, LineTextType, Zenon
    <3>2. Begins(t, c, k, n)
      BY ONLY <2>3, LineTextType, Zenon
    <3>3. \A i \in 1..n : t[i].client = c /\ t[i].line = k
      BY ONLY TRUE DEF LineText
    <3> QED BY <3>1, <3>2, <3>3
  <2>2. message' = t
    BY <1>3
  <2> HIDE DEF t
  <2> QED BY <2>1, <2>2
<1>7. ConnectedType'
  <2>1. \A i \in 1..Len(queue') : queue'[i].line \in 1..Len(lines[queue'[i].client])
    BY <1>3 DEF ConnectedType
  <2>2. peer' \subseteq Clients /\ \A b, d \in peer' : b = d
    BY <1>1, <1>3
  <2>3. unanswered' \subseteq peer'
    BY <1>1, <1>4
  <2> QED BY <1>1, <1>3, <1>4, <1>6, <2>1, <2>2, <2>3 DEF ConnectedType
<1>8. ASSUME ~ mixed, NEW b \in Clients PROVE OnePlace(b)' /\ OwnText(b)'
  <2>1. OnePlace(b) /\ OwnText(b)
    BY <1>8 DEF Unmixed
  <2>2. /\ InSocket(b)' => InSocket(b)
        /\ b = c => InSocket(b) /\ ~ InSocket(b)' /\ k = LastLine(b)
        /\ \A j \in 1..Len(queue') : queue'[j].client = b => queue'[j].line = LastLine(b)
        /\ \A i, j \in 1..Len(queue') : queue'[i].client = b /\ queue'[j].client = b => i = j
    BY <1>1, <2>1, LeftInSocket DEF c, k
  <2>3. ~ Replied(b)' /\ (b # c => b \notin unanswered' /\ b \notin peer')
    BY <1>1, <1>4 DEF Replied
  <2>4. /\ Requested(b)' = Requested(b) /\ LastLine(b)' = LastLine(b)
        /\ (Requested(b) => ~ InSocket(b)) /\ (Requested(b) \/ InSocket(b) => waits[b] = "recv")
        /\ \A d \in requests : d.client = b => d.line = LastLine(b)
        /\ Len(shown[b]) = LastLine(b) - (IF waits[b] = "no" THEN 0 ELSE 1)
    BY <1>1, <2>1 DEF OnePlace, Requested, LastLine
  <2>5. OnePlace(b)'
    <3>1. Requested(b)' \/ InSocket(b)' \/ b \in unanswered' => waits[b] = "recv"
      BY <2>2, <2>3, <2>4
    <3>2. (Requested(b)' => ~ InSocket(b)' /\ b \notin unanswered') /\ (InSocket(b)' => b \notin unanswered')
      BY <2>2, <2>3, <2>4
    <3> QED BY <1>1, <1>4, <2>2, <2>3, <2>4, <3>1, <3>2 DEF OnePlace
  <2>6. OwnText(b)'
    <3>1. \A j \in 1..Len(shown'[b]) : Begins(shown'[b][j], b, j, lines'[b][j].length)
      BY <1>1, <2>1 DEF OwnText
    <3>2. CASE b # c
      BY <1>4, <2>3, <3>1, <3>2 DEF OwnText
    <3>3. CASE b = c
      <4>1. k = LastLine(b)' /\ ~ Requested(b)' /\ ~ InSocket(b)' /\ k <= k
        BY <1>5, <2>2, <2>4, <3>3
      <4>2. \A i \in 1..Len(message') : message'[i].client = b /\ message'[i].line <= LastLine(b)'
        BY <1>6, <3>3, <4>1
      <4>3. Begins(message', b, LastLine(b)', lines'[b][LastLine(b)'].length)
        BY <1>1, <1>6, <3>3, <4>1 DEF n
      <4>4. \A a \in answers' : a.client # b
        BY <1>4
      <4> QED BY <3>1, <4>1, <4>2, <4>3, <4>4 DEF OwnText
    <3> QED BY <3>2, <3>3
  <2> QED BY <2>5, <2>6
<1> QED BY <1>1, <1>7, <1>8 DEF Unmixed

LEMMA ConnectedSendStep ==
    ASSUME ConnectedType, Unmixed, Connected!send
    PROVE  ConnectedType' /\ Unmixed'
<1>1. PICK c \in unanswered :
        /\ unanswered' = {} /\ running' \in BOOLEAN /\ damaged' \in BOOLEAN
        /\ \/ answers' = answers \cup {[client |-> c, number |-> count, text |-> message]}
           \/ answers' = answers
        /\ UNCHANGED <<lines, waits, shown, message, queue, peer, count, mixed, requests, lost>>
  <2>1. running \in BOOLEAN /\ damaged \in BOOLEAN
    BY DEF ConnectedType
  <2> QED BY <2>1 DEF Connected!send, Connected!clientVars
<1> DEFINE x == [client |-> c, number |-> count, text |-> message]
<1>2. x.client = c /\ x.number = count /\ x.text = message
  OBVIOUS
<1>3. \A a \in answers' : a \in answers \/ a = x
  BY <1>1
<1> HIDE DEF x
<1>4. c \in peer /\ c \in Clients /\ count \in Nat /\ message \in Seq(CByte)
  BY DEF ConnectedType
<1>5. ConnectedType'
  <2>1. \A a \in answers' : a.client \in peer' /\ a.number \in Nat /\ a.text \in Seq(CByte)
    <3>1. \A a \in answers : a.client \in peer /\ a.number \in Nat /\ a.text \in Seq(CByte)
      BY DEF ConnectedType
    <3> QED BY <1>1, <1>2, <1>3, <1>4, <3>1
  <2> QED BY <1>1, <2>1 DEF ConnectedType
<1>6. ASSUME ~ mixed, NEW b \in Clients PROVE OnePlace(b)' /\ OwnText(b)'
  <2>1. OnePlace(b) /\ OwnText(b)
    BY <1>6 DEF Unmixed
  <2>2. CASE b # c
    <3>1. \A a \in answers' : a.client = b => a \in answers
      BY <1>2, <1>3, <2>2
    <3>2. OnePlace(b)'
      BY <1>1, <2>1, <3>1 DEF OnePlace, Requested, InSocket, Replied, LastLine
    <3>3. OwnText(b)'
      BY <1>1, <2>1, <3>1 DEF OwnText, Requested, InSocket, LastLine
    <3> QED BY <3>2, <3>3
  <2>3. CASE b = c
    <3>1. ~ Replied(c) /\ ~ Requested(c) /\ ~ InSocket(c) /\ waits[c] = "recv"
      BY <2>1, <2>3 DEF OnePlace
    <3>2. \A a \in answers' : a.client = c => a = x
      BY <1>3, <3>1 DEF Replied
    <3>3. ~ Requested(c)' /\ ~ InSocket(c)' /\ c \notin unanswered' /\ waits'[c] = "recv"
      BY <1>1, <3>1 DEF Requested, InSocket
    <3>4. OnePlace(c)'
      BY <1>1, <2>1, <2>3, <3>2, <3>3 DEF OnePlace, Requested, InSocket, LastLine
    <3>5. Begins(message, c, LastLine(c), lines[c][LastLine(c)].length)
      BY <2>1, <2>3 DEF OwnText
    <3>6. \A a \in answers' : a.client = c => Begins(a.text, c, LastLine(c)', lines'[c][LastLine(c)'].length)
      BY <1>1, <1>2, <3>2, <3>5 DEF LastLine
    <3>7. OwnText(c)'
      BY <1>1, <2>1, <2>3, <3>3, <3>6 DEF OwnText, LastLine
    <3> QED BY <2>3, <3>4, <3>7
  <2> QED BY <2>2, <2>3
<1> QED BY <1>1, <1>5, <1>6 DEF Unmixed

LEMMA RecvStep ==
    ASSUME ConnectedType, Unmixed, Connected!recv
    PROVE  ConnectedType' /\ Unmixed'
<1> DEFINE c == Head(queue).client
           k == Head(queue).line
           n == lines[c][k].length
<1>1. /\ peer # {} /\ unanswered = {} /\ queue # <<>> /\ queue' = Tail(queue)
      /\ message' \in Connected!Overwritten(Connected!Text(c, k))
      /\ mixed' = (mixed \/ c \notin peer)
      /\ running' = ~ lines[c][k].goodbye /\ unanswered' = IF running' THEN peer ELSE {}
      /\ count' = count + 1
      /\ UNCHANGED <<lines, waits, shown, requests, answers, peer, damaged, lost>>
  BY DEF Connected!recv, Connected!clientVars
<1>2. /\ c \in Clients /\ k \in 1..Len(lines[c]) /\ n \in Nat
      /\ message' \in Connected!Overwritten(LineText(c, k, n)) /\ lines[c][k].goodbye \in BOOLEAN
      /\ queue' \in Seq(CByte)
      /\ \A i \in 1..Len(queue') : i + 1 \in 1..Len(queue) /\ queue'[i] = queue[i + 1]
  <2>1. Connected!Text(c, k) = LineText(c, k, n)
    BY <1>1, TakenLine, Zenon
  <2> HIDE DEF n
  <2>2. message' \in Connected!Overwritten(LineText(c, k, n))
    BY <1>1, <2>1, Zenon
  <2>3. c \in Clients /\ k \in 1..Len(lines[c]) /\ n \in Nat /\ lines[c][k].goodbye \in BOOLEAN
    BY <1>1, TakenLine, Zenon DEF n
  <2>4. /\ queue' \in Seq(CByte)
        /\ \A i \in 1..Len(queue') : i + 1 \in 1..Len(queue) /\ queue'[i] = queue[i + 1]
    BY <1>1, TakenLine, Zenon
  <2> QED BY <2>2, <2>3, <2>4, Zenon
<1>3. unanswered' \subseteq peer /\ running' \in BOOLEAN
  BY <1>1, <1>2
<1> HIDE DEF c, k, n
<1>4. k \in Nat \ {0} /\ Len(lines[c]) \in Nat /\ message \in Seq(CByte)
  BY <1>2, LinesType DEF ConnectedType
<1>5. /\ message' \in Seq(CByte)
      /\ (\A i \in 1..Len(message) : message[i].client = c /\ message[i].line < k) =>
             /\ Begins(message', c, k, n)
             /\ \A i \in 1..Len(message') : message'[i].client = c /\ message'[i].line <= k
  BY <1>2, <1>4, OverwrittenText, Zenon
<1>6. ConnectedType'
  <2>1. \A i \in 1..Len(queue') : queue'[i].line \in 1..Len(lines[queue'[i].client])
    BY <1>2 DEF ConnectedType
  <2>2. count' \in Nat /\ mixed' \in BOOLEAN
    <3>1. count \in Nat /\ mixed \in BOOLEAN
      BY DEF ConnectedType
    <3> QED BY <1>1, <3>1
  <2> QED BY <1>1, <1>2, <1>3, <1>5, <2>1, <2>2 DEF ConnectedType
<1>7. ASSUME ~ mixed', NEW b \in Clients PROVE OnePlace(b)' /\ OwnText(b)'
  <2>1. OnePlace(b) /\ OwnText(b) /\ c \in peer
    BY <1>1, <1>7 DEF Unmixed
  <2>2. /\ InSocket(b)' => InSocket(b)
        /\ b = c => InSocket(b) /\ ~ InSocket(b)' /\ k = LastLine(b)
        /\ \A j \in 1..Len(queue') : queue'[j].client = b => queue'[j].line = LastLine(b)
        /\ \A i, j \in 1..Len(queue') : queue'[i].client = b /\ queue'[j].client = b => i = j
    BY <1>1, <2>1, LeftInSocket DEF c, k
  <2>3. b # c => b \notin unanswered' /\ b \notin peer'
    BY <1>1, <1>3, <2>1 DEF ConnectedType
  <2>4. /\ Requested(b)' = Requested(b) /\ LastLine(b)' = LastLine(b) /\ Replied(b)' = Replied(b)
        /\ (Requested(b) => ~ InSocket(b) /\ ~ Replied(b)) /\ (InSocket(b) => ~ Replied(b))
        /\ (Requested(b) \/ InSocket(b) \/ Replied(b) => waits[b] = "recv")
        /\ \A d \in requests : d.client = b => d.line = LastLine(b)
        /\ \A a, d \in answers : a.client = b /\ d.client = b => a = d
        /\ Len(shown[b]) = LastLine(b) - (IF waits[b] = "no" THEN 0 ELSE 1)
    BY <1>1, <2>1 DEF OnePlace, Requested, Replied, LastLine
  <2>5. OnePlace(b)'
    <3>1. Requested(b)' \/ InSocket(b)' \/ b \in unanswered' \/ Replied(b)' => waits[b] = "recv"
      BY <2>2, <2>3, <2>4
    <3>2. /\ Requested(b)' => ~ InSocket(b)' /\ b \notin unanswered' /\ ~ Replied(b)'
          /\ InSocket(b)' => b \notin unanswered' /\ ~ Replied(b)'
          /\ b \in unanswered' => ~ Replied(b)'
      BY <2>2, <2>3, <2>4
    <3> QED BY <1>1, <2>2, <2>4, <3>1, <3>2 DEF OnePlace
  <2>6. OwnText(b)'
    <3>1. \A j \in 1..Len(shown'[b]) : Begins(shown'[b][j], b, j, lines'[b][j].length)
      BY <1>1, <2>1 DEF OwnText
    <3>2. \A a \in answers' : a.client = b => Begins(a.text, b, LastLine(b)', lines'[b][LastLine(b)'].length)
      BY <1>1, <2>1 DEF OwnText, LastLine
    <3>3. CASE b # c
      BY <2>3, <3>1, <3>2, <3>3 DEF OwnText
    <3>4. CASE b = c
      <4>1. k = LastLine(b)' /\ ~ Requested(b)' /\ ~ InSocket(b)' /\ InSocket(b) /\ k = LastLine(b)
        BY <2>2, <2>4, <3>4
      <4>2. \A i \in 1..Len(message) : message[i].client = c /\ message[i].line < k
        BY <2>1, <3>4, <4>1 DEF OwnText
      <4>3. \A i \in 1..Len(message') : message'[i].client = b /\ message'[i].line <= LastLine(b)'
        BY <1>5, <3>4, <4>1, <4>2
      <4>4. Begins(message', b, LastLine(b)', lines'[b][LastLine(b)'].length)
        BY <1>1, <1>5, <3>4, <4>1, <4>2 DEF n
      <4> QED BY <3>1, <3>2, <4>1, <4>3, <4>4 DEF OwnText
    <3> QED BY <3>3, <3>4
  <2> QED BY <2>5, <2>6
<1> QED BY <1>6, <1>7 DEF Unmixed

LEMMA ConnectedStep ==
    ASSUME ConnectedInv, ConnectedNext
    PROVE  ConnectedInv'
<1>1. program = "connected" /\ program' = program /\ Connected!Next
  BY DEF ConnectedNext
<1>2. ConnectedType /\ Unmixed
  BY <1>1 DEF ConnectedInv, Unmixed
<1>3. ASSUME Connected!recvfrom_int PROVE ConnectedType' /\ Unmixed'
  <2>1. /\ running' = FALSE
        /\ UNCHANGED <<lines, waits, shown, requests, answers, message, unanswered, queue, peer,
                       count, damaged, mixed, lost>>
    BY <1>3 DEF Connected!recvfrom_int, Connected!clientVars
  <2>2. ConnectedType'
    BY <1>2, <2>1 DEF ConnectedType
  <2>3. ASSUME NEW b \in Clients, OnePlace(b), OwnText(b) PROVE OnePlace(b)' /\ OwnText(b)'
    <3>1. OnePlace(b)'
      BY <2>1, <2>3 DEF OnePlace, Requested, InSocket, Replied, LastLine
    <3>2. OwnText(b)'
      BY <2>1, <2>3 DEF OwnText, Requested, InSocket, LastLine
    <3> QED BY <3>1, <3>2
  <2> QED BY <1>2, <2>1, <2>2, <2>3 DEF Unmixed
<1>4. ConnectedType' /\ Unmixed'
  <2>1. CASE Connected!Server
    BY <1>2, <2>1, ConnectStep, ConnectedSendStep, RecvStep DEF Connected!Server
  <2>2. ASSUME NEW c \in Clients, Connected!sendto(c) \/ Connected!recvfrom(c)
        PROVE  ConnectedType' /\ Unmixed'
    BY <1>2, <2>2, SendtoStep, RecvfromStep, Zenon
  <2>3. ASSUME NEW d \in requests, Connected!arrive(d) \/ Connected!refuse(d)
        PROVE  ConnectedType' /\ Unmixed'
    BY <1>2, <2>3, ArriveStep, RefuseStep, Zenon
  <2>4. ASSUME NEW d \in requests \cup answers, Connected!Lose(d)
        PROVE  ConnectedType' /\ Unmixed'
    BY <1>2, <2>4, LoseStep, Zenon
  <2> QED BY <1>1, <1>3, <2>1, <2>2, <2>3, <2>4, Zenon DEF Connected!Next
<1> QED BY <1>1, <1>4 DEF ConnectedInv, Unmixed

LEMMA ConnectedFirst ==
    ASSUME Connected!Init
    PROVE  ConnectedInv
<1>1. /\ lines = [c \in Clients |-> <<>>] /\ shown = [c \in Clients |-> <<>>]
      /\ waits = [c \in Clients |-> "no"] /\ lost = [c \in Clients |-> FALSE]
      /\ requests = {} /\ answers = {} /\ message = <<>> /\ unanswered = {} /\ queue = <<>>
      /\ peer = {} /\ count = 0 /\ running = TRUE /\ damaged = FALSE /\ mixed = FALSE
  BY DEF Connected!Init
<1>2. \A S : <<>> \in Seq(S)
  BY EmptySeq
<1>3. Len(<<>>) = 0 /\ 1..0 = {}
  BY EmptySeq
<1>4. ConnectedType
  <2>1. lines \in [Clients -> Seq([length : Lengths, goodbye : BOOLEAN])]
    BY <1>1, <1>2
  <2>2. shown \in [Clients -> Seq(Seq(CByte))]
    BY <1>1, <1>2
  <2>3. message \in Seq(CByte) /\ queue \in Seq(CByte) /\ Len(queue) = 0 /\ Len(message) = 0
    BY <1>1, <1>2, <1>3
  <2>4. waits \in [Clients -> {"no", "recv", "ended"}] /\ lost \in [Clients -> BOOLEAN] /\ count \in Nat
    BY <1>1
  <2> QED BY <1>1, <1>3, <2>1, <2>2, <2>3, <2>4 DEF ConnectedType
<1>5. ASSUME NEW c \in Clients PROVE OnePlace(c) /\ OwnText(c)
  <2>1. Len(shown[c]) = 0 /\ Len(lines[c]) = 0 /\ waits[c] = "no" /\ Len(queue) = 0 /\ Len(message) = 0
    BY <1>1, <1>3
  <2>2. ~ Requested(c) /\ ~ InSocket(c) /\ c \notin unanswered /\ ~ Replied(c) /\ c \notin peer
    BY <1>1, <1>3, <2>1 DEF Requested, InSocket, Replied
  <2>3. OnePlace(c)
    BY <1>1, <1>3, <2>1, <2>2 DEF OnePlace, LastLine
  <2>4. OwnText(c)
    BY <1>1, <1>3, <2>1, <2>2 DEF OwnText
  <2> QED BY <2>3, <2>4
<1> QED BY <1>4, <1>5 DEF ConnectedInv

-----------------------------------------------------------------------------
(* All programs together.                                                  *)

CourseInv ==
    /\ program \in Programs
    /\ SocketsType /\ EchoInv
    /\ NonblockingInv /\ PollInv /\ EpollInv /\ WorkerInv /\ GraceInv
    /\ DatagramInv /\ ConnectedInv

\* Nothing has been sent yet.
LEMMA SocketsFirst ==
    ASSUME SocketsInit
    PROVE  /\ SocketsType
           /\ \A c \in Clients :
                /\ stale[c] = <<>> /\ sent[c] = <<>> /\ reply[c] = <<>> /\ outbuf[c] = <<>>
                /\ conn[c] = "idle"
                /\ \A cut : InStep(program, stale[c], sent[c], taken[c], reply[c], outbuf[c], cut)
<1>1. /\ conn = [c \in Clients |-> "idle"] /\ ending = [c \in Clients |-> "no"]
      /\ sent = [c \in Clients |-> <<>>] /\ taken = [c \in Clients |-> 0]
      /\ outbuf = [c \in Clients |-> <<>>]
      /\ reply = [c \in Clients |-> <<>>] /\ seen = [c \in Clients |-> 0]
      /\ alive = TRUE /\ stale = [c \in Clients |-> <<>>] /\ spoiled = [c \in Clients |-> FALSE]
  BY DEF SocketsInit
<1>2. \A S : <<>> \in Seq(S) /\ Len(<<>>) = 0
  BY EmptySeq
<1>3. SocketsType
  <2>1. \A c \in Clients : 0 <= Bound[c] /\ 0 <= 0
    <3>1. \A c \in Clients : Bound[c] \in Nat
      BY BoundType, Zenon
    <3>2. \A n \in Nat : 0 <= n /\ 0 <= 0
      OBVIOUS
    <3> QED BY <3>1, <3>2, Zenon
  <2>2. /\ sent \in [Clients -> Seq(Byte)] /\ outbuf \in [Clients -> Seq(Char)]
        /\ reply \in [Clients -> Seq(Char)] /\ stale \in [Clients -> Seq(Byte)]
    BY <1>1, <1>2
  <2>3. \A c \in Clients : Len(sent[c]) = 0 /\ taken[c] = 0 /\ seen[c] = 0 /\ Len(reply[c]) = 0
    BY <1>1, <1>2
  <2>4. /\ conn \in [Clients -> {"idle", "backlog", "open", "closed"}]
        /\ ending \in [Clients -> {"no", "fin", "rst"}] /\ taken \in [Clients -> Nat]
        /\ seen \in [Clients -> Nat] /\ alive \in BOOLEAN /\ spoiled \in [Clients -> BOOLEAN]
    BY <1>1
  <2> QED BY <2>1, <2>2, <2>3, <2>4 DEF SocketsType
<1>4. ASSUME NEW c \in Clients
      PROVE  /\ stale[c] = <<>> /\ sent[c] = <<>> /\ reply[c] = <<>> /\ outbuf[c] = <<>>
             /\ conn[c] = "idle" /\ taken[c] = 0
  BY <1>1
<1>5. \A cut : InStep(program, <<>>, <<>>, 0, <<>>, <<>>, cut)
  <2>1. <<>> \in Seq(Byte)
    BY <1>2
  <2> QED BY <2>1, InStepFirst, Zenon
<1> QED BY <1>3, <1>4, <1>5

LEMMA CourseFirst == Init => CourseInv
<1> SUFFICES ASSUME Init PROVE CourseInv
  OBVIOUS
<1>1. /\ SocketsInit /\ buffer = [f \in Nonblocking!Fds |-> Nonblocking!alloc_Buffer]
      /\ event_set = [e \in Poll!Entries |-> None] /\ edges = {} /\ missed = {}
      /\ worker = [c \in Clients |-> "none"] /\ sigchld = FALSE
  BY DEF Init, Nonblocking!Init, Nonblocking!SocketsInit, SocketsInit, Poll!Init, Epoll!Init,
         Fork!Init, Fork!LineInit
<1>2. pc = "wait" /\ ready = {}
  BY <1>1 DEF SocketsInit
<1>3. /\ SocketsType
      /\ \A c \in Clients :
           /\ stale[c] = <<>> /\ sent[c] = <<>> /\ reply[c] = <<>> /\ outbuf[c] = <<>>
           /\ conn[c] = "idle"
           /\ \A cut : InStep(program, stale[c], sent[c], taken[c], reply[c], outbuf[c], cut)
  BY <1>1, SocketsFirst
<1>4. EchoInv
  BY <1>3, Zenon DEF EchoInv
<1>5. NonblockingInv
  <2>1. Nonblocking!alloc_Buffer.connect_fd = None /\ Fits(Nonblocking!alloc_Buffer)
    <3>1. <<>> \in Seq(Byte) /\ Len(<<>>) = 0
      BY EmptySeq
    <3> QED BY <3>1, MaxLineType DEF Nonblocking!alloc_Buffer, Fits, Buffers
  <2>2. BufferInv
    BY <1>1, <1>2, <2>1 DEF BufferInv, Fits
  <2>3. \A f \in Nonblocking!Fds, c \in Clients : ~ Holds(f, c)
    BY <1>1, <2>1, MaxLineType DEF Holds
  <2>4. HolderInv
    BY <1>2, <2>3 DEF HolderInv
  <2>5. PendingInv
    BY <1>3, <2>3, Zenon DEF PendingInv
  <2> QED BY <2>2, <2>4, <2>5 DEF NonblockingInv
<1>6. PollInv
  BY <1>1, <1>2 DEF PollInv
<1>7. EpollInv
  BY <1>1, <1>2, <1>3 DEF EpollInv
<1>8. WorkerInv
  <2>1. \A c \in Clients : Len(outbuf[c]) <= LINE_SIZE + 1
    <3>1. Len(<<>>) = 0
      BY EmptySeq
    <3>2. 0 <= LINE_SIZE + 1
      BY ServersAssumption DEF Fork!MaxLineAssumption
    <3> QED BY <1>3, <3>1, <3>2
  <2> QED BY <1>1, <1>2, <2>1 DEF WorkerInv
<1>9. GraceInv
  BY <1>2, <1>3 DEF GraceInv
<1>10. DatagramInv /\ ConnectedInv
  <2>1. CASE program = "connected"
    BY <2>1, ConnectedFirst DEF Init, DatagramInv
  <2>2. CASE program # "connected"
    BY <2>2, DatagramFirst DEF Init, ConnectedInv
  <2> QED BY <2>1, <2>2
<1> QED BY <1>3, <1>4, <1>5, <1>6, <1>7, <1>8, <1>9, <1>10 DEF CourseInv, Init

\* An invariant of a program says nothing of the others.
LEMMA OtherPrograms ==
    ASSUME program' = program
    PROVE  /\ program # "nonblocking" => NonblockingInv'
           /\ program # "poll" => PollInv'
           /\ program # "epoll" => EpollInv'
           /\ program \notin {"fork", "thread"} => WorkerInv'
           /\ program # "grace" => GraceInv'
           /\ program # "connected" => ConnectedInv'
<1>1. program # "nonblocking" => NonblockingInv'
  BY Zenon DEF NonblockingInv
<1>2. program # "poll" => PollInv'
  BY Zenon DEF PollInv
<1>3. program # "epoll" => EpollInv'
  BY Zenon DEF EpollInv
<1>4. program \notin {"fork", "thread"} => WorkerInv'
  BY Zenon DEF WorkerInv
<1>5. program # "grace" => GraceInv'
  BY Zenon DEF GraceInv
<1>6. program # "connected" => ConnectedInv'
  BY Zenon DEF ConnectedInv
<1> QED BY <1>1, <1>2, <1>3, <1>4, <1>5, <1>6

LEMMA DatagramKept ==
    ASSUME DatagramInv, UNCHANGED <<program, datagramVars>>
    PROVE  DatagramInv'
BY DEF datagramVars, DatagramInv, DatagramType, OneUnderWay, UnderWay

LEMMA SocketsKept ==
    ASSUME SocketsType, EchoInv, UNCHANGED <<program, sockets>>
    PROVE  SocketsType' /\ EchoInv'
<1>1. conn' \in [Clients -> {"idle", "backlog", "open", "closed"}] /\ alive' \in BOOLEAN
  BY DEF SocketsType, sockets
<1> QED BY <1>1, ConnectionStep DEF sockets

LEMMA CourseKept ==
    ASSUME CourseInv, UNCHANGED vars
    PROVE  CourseInv'
<1>1. UNCHANGED <<program, sockets, serverVars, datagramVars>>
  BY DEF vars
<1>2. SocketsType' /\ EchoInv' /\ DatagramInv'
  BY <1>1, SocketsKept, DatagramKept DEF CourseInv
<1>3. NonblockingInv'
  BY <1>1 DEF CourseInv, NonblockingInv, BufferInv, HolderInv, PendingInv, Holds, sockets, serverVars
<1>4. PollInv'
  BY <1>1 DEF CourseInv, PollInv, sockets, serverVars
<1>5. EpollInv'
  BY <1>1 DEF CourseInv, EpollInv, sockets, serverVars
<1>6. WorkerInv'
  BY <1>1 DEF CourseInv, WorkerInv, sockets, serverVars
<1>7. GraceInv'
  BY <1>1 DEF CourseInv, GraceInv, sockets, serverVars
<1>8. ConnectedInv'
  <2>1. UNCHANGED <<program, lines, waits, shown, requests, answers, message, unanswered, queue,
                    peer, count, running, damaged, mixed, lost>>
    BY <1>1 DEF datagramVars
  <2>2. ConnectedType => ConnectedType'
    BY <2>1 DEF ConnectedType
  <2>3. ASSUME NEW b \in Clients, OnePlace(b), OwnText(b) PROVE OnePlace(b)' /\ OwnText(b)'
    <3>1. OnePlace(b)'
      BY <2>1, <2>3 DEF OnePlace, Requested, InSocket, Replied, LastLine
    <3>2. OwnText(b)'
      BY <2>1, <2>3 DEF OwnText, Requested, InSocket, LastLine
    <3> QED BY <3>1, <3>2
  <2> QED BY <2>1, <2>2, <2>3 DEF CourseInv, ConnectedInv
<1> QED BY <1>1, <1>2, <1>3, <1>4, <1>5, <1>6, <1>7, <1>8 DEF CourseInv

LEMMA CourseStep == CourseInv /\ [Next]_vars => CourseInv'
<1> SUFFICES ASSUME CourseInv, [Next]_vars PROVE CourseInv'
  OBVIOUS
<1>1. CASE NonblockingNext
  <2>1. program = "nonblocking" /\ UNCHANGED <<program, datagramVars>>
    BY <1>1 DEF NonblockingNext, others
  <2>2. SocketsType' /\ EchoInv' /\ NonblockingInv'
    BY <1>1, NonblockingStep DEF CourseInv
  <2> QED BY <2>1, <2>2, OtherPrograms, DatagramKept DEF CourseInv
<1>2. CASE PollNext
  <2>1. program = "poll" /\ UNCHANGED <<program, datagramVars>>
    BY <1>2 DEF PollNext, others
  <2>2. SocketsType' /\ EchoInv' /\ PollInv'
    BY <1>2, PollStep DEF CourseInv
  <2> QED BY <2>1, <2>2, OtherPrograms, DatagramKept DEF CourseInv
<1>3. CASE EpollNext
  <2>1. program = "epoll" /\ UNCHANGED <<program, datagramVars>>
    BY <1>3 DEF EpollNext, others
  <2>2. SocketsType' /\ EchoInv' /\ EpollInv'
    BY <1>3, EpollStep DEF CourseInv
  <2> QED BY <2>1, <2>2, OtherPrograms, DatagramKept DEF CourseInv
<1>4. CASE ForkNext
  <2>1. program = "fork" /\ UNCHANGED <<program, datagramVars>>
    BY <1>4 DEF ForkNext, others
  <2>2. SocketsType' /\ EchoInv' /\ WorkerInv'
    BY <1>4, ForkStep DEF CourseInv
  <2> QED BY <2>1, <2>2, OtherPrograms, DatagramKept DEF CourseInv
<1>5. CASE ThreadNext
  <2>1. program = "thread" /\ UNCHANGED <<program, datagramVars>>
    BY <1>5 DEF ThreadNext, others
  <2>2. SocketsType' /\ EchoInv' /\ WorkerInv'
    BY <1>5, ThreadStep DEF CourseInv
  <2> QED BY <2>1, <2>2, OtherPrograms, DatagramKept DEF CourseInv
<1>6. CASE GraceNext
  <2>1. program = "grace" /\ UNCHANGED <<program, datagramVars>>
    BY <1>6 DEF GraceNext, others
  <2>2. SocketsType' /\ EchoInv' /\ GraceInv'
    BY <1>6, GraceStep DEF CourseInv
  <2> QED BY <2>1, <2>2, OtherPrograms, DatagramKept DEF CourseInv
<1>7. CASE QueueNext \/ HeartbeatNext \/ ReadersNext
  <2>1. program \in {"queue", "heartbeat", "readers"} /\ UNCHANGED <<program, sockets, datagramVars>>
    BY <1>7 DEF QueueNext, HeartbeatNext, ReadersNext
  <2> QED BY <2>1, SocketsKept, OtherPrograms, DatagramKept DEF CourseInv
<1>8. CASE DatagramsNext
  <2>1. program = "datagrams" /\ UNCHANGED <<program, sockets>>
    BY <1>8 DEF DatagramsNext
  <2> QED BY <1>8, <2>1, SocketsKept, OtherPrograms, DatagramStep DEF CourseInv
<1>9. CASE ConnectedNext
  <2>1. program = "connected" /\ UNCHANGED <<program, sockets>>
    BY <1>9 DEF ConnectedNext
  <2>2. DatagramInv'
    BY <2>1, Zenon DEF DatagramInv
  <2> QED BY <1>9, <2>1, <2>2, SocketsKept, OtherPrograms, ConnectedStep DEF CourseInv
<1>10. CASE UNCHANGED vars
  BY <1>10, CourseKept
<1> QED BY <1>1, <1>2, <1>3, <1>4, <1>5, <1>6, <1>7, <1>8, <1>9, <1>10 DEF Next

LEMMA CourseHolds == Spec => []CourseInv
<1> QED BY CourseFirst, CourseStep, PTL DEF Spec

\* A client gets back its own bytes, all of them, once and in order, for any
\* number of clients and any sizes of the servers' buffers, however the reads
\* and writes divide what is sent and whatever other clients do, behind what
\* an earlier connection left in the buffer of chapter 22
\* (nonblockingserver.c:50-96, pollserver.c:55-64, epoll01.c:67-86,
\* fork01.c:20-40, echo.c:18-39, graceserver.c:49-70); and a client of
\* chapters 6 and 14 the answer to its last line, unless a datagram of its was
\* delivered twice, or the server of chapter 14 heard somebody else too
\* (udpclient.c:39-47, udpconnectserver.c:41-68).
THEOREM EchoedInOrder == Spec => []RepliesInOrder
<1>1. ASSUME CourseInv, NEW c \in Clients, ~ spoiled[c]
      PROVE  IsPrefix(Payload(reply[c]), stale[c] \o Echo(sent[c]))
  <2>1. Echo(sent[c]) = Echoed(program, sent[c])
    BY DEF Echo, Echoed
  <2>2. /\ stale[c] \in Seq(Byte) /\ sent[c] \in Seq(Byte) /\ reply[c] \in Seq(Char)
        /\ taken[c] \in 0..Len(sent[c])
    <3>1. /\ stale[c] \in Seq(Byte) /\ sent[c] \in Seq(Byte) /\ reply[c] \in Seq(Char)
          /\ taken[c] \in Nat /\ taken[c] <= Len(sent[c])
      BY <1>1 DEF CourseInv, SocketsType
    <3>2. Len(sent[c]) \in Nat
      BY <3>1, LenProperties
    <3> QED BY <3>1, <3>2
  <2>3. \E o, cut : InStep(program, stale[c], sent[c], taken[c], reply[c], o, cut)
    <3>1. CASE program = "nonblocking"
      <4>1. InStep(program, stale[c], sent[c], taken[c], reply[c], <<>>, TRUE)
        BY <1>1, <3>1, Zenon DEF CourseInv, NonblockingInv, PendingInv
      <4> QED BY <4>1, Zenon
    <3>2. CASE program # "nonblocking"
      <4>1. InStep(program, stale[c], sent[c], taken[c], reply[c], outbuf[c], ending[c] = "rst")
        BY <1>1, <3>2, Zenon DEF CourseInv, EchoInv
      <4> QED BY <4>1, Zenon
    <3> QED BY <3>1, <3>2, Zenon
  <2> QED BY <2>1, <2>2, <2>3, InStepReply, Zenon
<1>2. CourseInv /\ program # "connected" => Datagram!AnswersMatch
  BY DEF CourseInv, DatagramInv, OneUnderWay, Datagram!AnswersMatch
<1>3. ASSUME CourseInv, program = "connected", ~ damaged, ~ mixed,
             NEW c \in Clients, NEW k \in DOMAIN shown[c]
      PROVE  LET n == lines[c][k].length
                 text == shown[c][k]
             IN  /\ n <= Len(text) /\ SubSeq(text, 1, n) = Connected!Text(c, k)
                 /\ \A i \in n + 1..Len(text) : text[i].client = c /\ text[i].line < k
  <2>1. shown \in [Clients -> Seq(Seq(CByte))] /\ OwnText(c)
    BY <1>3 DEF CourseInv, ConnectedInv, ConnectedType
  <2>2. shown[c] \in Seq(Seq(CByte))
    BY <2>1
  <2>3. k \in 1..Len(shown[c])
    BY <1>3, <2>2, LenProperties
  <2>4. Begins(shown[c][k], c, k, lines[c][k].length)
    BY <2>1, <2>3 DEF OwnText
  <2>5. Connected!Text(c, k) = LineText(c, k, lines[c][k].length)
    BY DEF Connected!Text, LineText
  <2> QED BY <2>4, <2>5, Zenon DEF Begins
<1>4. CourseInv /\ program = "connected" => Connected!AnswersMatch
  BY <1>3, Zenon DEF Connected!AnswersMatch
<1>5. CourseInv => RepliesInOrder
  BY <1>1, <1>2, <1>4, Zenon DEF RepliesInOrder
<1> QED BY <1>5, CourseHolds, PTL

-----------------------------------------------------------------------------
(* The types of all programs.  Of the readers: what is put into the        *)
(* caller's buffer fits it, and a record is never empty.                   *)

FitRecord(r) == r # <<>> /\ Len(r) <= Limit

ReaderSizes ==
    /\ \A k \in 1..Len(records) : FitRecord(records[k])
    /\ Len(line) <= Limit
    /\ function = "readline_2" => Len(line) < Limit
    /\ function \in {"readline", "read_line"} => Len(line) < Limit - 1
    /\ function = "read_message" /\ status = "ok" /\ field = "body" => msg_length \in 1..Limit

LEMMA ReadersSizesStep ==
    ASSUME ReaderInv, ReaderSizes, Reader!Read
    PROVE  ReaderSizes'
<1>1. /\ ReaderType /\ UNCHANGED <<function, written, stream, arrived>> /\ status = "ok"
      /\ line \in Seq(Bytes) /\ records \in Seq(Seq(Bytes)) /\ Len(line) \in Nat
      /\ Limit \in Nat /\ Limit >= 2
  BY LenProperties, OthersAssumption DEF Reader!Read, ReaderInv, ReaderType, Reader!LimitAssumption
<1>2. <<>> \in Seq(Bytes) /\ Len(<<>>) = 0
  BY EmptySeq
<1>3. Reader!Unread \in Seq(Bytes) /\ (Reader!Unread # <<>> => Head(Reader!Unread) \in Bytes)
  BY <1>1, UnreadParts, HeadTailProperties
\* A record that fits is put behind the others.
<1>4. ASSUME NEW r \in Seq(Bytes), r # <<>>, Len(r) <= Limit, records' = Append(records, r)
      PROVE  \A k \in 1..Len(records') : FitRecord(records'[k])
  <2>1. /\ Len(records) \in Nat /\ Len(records') = Len(records) + 1
        /\ \A k \in 1..Len(records) : records'[k] = records[k]
        /\ records'[Len(records) + 1] = r
    BY <1>1, <1>4, AppendProperties, LenProperties
  <2>2. \A k \in 1..Len(records') : k \in 1..Len(records) \/ k = Len(records) + 1
    BY <2>1
  <2> QED BY <1>4, <2>1, <2>2 DEF ReaderSizes, FitRecord
<1>5. UNCHANGED records => \A k \in 1..Len(records') : FitRecord(records'[k])
  BY DEF ReaderSizes, FitRecord
<1>6. CASE function = "readline" /\ Reader!readline
  <2> DEFINE buf == Reader!Buffer
             f == Reader!Feed(buf)
             r == SubSeq(buf, 1, f)
  <2>1. buf \in Seq(Bytes) /\ Len(buf) \in Nat
    <3>1. buf \in Seq(Bytes)
      BY <1>1, <1>3, ConcatProperties DEF Reader!Buffer
    <3> QED BY <3>1, LenProperties
  <2>2. f \in 0..Len(buf)
    BY <2>1, FeedFound
  <2>3. r \in Seq(Bytes) /\ Len(r) = f
    <3> HIDE DEF buf, f
    <3> QED BY <2>1, <2>2, SplitAt
  <2>4. \/ UNCHANGED <<line, records>>
        \/ f \in 1..Limit - 1 /\ records' = Append(records, r) /\ line' = <<>>
        \/ ~ Len(buf) >= Limit - 1 /\ line' = buf /\ UNCHANGED records
    BY <1>6, Zenon DEF Reader!readline, Reader!Fail, Reader!Return, Reader!More
  <2> HIDE DEF buf, f, r
  <2>5. Len(line) < Limit - 1
    BY <1>6 DEF ReaderSizes
  <2>6. f \in 1..Limit - 1 => r # <<>> /\ Len(r) <= Limit
    BY <1>1, <1>2, <2>3
  <2>7. \A k \in 1..Len(records') : FitRecord(records'[k])
    BY <1>4, <1>5, <2>3, <2>4, <2>6, Zenon
  <2>8. Len(line') < Limit - 1 /\ Len(line') <= Limit
    <3>1. CASE line' = line
      BY <1>1, <2>5, <3>1
    <3>2. CASE line' = <<>>
      BY <1>1, <1>2, <3>2
    <3>3. CASE ~ Len(buf) >= Limit - 1 /\ line' = buf
      BY <1>1, <2>1, <3>3
    <3> QED BY <2>4, <3>1, <3>2, <3>3
  <2> QED BY <1>1, <1>6, <2>7, <2>8 DEF ReaderSizes
<1>7. CASE function = "readline_2" /\ Reader!readline_2
  <2> DEFINE r == Append(line, Head(Reader!Unread))
  <2>1. \/ UNCHANGED <<line, records>>
        \/ Reader!Unread # <<>> /\ records' = Append(records, r) /\ line' = <<>>
        \/ Reader!Unread # <<>> /\ Len(r) # Limit /\ line' = r /\ UNCHANGED records
    BY <1>7, Zenon DEF Reader!readline_2, Reader!Fail, Reader!Return, Reader!More
  <2>2. Reader!Unread # <<>> => r \in Seq(Bytes) /\ r # <<>> /\ Len(r) = Len(line) + 1
    BY <1>1, <1>3, AppendProperties
  <2> HIDE DEF r
  <2>3. Len(line) < Limit
    BY <1>7 DEF ReaderSizes
  <2>4. Reader!Unread # <<>> => r # <<>> /\ Len(r) <= Limit /\ r \in Seq(Bytes)
    BY <1>1, <2>2, <2>3
  <2>5. \A k \in 1..Len(records') : FitRecord(records'[k])
    BY <1>4, <1>5, <2>1, <2>4, Zenon
  <2>6. Len(line') < Limit /\ Len(line') <= Limit
    <3>1. CASE line' = line
      BY <1>1, <2>3, <3>1
    <3>2. CASE line' = <<>>
      BY <1>1, <1>2, <3>2
    <3>3. CASE Reader!Unread # <<>> /\ Len(r) # Limit /\ line' = r
      BY <1>1, <2>2, <2>3, <3>3
    <3> QED BY <2>1, <3>1, <3>2, <3>3
  <2> QED BY <1>1, <1>7, <2>5, <2>6 DEF ReaderSizes
<1>8. CASE function = "read_line" /\ Reader!read_line
  <2> DEFINE b == IF Head(Reader!Unread) = Reader!CR THEN Reader!NL ELSE Head(Reader!Unread)
             r == Append(line, b)
  <2>1. \/ UNCHANGED <<line, records>>
        \/ line # <<>> /\ records' = Append(records, line) /\ line' = <<>>
        \/ Reader!Unread # <<>> /\ records' = Append(records, r) /\ line' = <<>>
        \/ Reader!Unread # <<>> /\ Len(r) # Limit - 1 /\ line' = r /\ UNCHANGED records
    BY <1>8, Zenon DEF Reader!read_line, Reader!Fail, Reader!Return, Reader!More
  <2>2. Reader!Unread # <<>> => b \in Bytes
    BY <1>3, <1>8 DEF Bytes
  <2> HIDE DEF b
  <2>3. Reader!Unread # <<>> => r \in Seq(Bytes) /\ r # <<>> /\ Len(r) = Len(line) + 1
    BY <1>1, <2>2, AppendProperties
  <2> HIDE DEF r
  <2>4. Len(line) < Limit - 1 /\ Len(line) <= Limit
    BY <1>8 DEF ReaderSizes
  <2>5. Reader!Unread # <<>> => r # <<>> /\ Len(r) <= Limit /\ r \in Seq(Bytes)
    BY <1>1, <2>3, <2>4
  <2>6. \A k \in 1..Len(records') : FitRecord(records'[k])
    BY <1>1, <1>4, <1>5, <2>1, <2>4, <2>5, Zenon
  <2>7. Len(line') < Limit - 1 /\ Len(line') <= Limit
    <3>1. CASE line' = line
      BY <1>1, <2>4, <3>1
    <3>2. CASE line' = <<>>
      BY <1>1, <1>2, <3>2
    <3>3. CASE Reader!Unread # <<>> /\ Len(r) # Limit - 1 /\ line' = r
      BY <1>1, <2>3, <2>4, <3>3
    <3> QED BY <2>1, <3>1, <3>2, <3>3
  <2> QED BY <1>1, <1>8, <2>6, <2>7 DEF ReaderSizes
<1>9. CASE function = "read_message" /\ Reader!read_message
  <2>1. MessageInv /\ Len(line) < Size /\ Bytes = Nat
    BY <1>1, <1>9, MessageTypes DEF ReaderInv, MessageInv
  <2>2. got' = got + Len(Received) - Len(line)
    BY <1>9 DEF Reader!read_message, Received, Size
  <2>3. Received \in Seq(Bytes) /\ Len(Received) \in Nat /\ Len(Received) <= Size /\ Size \in Nat
    BY <1>1, <1>9, <2>1, <2>2, ReceivedParts
  <2>4. Size <= Limit /\ (field = "body" => Size >= 1)
    BY <1>1, <1>9 DEF ReaderSizes, Size, Reader!sizeof_u_int32_t, ReaderType
  <2>5. \/ UNCHANGED <<line, records>> /\ status' # "ok"
        \/ line' = Received /\ UNCHANGED <<records, field, msg_length>>
        \/ line' = <<>> /\ UNCHANGED records /\ field' = "type"
        \/ /\ line' = <<>> /\ UNCHANGED <<records, msg_length>> /\ field' = "body"
           /\ ~ msg_length > Limit /\ msg_length # 0
        \/ /\ Len(Received) >= Size /\ field = "body"
           /\ records' = Append(records, Received) /\ line' = <<>> /\ field' = "length"
    <3>1. "ok" # "closed" /\ "ok" # "error"
      OBVIOUS
    <3> QED BY <1>9, <3>1, Zenon DEF Reader!read_message, Received, Size, Reader!Fail, Reader!Return, Reader!More
  <2>6. \A k \in 1..Len(records') : FitRecord(records'[k])
    <3>1. Len(Received) >= Size /\ field = "body" => Received # <<>> /\ Len(Received) <= Limit
      BY <1>1, <1>2, <2>3, <2>4
    <3> QED BY <1>4, <1>5, <2>3, <2>5, <3>1, Zenon
  <2>7. Len(line') <= Limit
    <3>1. CASE line' = line
      BY <3>1 DEF ReaderSizes
    <3>2. CASE line' = <<>>
      BY <1>1, <1>2, <3>2
    <3>3. CASE line' = Received
      BY <1>1, <2>3, <2>4, <3>3
    <3> QED BY <2>5, <3>1, <3>2, <3>3
  <2>8. status' = "ok" /\ field' = "body" => msg_length' \in 1..Limit
    <3>1. msg_length \in Nat
      BY <1>1 DEF ReaderType
    <3>2. field = "body" => msg_length \in 1..Limit
      BY <1>1, <1>9 DEF ReaderSizes
    <3>3. ~ msg_length > Limit /\ msg_length # 0 => msg_length \in 1..Limit
      BY <1>1, <3>1
    <3>4. "body" # "type" /\ "body" # "length"
      OBVIOUS
    <3> QED BY <2>5, <3>2, <3>3, <3>4, Zenon
  <2>9. function' = "read_message"
    BY <1>1, <1>9
  <2> QED BY <2>6, <2>7, <2>8, <2>9 DEF ReaderSizes
<1> QED BY <1>6, <1>7, <1>8, <1>9 DEF Reader!Read

LEMMA ReaderSizesHold == Spec => []ReaderSizes
<1>1. Init => ReaderSizes
  <2> SUFFICES ASSUME Init PROVE ReaderSizes
    OBVIOUS
  <2>1. line = <<>> /\ records = <<>> /\ field = "length" /\ Len(<<>>) = 0
    BY EmptySeq DEF Init, Reader!Init
  <2>2. Limit \in Nat /\ Limit >= 2
    BY OthersAssumption DEF Reader!LimitAssumption
  <2>3. Len(records) = 0 /\ Len(line) = 0
    BY <2>1
  <2> QED BY <2>1, <2>2, <2>3 DEF ReaderSizes
<1>2. ReaderInv /\ ReaderSizes /\ [Next]_vars => ReaderSizes'
  <2>1. ASSUME ReaderSizes, UNCHANGED <<function, line, records, status, field, msg_length>> PROVE ReaderSizes'
    BY <2>1 DEF ReaderSizes, FitRecord
  <2>2. Reader!arrive \/ UNCHANGED readerVars => UNCHANGED <<function, line, records, status, field, msg_length>>
    BY DEF Reader!arrive, Reader!call, readerVars
  <2> QED BY <2>1, <2>2, ReadersSizesStep, ReadersStep DEF Reader!Next
<1> QED BY <1>1, <1>2, ReaderHolds, PTL DEF Spec

\* The sockets have the type that each server gives them.
LEMMA SocketsTyped ==
    ASSUME SocketsType
    PROVE  /\ program = "nonblocking" => Nonblocking!SocketsTypeOK
           /\ program = "poll" => Poll!SocketsTypeOK
           /\ program = "epoll" => Epoll!SocketsTypeOK
           /\ program = "fork" => Fork!SocketsTypeOK
           /\ program = "thread" => Thread!SocketsTypeOK
           /\ program = "grace" => Grace!SocketsTypeOK
<1> DEFINE Typed(bound) ==
        /\ conn \in [Clients -> {"idle", "backlog", "open", "closed"}]
        /\ ending \in [Clients -> {"no", "fin", "rst"}]
        /\ \A c \in Clients :
              /\ sent[c] \in Seq(Byte) /\ Len(sent[c]) <= bound[c]
              /\ taken[c] \in 0..Len(sent[c])
              /\ outbuf[c] \in Seq(Byte \cup {"Hi"})
              /\ reply[c] \in Seq(Byte \cup {"Hi"}) /\ seen[c] \in 0..Len(reply[c])
              /\ stale[c] \in Seq(Byte)
        /\ alive \in BOOLEAN
        /\ spoiled \in [Clients -> BOOLEAN]
<1>1. Typed(Bound)
  <2>1. ASSUME NEW c \in Clients
        PROVE  /\ sent[c] \in Seq(Byte) /\ Len(sent[c]) <= Bound[c]
               /\ taken[c] \in 0..Len(sent[c])
               /\ outbuf[c] \in Seq(Char) /\ reply[c] \in Seq(Char)
               /\ seen[c] \in 0..Len(reply[c]) /\ stale[c] \in Seq(Byte)
    <3>1. /\ sent[c] \in Seq(Byte) /\ outbuf[c] \in Seq(Char) /\ reply[c] \in Seq(Char)
          /\ stale[c] \in Seq(Byte) /\ taken[c] \in Nat /\ seen[c] \in Nat
          /\ Len(sent[c]) <= Bound[c] /\ taken[c] <= Len(sent[c]) /\ seen[c] <= Len(reply[c])
      BY DEF SocketsType
    <3>2. Len(sent[c]) \in Nat /\ Len(reply[c]) \in Nat
      BY <3>1, LenProperties
    <3>3. taken[c] \in 0..Len(sent[c]) /\ seen[c] \in 0..Len(reply[c])
      BY <3>1, <3>2
    <3> QED BY <3>1, <3>3
  <2> QED BY <2>1, Zenon DEF SocketsType, Char
<1>2. Bound = IF program \in {"fork", "thread"} THEN LineSent ELSE MaxSent
  BY DEF Bound
<1>3. program \in {"fork", "thread"} => Typed(LineSent)
  BY <1>1, <1>2
<1>4. program \in {"nonblocking", "poll", "epoll", "grace"} => Typed(MaxSent)
  BY <1>1, <1>2
<1>5. Typed(MaxSent) => /\ Nonblocking!SocketsTypeOK /\ Poll!SocketsTypeOK
                        /\ Epoll!SocketsTypeOK /\ Grace!SocketsTypeOK
  BY DEF Nonblocking!SocketsTypeOK, Nonblocking!Byte, Nonblocking!NL, Poll!SocketsTypeOK, Poll!Byte, Poll!NL,
         Epoll!SocketsTypeOK, Epoll!Byte, Epoll!NL, Grace!SocketsTypeOK, Grace!Byte, Grace!NL, Byte, NL
<1>6. Typed(LineSent) => Fork!SocketsTypeOK /\ Thread!SocketsTypeOK
  BY DEF Fork!SocketsTypeOK, Fork!Byte, Fork!NL, Thread!SocketsTypeOK, Thread!Byte, Thread!NL, Byte, NL
<1> HIDE DEF Typed
<1> QED BY <1>3, <1>4, <1>5, <1>6

LEMMA ServersTyped ==
    ASSUME CourseInv
    PROVE  /\ program = "nonblocking" => Nonblocking!TypeOK
           /\ program = "poll" => Poll!TypeOK
           /\ program = "epoll" => Epoll!TypeOK
           /\ program = "fork" => Fork!TypeOK
           /\ program = "thread" => Thread!TypeOK
           /\ program = "grace" => Grace!TypeOK
<1>1. SocketsType
  BY DEF CourseInv
<1>2. program = "nonblocking" => Nonblocking!TypeOK
  <2> SUFFICES ASSUME program = "nonblocking" PROVE Nonblocking!TypeOK
    OBVIOUS
  <2>1. Nonblocking!SocketsTypeOK
    BY <1>1, SocketsTyped
  <2>2. BufferInv
    BY DEF CourseInv, NonblockingInv
  <2>3. ASSUME NEW f \in Nonblocking!Fds
        PROVE  /\ buffer[f].connect_fd \in Clients \cup {None}
               /\ buffer[f].buffer \in Seq(Nonblocking!Byte) /\ Len(buffer[f].buffer) <= MAX_LINE
               /\ buffer[f].readIndex \in 0..Len(buffer[f].buffer)
               /\ buffer[f].readable \in BOOLEAN
    <3>1. buffer[f] \in Buffers /\ Len(buffer[f].buffer) <= MAX_LINE /\ buffer[f].readIndex <= Len(buffer[f].buffer)
      BY <2>2 DEF BufferInv, Fits
    <3>2. /\ buffer[f].connect_fd \in Clients \cup {None} /\ buffer[f].buffer \in Seq(Byte)
          /\ buffer[f].readIndex \in Nat /\ buffer[f].readable \in BOOLEAN
      BY <3>1 DEF Buffers
    <3>3. Len(buffer[f].buffer) \in Nat
      BY <3>2, LenProperties
    <3>4. buffer[f].readIndex \in 0..Len(buffer[f].buffer)
      BY <3>1, <3>2, <3>3
    <3>5. Nonblocking!Byte = Byte
      BY DEF Nonblocking!Byte, Nonblocking!NL, Byte, NL
    <3> QED BY <3>1, <3>2, <3>4, <3>5
  <2> QED BY <2>1, <2>2, <2>3, Zenon DEF Nonblocking!TypeOK, BufferInv
<1>3. program = "poll" => Poll!TypeOK
  BY <1>1, SocketsTyped DEF CourseInv, PollInv, Poll!TypeOK
<1>4. program = "epoll" => Epoll!TypeOK
  BY <1>1, SocketsTyped DEF CourseInv, EpollInv, Epoll!TypeOK
<1>5. program = "fork" => Fork!TypeOK
  BY <1>1, SocketsTyped DEF CourseInv, WorkerInv, Fork!TypeOK, Fork!LineTypeOK
<1>6. program = "thread" => Thread!TypeOK
  BY <1>1, SocketsTyped DEF CourseInv, WorkerInv, Thread!TypeOK, Thread!LineTypeOK
<1>7. program = "grace" => Grace!TypeOK
  BY <1>1, SocketsTyped DEF CourseInv, GraceInv, Grace!TypeOK
<1> QED BY <1>2, <1>3, <1>4, <1>5, <1>6, <1>7

LEMMA DatagramsTyped ==
    ASSUME CourseInv
    PROVE  /\ program # "connected" => Datagram!TypeOK
           /\ program = "connected" => Connected!TypeOK
<1>1. program # "connected" => Datagram!TypeOK
  BY DEF CourseInv, DatagramInv, DatagramType, UnderWay, Datagram!TypeOK
<1>2. program = "connected" => Connected!TypeOK
  <2> SUFFICES ASSUME program = "connected" PROVE Connected!TypeOK
    OBVIOUS
  <2>1. ConnectedType
    BY DEF CourseInv, ConnectedInv
  <2>2. Connected!Byte = CByte
    BY DEF Connected!Byte, CByte
  <2>3. ASSUME NEW c \in Clients
        PROVE  /\ lines[c] \in Seq([length : Lengths, goodbye : BOOLEAN])
               /\ \A k \in DOMAIN shown[c] : shown[c][k] \in Seq(CByte)
    <3>1. lines[c] \in Seq([length : Lengths, goodbye : BOOLEAN]) /\ shown[c] \in Seq(Seq(CByte))
      BY <2>1 DEF ConnectedType
    <3>2. \A k \in DOMAIN shown[c] : shown[c][k] \in Seq(CByte)
      BY <3>1, LenProperties, ElementOfSeq
    <3> QED BY <3>1, <3>2
  <2>4. ASSUME NEW d \in requests PROVE d.client \in Clients /\ d.line \in DOMAIN lines[d.client]
    <3>1. d \in CByte /\ d.line \in 1..Len(lines[d.client])
      BY <2>1 DEF ConnectedType
    <3>2. d.client \in Clients
      BY <3>1 DEF CByte
    <3>3. lines[d.client] \in Seq([length : Lengths, goodbye : BOOLEAN])
      BY <2>1, <3>2 DEF ConnectedType
    <3>4. DOMAIN lines[d.client] = 1..Len(lines[d.client])
      BY <3>3, LenProperties
    <3> QED BY <3>1, <3>2, <3>4
  <2>5. queue \in Seq([client : Clients, line : Nat])
    BY <2>1 DEF ConnectedType, CByte
  <2> QED BY <2>1, <2>2, <2>3, <2>4, <2>5 DEF Connected!TypeOK, ConnectedType
<1> QED BY <1>1, <1>2

LEMMA ReaderTyped ==
    ASSUME ReaderInv, ReaderSizes
    PROVE  Reader!TypeOK
<1>1. /\ ReaderType /\ records \in Seq(Seq(Bytes)) /\ Len(stream) \in Nat
  BY LenProperties DEF ReaderInv, ReaderType
<1>2. 0 <= got /\ got <= arrived /\ arrived <= Len(stream)
  BY <1>1 DEF ReaderType
<1>3. DOMAIN records = 1..Len(records)
  BY <1>1, LenProperties
<1>4. \A k \in DOMAIN records : records[k] # <<>> /\ Len(records[k]) <= Limit
  BY <1>3 DEF ReaderSizes, FitRecord
<1> QED BY <1>1, <1>2, <1>4 DEF Reader!TypeOK, ReaderType, ReaderSizes

\* In each program of the course the tables and descriptors are of their
\* types, and the bytes and the read index of chapter 22, the lines of the
\* thread and fork servers and the records of read.c keep within their arrays,
\* for any number of clients and any sizes; it does not say so of the arrays
\* of graceserver.c and of the datagram programs, which the models overrun
\* (nonblockingserver.c:50-96, pollserver.c:20-64, epoll01.c:40-86,
\* fork01.c:20-40, thread02.c:33-56, read.c:44-130).
THEOREM CourseTypes == Spec => []TypeOK
<1>1. QueueInv => Queue!TypeOK
  BY DEF QueueInv
<1>2. HeartbeatInv => Ping!TypeOK
  BY DEF HeartbeatInv, HeartbeatType
<1>3. CourseInv => program \in Servers \cup Others
  BY ProgramsAssumption DEF CourseInv
<1>4. CourseInv /\ QueueInv /\ HeartbeatInv /\ ReaderInv /\ ReaderSizes => TypeOK
  BY <1>1, <1>2, <1>3, ServersTyped, DatagramsTyped, ReaderTyped DEF TypeOK, Servers, Others
<1> QED BY <1>4, CourseHolds, QueueInvariant, HeartbeatHolds, ReaderHolds, ReaderSizesHold, PTL
=============================================================================
