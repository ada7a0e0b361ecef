----------------------------- MODULE BlockQueue -----------------------------
(***************************************************************************)
(* The blocking queue of chap-26/thread02.c, through which the accepting   *)
(* thread hands connections to workers: an array used as a ring, a mutex   *)
(* and one condition variable.  push does not look whether the ring is     *)
(* full.  Critical sections are single steps; waiting on the condition     *)
(* variable and returning from it are two.  A worker serves a connection   *)
(* for as long as its client likes, and error(1, ...) in any thread ends   *)
(* the process with all the others.                                        *)
(***************************************************************************)
EXTENDS Integers, Sequences, FiniteSets

CONSTANTS
    Workers,        \* THREAD_NUMBER threads
    Number,         \* BLOCK_QUEUE_SIZE
    Connections,    \* bound of the connections that are accepted
    Spurious        \* bound of the spurious wakeups

WorkersAssumption == IsFiniteSet(Workers)
NumberAssumption == Number \in Nat \ {0, 1} /\ Connections \in Nat /\ Spurious \in Nat

VARIABLES
    fd, front, rear,    \* the ring; connections are numbered as accepted
    pushed,             \* how many connections were pushed
    popped,             \* the connections that were popped, in order
    pc,                 \* of each worker: "pop", "wait", "woken", "serve",
                        \* and "ended" when the process has ended
    spurious,           \* wakeups without a signal so far
    overrun             \* history: a connection was pushed into a full ring

ring == <<fd, front, rear>>
vars == <<ring, pushed, popped, pc, spurious, overrun>>

Indices == 0..Number - 1

TypeOK ==
    /\ fd \in [Indices -> 0..Connections]
    /\ front \in Indices /\ rear \in Indices
    /\ pushed \in 0..Connections
    /\ popped \in Seq(0..Connections)
    /\ pc \in [Workers -> {"pop", "wait", "woken", "serve", "ended"}]
    /\ spurious \in 0..Spurious
    /\ overrun \in BOOLEAN

Init ==
    /\ fd = [k \in Indices |-> 0]
    /\ front = 0 /\ rear = 0
    /\ pushed = 0 /\ popped = <<>>
    /\ pc = [w \in Workers |-> "pop"]
    /\ spurious = 0
    /\ overrun = FALSE

-----------------------------------------------------------------------------
Waiting == {w \in Workers : pc[w] = "wait"}

next(k) == IF k + 1 = Number THEN 0 ELSE k + 1

\* Mutants: nobody is signalled, or only when the ring was empty.
signal_none(woken) == woken = {}
signal_first(woken) ==
    IF front # rear \/ Waiting = {} THEN woken = {} ELSE \E w \in Waiting : woken = {w}

\* pthread_cond_signal wakes one of the threads that wait, if any does.
signal(woken) ==
    IF Waiting = {} THEN woken = {} ELSE \E w \in Waiting : woken = {w}

Ended == \A w \in Workers : pc[w] = "ended"

block_queue_push ==
    /\ ~ Ended
    /\ pushed < Connections
    /\ pushed' = pushed + 1
    /\ fd' = [fd EXCEPT ![rear] = pushed']
    /\ rear' = next(rear)
    /\ overrun' = (overrun \/ rear' = front)
    /\ \E woken \in SUBSET Waiting :
          /\ signal(woken)
          /\ pc' = [w \in Workers |-> IF w \in woken THEN "woken" ELSE pc[w]]
    /\ UNCHANGED <<front, popped, spurious>>

\* Mutant: a thread that was woken does not look again.
Empty_unless_woken(w) == front = rear /\ pc[w] = "pop"

Empty(w) == front = rear

\* The while loop of block_queue_pop: under the mutex a worker takes a
\* connection or waits, at first and whenever it was woken.
block_queue_pop(w) ==
    /\ pc[w] \in {"pop", "woken"}
    /\ IF Empty(w)
       THEN pc' = [pc EXCEPT ![w] = "wait"] /\ UNCHANGED <<front, popped>>
       ELSE /\ popped' = Append(popped, fd[front])
            /\ front' = next(front)
            /\ pc' = [pc EXCEPT ![w] = "serve"]
    /\ UNCHANGED <<fd, rear, pushed, spurious, overrun>>

spurious_wakeup(w) ==
    /\ pc[w] = "wait" /\ spurious < Spurious
    /\ spurious' = spurious + 1
    /\ pc' = [pc EXCEPT ![w] = "woken"]
    /\ UNCHANGED <<ring, pushed, popped, overrun>>

\* loop_echo returns when the client has ended the connection.
loop_echo(w) ==
    /\ pc[w] = "serve"
    /\ pc' = [pc EXCEPT ![w] = "pop"]
    /\ UNCHANGED <<ring, pushed, popped, spurious, overrun>>

\* recv fails in a worker, on a connection that was reset, or accept in main:
\* the process ends, whatever is in the ring.
error ==
    /\ ~ Ended
    /\ pc' = [w \in Workers |-> "ended"]
    /\ UNCHANGED <<ring, pushed, popped, spurious, overrun>>

thread_run(w) == block_queue_pop(w) \/ loop_echo(w)

Next ==
    \/ block_queue_push \/ error
    \/ \E w \in Workers : thread_run(w) \/ spurious_wakeup(w)

\* A worker that can take a connection does.  Nothing makes a client end.
Spec == Init /\ [][Next]_vars /\ \A w \in Workers : WF_vars(block_queue_pop(w))

-----------------------------------------------------------------------------
Queued == IF rear >= front THEN rear - front ELSE rear - front + Number
Awake == {w \in Workers : pc[w] \in {"pop", "woken"}}

\* As long as the ring was never full, connections leave it once each and in
\* the order in which they were accepted (thread02.c:33-56).
InOrder ==
    ~overrun => /\ popped = [k \in 1..Len(popped) |-> k]
                /\ Queued = pushed - Len(popped)

\* One signal for each push is enough: workers only wait when as many as there
\* are connections in the ring are on their way to it.
NoIdleWorker == Waiting # {} => Queued <= Cardinality(Awake)

\* Every connection is taken by a worker, unless from some time on all of
\* them serve clients that stay, the process ends or the ring is overrun:
\* no worker waits, or sleeps through its wakeup, beside a connection that
\* nobody takes (thread02.c:33-67).
Busy == \A w \in Workers : pc[w] = "serve"
ConnectionIsServed ==
    <>[]Busy \/ []<>(Len(popped) = pushed \/ Ended \/ overrun)
=============================================================================
