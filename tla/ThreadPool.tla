----------------------------- MODULE ThreadPool -----------------------------
(***************************************************************************)
(* How a server comes up: the main thread starts the pool's threads one by *)
(* one, each time waiting on a condition variable until the new thread has *)
(* made its event loop, and afterwards hands the loops out to accepted     *)
(* connections in turn.  Translated from lib/thread_pool.c and             *)
(* lib/event_loop_thread.c.                                                *)
(***************************************************************************)
EXTENDS Integers

CONSTANTS
    MaxThreads,         \* bound of the pools explored
    MaxConnections      \* bound of the connections handed out

ASSUME MaxThreadsAssumption == MaxThreads \in Nat
ASSUME MaxConnectionsAssumption == MaxConnections \in Nat

Workers == 1..MaxThreads
MainLoop == 0           \* threadPool->mainLoop
Loops == Workers \cup {MainLoop}
None == -1              \* a NULL event loop, a free mutex
Main == 0               \* the main thread, as the holder of a mutex

VARIABLES
    thread_number,      \* threadPool->thread_number
    started,            \* threadPool->started
    position,           \* threadPool->position
    mainPc,             \* where the main thread is
    i,                  \* the thread it is starting
    threadPc,           \* where each pool thread is
    mutex,              \* eventLoopThread->mutex: who holds it
    eventLoop,          \* eventLoopThread->eventLoop: whose loop it is
    connections         \* the connections each loop was given

vars == <<thread_number, started, position, mainPc, i, threadPc, mutex,
          eventLoop, connections>>
pool == <<thread_number, started, position>>

TypeOK ==
    /\ thread_number \in 0..MaxThreads
    /\ started \in BOOLEAN
    /\ position = 0 \/ position \in 1..(thread_number - 1)
    /\ mainPc \in {"start", "create", "lock", "check", "sleep", "wait", "running", "crashed"}
    /\ i \in Workers \cup {0}
    /\ threadPc \in [Workers -> {"none", "lock", "init", "signal", "unlock", "run"}]
    /\ mutex \in [Workers -> Workers \cup {Main, None}]
    /\ eventLoop \in [Workers -> Workers \cup {None}]
    /\ connections \in [Loops -> Nat]

\* thread_pool_new with any number of threads
Init ==
    /\ thread_number \in 0..MaxThreads
    /\ started = FALSE
    /\ position = 0
    /\ mainPc = "start"
    /\ i = 0
    /\ threadPc = [w \in Workers |-> "none"]
    /\ mutex = [w \in Workers |-> None]
    /\ eventLoop = [w \in Workers |-> None]
    /\ connections = [l \in Loops |-> 0]

-----------------------------------------------------------------------------
(* The main thread: thread_pool_start and event_loop_thread_start.         *)

thread_pool_start ==
    /\ mainPc = "start"
    /\ started' = TRUE
    /\ mainPc' = IF thread_number <= 0 THEN "running" ELSE "create"
    /\ i' = IF thread_number <= 0 THEN 0 ELSE 1
    /\ UNCHANGED <<thread_number, position, threadPc, mutex, eventLoop, connections>>

\* event_loop_thread_init and pthread_create
event_loop_thread_start ==
    /\ mainPc = "create"
    /\ eventLoop' = [eventLoop EXCEPT ![i] = None]
    /\ threadPc' = [threadPc EXCEPT ![i] = "lock"]
    /\ mainPc' = "lock"
    /\ UNCHANGED <<pool, i, mutex, connections>>

MainLock ==
    /\ mainPc = "lock"
    /\ mutex[i] = None
    /\ mutex' = [mutex EXCEPT ![i] = Main]
    /\ mainPc' = "check"
    /\ UNCHANGED <<pool, i, threadPc, eventLoop, connections>>

\* while (eventLoopThread->eventLoop == NULL)
NotYet ==
    /\ mainPc = "check"
    /\ eventLoop[i] = None
    /\ mainPc' = "sleep"
    /\ UNCHANGED <<pool, i, threadPc, mutex, eventLoop, connections>>

\* pthread_cond_wait gives the lock back and sleeps in one step.
CondWait ==
    /\ mainPc = "sleep"
    /\ mutex' = [mutex EXCEPT ![i] = None]
    /\ mainPc' = "wait"
    /\ UNCHANGED <<pool, i, threadPc, eventLoop, connections>>

\* The loop is there: unlock, and on to the next thread.
Started ==
    /\ mainPc = "check"
    /\ eventLoop[i] # None
    /\ mutex' = [mutex EXCEPT ![i] = None]
    /\ mainPc' = IF i = thread_number THEN "running" ELSE "create"
    /\ i' = IF i = thread_number THEN i ELSE i + 1
    /\ UNCHANGED <<pool, threadPc, eventLoop, connections>>

\* pthread_cond_wait may return without a signal.
SpuriousWakeup ==
    /\ mainPc = "wait"
    /\ mainPc' = "lock"
    /\ UNCHANGED <<pool, i, threadPc, mutex, eventLoop, connections>>

-----------------------------------------------------------------------------
(* A thread of the pool: event_loop_thread_run.                            *)

\* Mutant: the thread publishes its loop without taking the lock.
ThreadLock_skipped(w) ==
    /\ threadPc[w] = "lock"
    /\ threadPc' = [threadPc EXCEPT ![w] = "init"]
    /\ UNCHANGED <<pool, mainPc, i, mutex, eventLoop, connections>>

ThreadLock(w) ==
    /\ threadPc[w] = "lock"
    /\ mutex[w] = None
    /\ mutex' = [mutex EXCEPT ![w] = w]
    /\ threadPc' = [threadPc EXCEPT ![w] = "init"]
    /\ UNCHANGED <<pool, mainPc, i, eventLoop, connections>>

\* Mutant: the lock is given back before the signal is sent.
event_loop_init_unlocks(w) ==
    /\ threadPc[w] = "init"
    /\ eventLoop' = [eventLoop EXCEPT ![w] = w]
    /\ mutex' = [mutex EXCEPT ![w] = None]
    /\ threadPc' = [threadPc EXCEPT ![w] = "signal"]
    /\ UNCHANGED <<pool, mainPc, i, connections>>

event_loop_init_with_name(w) ==
    /\ threadPc[w] = "init"
    /\ eventLoop' = [eventLoop EXCEPT ![w] = w]
    /\ threadPc' = [threadPc EXCEPT ![w] = "signal"]
    /\ UNCHANGED <<pool, mainPc, i, mutex, connections>>

\* Mutant: the signal is forgotten.
Signal_forgotten(w) ==
    /\ threadPc[w] = "signal"
    /\ threadPc' = [threadPc EXCEPT ![w] = "unlock"]
    /\ UNCHANGED <<pool, mainPc, i, mutex, eventLoop, connections>>

\* A signal wakes the main thread if it waits for this thread, and is lost
\* otherwise.
Signal(w) ==
    /\ threadPc[w] = "signal"
    /\ mainPc' = IF mainPc = "wait" /\ i = w THEN "lock" ELSE mainPc
    /\ threadPc' = [threadPc EXCEPT ![w] = "unlock"]
    /\ UNCHANGED <<pool, i, mutex, eventLoop, connections>>

\* unlock, and event_loop_run
ThreadUnlock(w) ==
    /\ threadPc[w] = "unlock"
    /\ mutex' = [mutex EXCEPT ![w] = None]
    /\ threadPc' = [threadPc EXCEPT ![w] = "run"]
    /\ UNCHANGED <<pool, mainPc, i, eventLoop, connections>>

-----------------------------------------------------------------------------
\* Mutant: the position is compared before it is advanced.
Advanced_early == IF position + 2 >= thread_number THEN 0 ELSE position + 1

\* if (++position >= thread_number) position = 0
Advanced == IF position + 1 >= thread_number THEN 0 ELSE position + 1

\* The loop get_loop selects: the main one if there are no threads, the one
\* at position otherwise; None past the end of the array.
Selected ==
    IF thread_number = 0 THEN MainLoop
    ELSE IF position < thread_number THEN eventLoop[position + 1] ELSE None

\* The caller, handle_connection_established, gives the connection to the
\* loop at once: a loop that does not exist is a NULL dereference.
thread_pool_get_loop ==
    /\ mainPc = "running"
    /\ started
    /\ \A l \in Loops : connections[l] < MaxConnections
    /\ mainPc' = IF Selected \in Loops THEN mainPc ELSE "crashed"
    /\ position' = IF thread_number > 0 THEN Advanced ELSE position
    /\ connections' = [l \in Loops |-> connections[l] + (IF l = Selected THEN 1 ELSE 0)]
    /\ UNCHANGED <<thread_number, started, i, threadPc, mutex, eventLoop>>

-----------------------------------------------------------------------------
MainNext ==
    \/ thread_pool_start \/ event_loop_thread_start
    \/ MainLock \/ NotYet \/ CondWait \/ Started

Thread(w) ==
    \/ ThreadLock(w) \/ event_loop_init_with_name(w) \/ Signal(w) \/ ThreadUnlock(w)

Next ==
    \/ MainNext
    \/ SpuriousWakeup
    \/ thread_pool_get_loop
    \/ \E w \in Workers : Thread(w)

SafeSpec == Init /\ [][Next]_vars

\* Threads run; a mutex that is free again and again is obtained in the
\* end, which matters only because wakeups may be spurious.
Fairness ==
    /\ WF_vars(MainNext)
    /\ \A w \in Workers : WF_vars(Thread(w)) /\ SF_vars(ThreadLock(w))

Spec == SafeSpec /\ Fairness

-----------------------------------------------------------------------------
\* A connection is only given to a loop that exists, and whose thread has
\* left its start-up and polls, or is about to: what is posted to the loop
\* will be seen (thread_pool.c:36-52 against event_loop_thread.c:8-15).
HandedToRunning ==
    /\ mainPc # "crashed"
    /\ \A w \in Workers : connections[w] > 0 => eventLoop[w] = w /\ threadPc[w] = "run"

\* The main thread never sleeps for a signal that was already sent
\* (event_loop_thread.c:8-15 against 41-46).
SignalNotMissed == mainPc = "wait" => threadPc[i] \in {"lock", "init", "signal"}

\* The connections are shared out evenly: no loop is ahead of another by
\* more than one, and the ones that are ahead are those before position.
Balanced ==
    \A w \in 1..thread_number :
        connections[w] = connections[thread_number] + (IF w <= position THEN 1 ELSE 0)

\* The server comes up, whatever the order in which the threads run.
ComesUp == <>(mainPc = "running")
=============================================================================
