-------------------------- MODULE ThreadPoolProofs --------------------------
(***************************************************************************)
(* The start-up handshake and the round robin are right for a pool of any  *)
(* size.  The inductive invariant divides the threads in three: those the  *)
(* main thread is done with, the one it waits for, those not created yet.  *)
(***************************************************************************)
EXTENDS ThreadPool, TLAPS

USE MaxThreadsAssumption, MaxConnectionsAssumption

Waiting == {"lock", "check", "sleep", "wait"}

Done(w) == threadPc[w] = "run" /\ eventLoop[w] = w /\ mutex[w] = None
Fresh(w) == threadPc[w] = "none" /\ eventLoop[w] = None /\ mutex[w] = None

\* The thread the main thread waits for: its loop exists once it has made
\* it, and the mutex is where the two threads' positions say.
Handshake(w) ==
    /\ threadPc[w] # "none"
    /\ eventLoop[w] = IF threadPc[w] \in {"signal", "unlock", "run"} THEN w ELSE None
    /\ mutex[w] = IF threadPc[w] \in {"init", "signal", "unlock"} THEN w
                  ELSE IF mainPc \in {"check", "sleep"} THEN Main ELSE None
    /\ mainPc \in {"check", "sleep"} => threadPc[w] \in {"lock", "run"}
    /\ mainPc = "sleep" => threadPc[w] = "lock"
    /\ mainPc = "wait" => threadPc[w] \in {"lock", "init", "signal"}

MainInv ==
    /\ mainPc # "crashed"
    /\ mainPc = "start" => i = 0
    /\ mainPc \in Waiting \cup {"create"} => i \in 1..thread_number
    /\ mainPc = "running" => i = thread_number

ThreadInv ==
    \A w \in Workers :
        /\ w < i \/ (w = i /\ mainPc = "running") => Done(w)
        /\ w > i \/ (w = i /\ mainPc = "create") => Fresh(w)
        /\ w = i /\ mainPc \in Waiting => Handshake(w)

HandedInv ==
    /\ mainPc # "running" => position = 0 /\ \A l \in Loops : connections[l] = 0
    /\ \A w \in Workers : w > thread_number => connections[w] = 0

IInv == TypeOK /\ MainInv /\ ThreadInv /\ HandedInv /\ Balanced

-----------------------------------------------------------------------------
(* One lemma per action.                                                   *)

LEMMA InitInv == Init => IInv
<1> SUFFICES ASSUME Init PROVE IInv
  OBVIOUS
<1>1. TypeOK
  BY DEF Init, TypeOK, Workers, Loops, MainLoop, None, Main
<1>2. MainInv
  BY DEF Init, MainInv, Waiting
<1>3. ThreadInv
  BY DEF Init, ThreadInv, Done, Fresh, Waiting, Workers, None
<1>4. HandedInv /\ Balanced
  BY DEF Init, HandedInv, Balanced, Workers, Loops, MainLoop
<1>5. QED
  BY <1>1, <1>2, <1>3, <1>4 DEF IInv

LEMMA StartStep ==
    ASSUME IInv, thread_pool_start
    PROVE  IInv'
<1>1. TypeOK'
  BY DEF IInv, thread_pool_start, TypeOK, Workers
<1>2. MainInv'
  BY DEF IInv, thread_pool_start, TypeOK, MainInv, Waiting
<1>3. ThreadInv'
  BY DEF IInv, thread_pool_start, MainInv, ThreadInv, Fresh, Waiting, Workers
<1>4. HandedInv'
  BY DEF IInv, thread_pool_start, HandedInv
<1>5. Balanced'
  BY DEF IInv, thread_pool_start, Balanced
<1>6. QED
  BY <1>1, <1>2, <1>3, <1>4, <1>5 DEF IInv

LEMMA CreateStep ==
    ASSUME IInv, event_loop_thread_start
    PROVE  IInv'
<1>1. TypeOK'
  BY DEF IInv, event_loop_thread_start, TypeOK, pool
<1>2. MainInv'
  BY DEF IInv, event_loop_thread_start, MainInv, pool
<1>3. ThreadInv'
  BY DEF IInv, event_loop_thread_start, TypeOK, ThreadInv, Done, Fresh, Handshake
<1>4. HandedInv'
  BY DEF IInv, event_loop_thread_start, HandedInv, pool
<1>5. Balanced'
  BY DEF IInv, event_loop_thread_start, Balanced, pool
<1>6. QED
  BY <1>1, <1>2, <1>3, <1>4, <1>5 DEF IInv

LEMMA MainLockStep ==
    ASSUME IInv, MainLock
    PROVE  IInv'
<1>1. TypeOK'
  BY DEF IInv, MainLock, TypeOK, pool
<1>2. MainInv'
  BY DEF IInv, MainLock, MainInv, Waiting, pool
<1>3. ThreadInv'
  <2> SUFFICES ASSUME NEW w \in Workers
               PROVE  /\ w < i' \/ (w = i' /\ mainPc' = "running") => Done(w)'
                      /\ w > i' \/ (w = i' /\ mainPc' = "create") => Fresh(w)'
                      /\ w = i' /\ mainPc' \in Waiting => Handshake(w)'
    BY DEF ThreadInv
  <2> QED
    BY DEF IInv, MainLock, TypeOK, ThreadInv, Done, Fresh, Handshake, Waiting, Workers, None
<1>4. HandedInv'
  BY DEF IInv, MainLock, HandedInv, pool
<1>5. Balanced'
  BY DEF IInv, MainLock, Balanced, pool
<1>6. QED
  BY <1>1, <1>2, <1>3, <1>4, <1>5 DEF IInv

LEMMA NotYetStep ==
    ASSUME IInv, NotYet
    PROVE  IInv'
<1>1. TypeOK'
  BY DEF IInv, NotYet, TypeOK, pool
<1>2. MainInv'
  BY DEF IInv, NotYet, MainInv, Waiting, pool
<1>3. ThreadInv'
  <2> SUFFICES ASSUME NEW w \in Workers
               PROVE  /\ w < i' \/ (w = i' /\ mainPc' = "running") => Done(w)'
                      /\ w > i' \/ (w = i' /\ mainPc' = "create") => Fresh(w)'
                      /\ w = i' /\ mainPc' \in Waiting => Handshake(w)'
    BY DEF ThreadInv
  <2> QED
    BY DEF IInv, NotYet, ThreadInv, Done, Fresh, Handshake, Waiting, Workers, None
<1>4. HandedInv'
  BY DEF IInv, NotYet, HandedInv, pool
<1>5. Balanced'
  BY DEF IInv, NotYet, Balanced, pool
<1>6. QED
  BY <1>1, <1>2, <1>3, <1>4, <1>5 DEF IInv

LEMMA CondWaitStep ==
    ASSUME IInv, CondWait
    PROVE  IInv'
<1>1. TypeOK'
  BY DEF IInv, CondWait, TypeOK, pool
<1>2. MainInv'
  BY DEF IInv, CondWait, MainInv, Waiting, pool
<1>3. ThreadInv'
  BY DEF IInv, CondWait, TypeOK, ThreadInv, Done, Fresh, Handshake, Waiting
<1>4. HandedInv'
  BY DEF IInv, CondWait, HandedInv, pool
<1>5. Balanced'
  BY DEF IInv, CondWait, Balanced, pool
<1>6. QED
  BY <1>1, <1>2, <1>3, <1>4, <1>5 DEF IInv

LEMMA StartedStep ==
    ASSUME IInv, Started
    PROVE  IInv'
<1>1. TypeOK'
  <2>1. i' \in Workers \cup {0}
    BY DEF IInv, Started, TypeOK, MainInv, Waiting, Workers, pool
  <2>2. mutex' \in [Workers -> Workers \cup {Main, None}]
    BY DEF IInv, Started, TypeOK, MainInv, Waiting, Workers
  <2>3. QED
    BY <2>1, <2>2 DEF IInv, Started, TypeOK, pool
<1>2. MainInv'
  BY DEF IInv, Started, TypeOK, MainInv, Waiting, pool
<1>3. ThreadInv'
  <2>1. /\ i \in 1..thread_number /\ mainPc = "check"
        /\ thread_number \in Nat /\ thread_number <= MaxThreads
    BY DEF IInv, TypeOK, MainInv, Waiting, Started
  <2>2. /\ threadPc' = threadPc /\ eventLoop' = eventLoop
        /\ \A w \in Workers : mutex'[w] = IF w = i THEN None ELSE mutex[w]
    BY <2>1 DEF IInv, TypeOK, Started, Workers
  <2>3. \/ i' = i + 1 /\ mainPc' = "create"
        \/ i' = i /\ mainPc' = "running"
    BY <2>1 DEF Started
  <2>4. i \in Workers /\ i \in Nat
    BY <2>1 DEF Workers
  <2>5. threadPc'[i] = "run" /\ eventLoop'[i] = i /\ mutex'[i] = None
    <3>1. Handshake(i) /\ eventLoop[i] # None
      BY <2>1, <2>4 DEF IInv, ThreadInv, Waiting, Started
    <3>2. threadPc[i] = "run" /\ eventLoop[i] = i
      BY <2>1, <3>1 DEF Handshake
    <3>3. QED
      BY <2>2, <2>4, <3>2
  <2>6. \A w \in Workers : w < i => Done(w)'
    BY <2>2, <2>4 DEF IInv, ThreadInv, Done, Workers
  <2>7. \A w \in Workers : w > i => Fresh(w)'
    BY <2>2, <2>4 DEF IInv, ThreadInv, Fresh, Workers
  <2>8. /\ \A w \in Workers : w < i' \/ (w = i' /\ mainPc' = "running") => w <= i
        /\ \A w \in Workers : w > i' \/ (w = i' /\ mainPc' = "create") => w > i
        /\ mainPc' \notin Waiting
    BY <2>3, <2>4 DEF Workers, Waiting
  <2>9. \A w \in Workers : w <= i => w < i \/ w = i
    BY <2>4 DEF Workers
  <2>10. \A w \in Workers : w <= i => Done(w)'
    BY <2>5, <2>6, <2>9 DEF Done
  <2>11. QED
    BY <2>7, <2>8, <2>10 DEF ThreadInv
<1>4. HandedInv'
  BY DEF IInv, Started, HandedInv, pool
<1>5. Balanced'
  BY DEF IInv, Started, Balanced, pool
<1>6. QED
  BY <1>1, <1>2, <1>3, <1>4, <1>5 DEF IInv

LEMMA SpuriousStep ==
    ASSUME IInv, SpuriousWakeup
    PROVE  IInv'
<1>1. TypeOK'
  BY DEF IInv, SpuriousWakeup, TypeOK, pool
<1>2. MainInv'
  BY DEF IInv, SpuriousWakeup, MainInv, Waiting, pool
<1>3. ThreadInv'
  BY DEF IInv, SpuriousWakeup, ThreadInv, Done, Fresh, Handshake, Waiting
<1>4. HandedInv'
  BY DEF IInv, SpuriousWakeup, HandedInv, pool
<1>5. Balanced'
  BY DEF IInv, SpuriousWakeup, Balanced, pool
<1>6. QED
  BY <1>1, <1>2, <1>3, <1>4, <1>5 DEF IInv

LEMMA ThreadLockStep ==
    ASSUME IInv, NEW w \in Workers, ThreadLock(w)
    PROVE  IInv'
<1>1. TypeOK'
  BY DEF IInv, ThreadLock, TypeOK, pool
<1>2. MainInv'
  BY DEF IInv, ThreadLock, MainInv, pool
<1>3. ThreadInv'
  BY DEF IInv, ThreadLock, TypeOK, ThreadInv, Done, Fresh, Handshake, None, Main
<1>4. HandedInv'
  BY DEF IInv, ThreadLock, HandedInv, pool
<1>5. Balanced'
  BY DEF IInv, ThreadLock, Balanced, pool
<1>6. QED
  BY <1>1, <1>2, <1>3, <1>4, <1>5 DEF IInv

LEMMA LoopInitStep ==
    ASSUME IInv, NEW w \in Workers, event_loop_init_with_name(w)
    PROVE  IInv'
<1>1. TypeOK'
  BY DEF IInv, event_loop_init_with_name, TypeOK, pool
<1>2. MainInv'
  BY DEF IInv, event_loop_init_with_name, MainInv, pool
<1>3. ThreadInv'
  BY DEF IInv, event_loop_init_with_name, TypeOK, ThreadInv, Done, Fresh, Handshake
<1>4. HandedInv'
  BY DEF IInv, event_loop_init_with_name, HandedInv, pool
<1>5. Balanced'
  BY DEF IInv, event_loop_init_with_name, Balanced, pool
<1>6. QED
  BY <1>1, <1>2, <1>3, <1>4, <1>5 DEF IInv

LEMMA SignalStep ==
    ASSUME IInv, NEW w \in Workers, Signal(w)
    PROVE  IInv'
<1>1. TypeOK'
  BY DEF IInv, Signal, TypeOK, pool
<1>2. MainInv'
  BY DEF IInv, Signal, MainInv, Waiting, pool
<1>3. ThreadInv'
  BY DEF IInv, Signal, ThreadInv, Done, Fresh, Handshake, Waiting
<1>4. HandedInv'
  BY DEF IInv, Signal, HandedInv, pool
<1>5. Balanced'
  BY DEF IInv, Signal, Balanced, pool
<1>6. QED
  BY <1>1, <1>2, <1>3, <1>4, <1>5 DEF IInv

LEMMA ThreadUnlockStep ==
    ASSUME IInv, NEW w \in Workers, ThreadUnlock(w)
    PROVE  IInv'
<1>1. TypeOK'
  BY DEF IInv, ThreadUnlock, TypeOK, pool
<1>2. MainInv'
  BY DEF IInv, ThreadUnlock, MainInv, pool
<1>3. ThreadInv'
  BY DEF IInv, ThreadUnlock, TypeOK, ThreadInv, Done, Fresh, Handshake
<1>4. HandedInv'
  BY DEF IInv, ThreadUnlock, HandedInv, pool
<1>5. Balanced'
  BY DEF IInv, ThreadUnlock, Balanced, pool
<1>6. QED
  BY <1>1, <1>2, <1>3, <1>4, <1>5 DEF IInv

LEMMA GetLoopStep ==
    ASSUME IInv, thread_pool_get_loop
    PROVE  IInv'
<1>1. /\ thread_number \in Nat /\ thread_number <= MaxThreads
      /\ position \in Nat
      /\ thread_number > 0 => position < thread_number
      /\ connections \in [Loops -> Nat]
  BY DEF IInv, TypeOK
<1>2. /\ mainPc = "running"
      /\ UNCHANGED <<thread_number, started, i, threadPc, mutex, eventLoop>>
      /\ position' = IF thread_number > 0 THEN Advanced ELSE position
      /\ connections' = [l \in Loops |-> connections[l] + (IF l = Selected THEN 1 ELSE 0)]
  BY DEF thread_pool_get_loop
<1>3. Selected = IF thread_number = 0 THEN MainLoop ELSE position + 1
  <2>1. thread_number > 0 => position + 1 \in Workers /\ position + 1 <= i
    BY <1>1, <1>2 DEF IInv, MainInv, Workers
  <2>2. thread_number > 0 => eventLoop[position + 1] = position + 1
    BY <1>1, <1>2, <2>1 DEF IInv, MainInv, ThreadInv, Done, Workers
  <2>3. QED
    BY <1>1, <2>2 DEF Selected
<1>4. Selected \in Loops
  BY <1>1, <1>3 DEF Loops, Workers, MainLoop
<1>5. mainPc' = mainPc
  BY <1>4 DEF thread_pool_get_loop
<1>6. /\ position' \in Nat
      /\ position' = 0 \/ position' \in 1..(thread_number - 1)
  BY <1>1, <1>2 DEF IInv, TypeOK, Advanced
<1>7. connections' \in [Loops -> Nat]
  BY <1>1, <1>2
<1>8. TypeOK'
  BY <1>2, <1>5, <1>6, <1>7 DEF IInv, TypeOK
<1>9. MainInv' /\ ThreadInv'
  BY <1>2, <1>5 DEF IInv, MainInv, ThreadInv, Done, Fresh, Handshake
<1>10. HandedInv'
  <2>1. \A w \in Workers : w > thread_number => w # Selected
    BY <1>1, <1>3 DEF Workers, MainLoop
  <2>2. \A w \in Workers : w > thread_number => connections[w] = 0
    BY DEF IInv, HandedInv
  <2>3. \A w \in Workers : w > thread_number => connections'[w] = 0
    BY <1>2, <2>1, <2>2 DEF Loops
  <2>4. QED
    BY <1>2, <1>5, <2>3 DEF HandedInv
<1>11. Balanced'
  <2> SUFFICES ASSUME NEW w \in 1..thread_number
               PROVE  connections'[w] = connections'[thread_number]
                                        + (IF w <= position' THEN 1 ELSE 0)
    BY <1>2, Zenon DEF Balanced
  <2>1. position < thread_number /\ w \in Loops /\ thread_number \in Loops
    BY <1>1 DEF Workers, Loops
  <2>2. \A l \in Loops : connections'[l] = connections[l] + (IF l = position + 1 THEN 1 ELSE 0)
    BY <1>1, <1>2, <1>3, <2>1
  <2>3. connections[w] = connections[thread_number] + (IF w <= position THEN 1 ELSE 0)
    BY DEF IInv, Balanced
  <2>4. position' = IF position + 1 = thread_number THEN 0 ELSE position + 1
    BY <1>1, <1>2, <2>1 DEF Advanced
  <2>5. w \in Nat /\ 1 <= w /\ w <= thread_number
    BY <1>1
  <2>6. connections[w] \in Nat /\ connections[thread_number] \in Nat
    BY <1>1, <2>1
  <2>7. QED
    BY <1>1, <2>1, <2>2, <2>3, <2>4, <2>5, <2>6
<1>12. QED
  BY <1>8, <1>9, <1>10, <1>11 DEF IInv

LEMMA StepInv == IInv /\ [Next]_vars => IInv'
<1> SUFFICES ASSUME IInv, [Next]_vars PROVE IInv'
  OBVIOUS
<1>1. CASE MainNext
  BY <1>1, StartStep, CreateStep, MainLockStep, NotYetStep, CondWaitStep, StartedStep
     DEF MainNext
<1>2. CASE SpuriousWakeup
  BY <1>2, SpuriousStep
<1>3. CASE thread_pool_get_loop
  BY <1>3, GetLoopStep
<1>4. ASSUME NEW w \in Workers, Thread(w) PROVE IInv'
  BY <1>4, ThreadLockStep, LoopInitStep, SignalStep, ThreadUnlockStep DEF Thread
<1>5. CASE UNCHANGED vars
  BY <1>5 DEF vars, IInv, TypeOK, MainInv, ThreadInv, HandedInv, Balanced, Done,
              Fresh, Handshake
<1>6. QED
  BY <1>1, <1>2, <1>3, <1>4, <1>5 DEF Next

-----------------------------------------------------------------------------
LEMMA Invariant == SafeSpec => []IInv
BY InitInv, StepInv, PTL DEF SafeSpec

LEMMA Consequences == IInv => TypeOK /\ HandedToRunning /\ SignalNotMissed /\ Balanced
<1> SUFFICES ASSUME IInv
             PROVE  TypeOK /\ HandedToRunning /\ SignalNotMissed /\ Balanced
  OBVIOUS
<1>1. HandedToRunning
  BY DEF IInv, TypeOK, HandedToRunning, HandedInv, MainInv, ThreadInv, Done, Workers, Loops
<1>2. SignalNotMissed
  BY DEF IInv, TypeOK, SignalNotMissed, MainInv, ThreadInv, Handshake, Waiting, Workers
<1>3. QED
  BY <1>1, <1>2 DEF IInv, MainInv

\* Every variable of the pool keeps its type; the position stays inside the
\* array of threads (thread_pool.c:46-48).
THEOREM TypeCorrect == SafeSpec => []TypeOK
BY Invariant, Consequences, PTL

\* A connection is only given to a loop that exists, and whose thread is past
\* its start-up (thread_pool.c:45 against event_loop_thread.c:43).
THEOREM LoopRuns == SafeSpec => []HandedToRunning
BY Invariant, Consequences, PTL

\* The main thread never waits for a signal that has been sent
\* (event_loop_thread.c:8-15 against 41-46).
THEOREM NoMissedSignal == SafeSpec => []SignalNotMissed
BY Invariant, Consequences, PTL

\* The round robin is even for any number of threads and connections
\* (thread_pool.c:44-49).
THEOREM RoundRobin == SafeSpec => []Balanced
BY Invariant, Consequences, PTL
=============================================================================
