-------------------------- MODULE EventLoopProofs --------------------------
(* Theorems about EventLoop, for every number of threads, connections and  *)
(* descriptors.                                                            *)
EXTENDS EventLoop, SequenceTheorems, TLAPS

\* A thread inside do_channel_event or wakeup has the arguments of the call.
RequestOK ==
    \A t \in Threads : pc[t] \in {"mutex", "append", "wakeup"} => request[t] \in Request

\* The wake descriptor is reported once a batch, and its byte stays there
\* until handleWakeup reads it.
WakeOK ==
    \A t \in Threads :
        /\ \A e \in ready[t] \cup {event[t]} :
              e.fd = Wake => e.on = {READ} /\ socketPair[t] > 0
        /\ event[t].fd = Wake =>
              pc[t] \in {"event", "undefined"} /\ \A e \in ready[t] : e.fd # Wake
        /\ \A e1, e2 \in ready[t] : e1.fd = e2.fd => e1 = e2

TypeInv == TypeOK /\ RequestOK /\ WakeOK

USE ThreadsAssumption, FdAssumption, LoopDataAssumption, SocketBufAssumption
USE DEF ADD, REMOVE, UPDATE, READ, WRITE, ERR

LEMMA InitType == Init => TypeInv
<1> SUFFICES ASSUME Init PROVE TypeInv
  OBVIOUS
<1>1. TypeOK
  <2>1. pending \in [Threads -> Seq(Element)]
    BY DEF Init
  <2>2. socketPair \in [Threads -> 0..SocketBuf]
    BY DEF Init
  <2>3. channelMap \in [Threads -> [Fds -> Channels \cup {NULL}]]
    BY DEF Init
  <2>4. epoll \in [Threads -> [Fds -> SUBSET Interest]]
    BY DEF Init
  <2>5. /\ ready \in [Threads -> SUBSET Event]
        /\ event \in [Threads -> Event \cup {NoEvent}]
        /\ events \in [Channels -> SUBSET Interest]
        /\ holder \in [Fds -> Channels \cup {NULL}]
    BY DEF Init
  <2>6. /\ pc \in [Threads -> PC]
        /\ after \in [Threads -> {"epoll_wait", "dispatch", "event"}]
        /\ request \in [Threads -> Request \cup {NULL}]
        /\ mutex \in [Threads -> Threads \cup {NULL}]
    BY DEF Init, PC
  <2>7. is_handle_pending \in [Threads -> BOOLEAN] /\ crashed \in BOOLEAN
    BY Zenon DEF Init
  <2>8. channelElement \in [Threads -> Nat \ {0}]
    BY DEF Init
  <2> QED BY <2>1, <2>2, <2>3, <2>4, <2>5, <2>6, <2>7, <2>8 DEF TypeOK
<1>2. RequestOK
  BY DEF Init, RequestOK
<1>3. WakeOK
  <2>1. \A t \in Threads : ready[t] = {} /\ event[t] = NoEvent
    BY DEF Init
  <2>2. NoEvent.fd # Wake
    BY DEF NoEvent
  <2> QED BY <2>1, <2>2 DEF WakeOK
<1> QED BY <1>1, <1>2, <1>3 DEF TypeInv

LEMMA CandidateType ==
    ASSUME TypeOK, NEW t \in Threads
    PROVE  Candidates(t) \subseteq Event
<1>1. \A fd \in Fds : Reportable(t, fd) \subseteq Event
  BY DEF TypeOK, Reportable, Event, AllFds, Interest
<1>2. [fd : {Wake}, on : {{READ}}] \subseteq Event
  BY DEF Event, AllFds
<1>3. [fd : {Listen}, on : {{READ}}] \subseteq Event
  BY DEF Event, AllFds
<1>4. UNION {Reportable(t, fd) : fd \in Fds} \subseteq Event
  BY <1>1
<1> QED BY <1>2, <1>3, <1>4 DEF Candidates

LEMMA WaitType == ASSUME TypeInv, NEW t \in Threads, epoll_wait(t) PROVE TypeInv'
<1> USE DEF TypeInv
<1>0. PICK b \in SUBSET Candidates(t) : Batch(t, b) /\ ready' = [ready EXCEPT ![t] = b]
  BY DEF epoll_wait
<1>1. TypeOK'
  <2>1. b \subseteq Event
    BY CandidateType
  <2> QED BY <1>0, <2>1 DEF TypeOK, epoll_wait, Goto, PC, loopVars, kernelVars
<1>2. RequestOK'
  BY DEF TypeOK, RequestOK, epoll_wait, Goto, loopVars, kernelVars
<1>3. WakeOK'
  <2>0. \A fd \in Fds : \A e \in Reportable(t, fd) : e.fd = fd
    BY DEF Reportable
  <2>1. \A e \in b : e.fd = Wake => e = [fd |-> Wake, on |-> {READ}]
    BY <2>0 DEF Candidates
  <2>2. /\ ready'[t] = b /\ event' = event /\ socketPair' = socketPair
        /\ \A u \in Threads \ {t} : ready'[u] = ready[u] /\ pc'[u] = pc[u]
    BY <1>0 DEF TypeOK, epoll_wait, Goto, kernelVars
  <2>4. event[t].fd # Wake
    BY DEF WakeOK, epoll_wait
  <2>3. \A e \in b : e.fd = Wake => e.on = {READ} /\ socketPair[t] > 0
    <3> SUFFICES ASSUME NEW e \in b, e.fd = Wake
                 PROVE  e.on = {READ} /\ socketPair[t] > 0
      OBVIOUS
    <3>1. e = [fd |-> Wake, on |-> {READ}]
      BY <2>1
    <3>2. [fd |-> Wake, on |-> {READ}] \in b => socketPair[t] > 0
      BY <1>0 DEF Batch
    <3> QED BY <3>1, <3>2
  <2> QED BY <1>0, <2>2, <2>3, <2>4 DEF WakeOK, Batch
<1> QED BY <1>1, <1>2, <1>3

-----------------------------------------------------------------------------
\* What a consumed flag leaves of the event.
LEMMA ConsumedType ==
    ASSUME TypeInv, NEW t \in Threads, NEW fd \in AllFds, NEW flag \in Interest,
           Activating(t, fd, flag), Consumed(t)
    PROVE  /\ event' \in [Threads -> Event \cup {NoEvent}]
           /\ event'[t].fd # Wake
           /\ \A u \in Threads \ {t} : event'[u] = event[u]
           /\ NextFlag(t) \in {"dispatch", "event"}
<1> USE DEF TypeInv
<1>1. event[t] \in Event /\ event[t].fd = fd
  BY DEF TypeOK, Activating, NoEvent, AllFds
<1>2. Left(t) \subseteq {READ, WRITE, ERR}
  BY <1>1 DEF Left, Event
<1>3. NextFlag(t) \in {"dispatch", "event"}
  BY DEF NextFlag
<1>4. CASE Left(t) = {}
  <2>1. event' = [event EXCEPT ![t] = NoEvent]
    BY <1>4 DEF Consumed
  <2>2. NoEvent.fd # Wake
    BY DEF NoEvent
  <2> QED BY <1>3, <2>1, <2>2 DEF TypeOK
<1>5. CASE Left(t) # {}
  <2>1. fd # Wake
    BY <1>1, <1>5 DEF WakeOK, Left, Flag
  <2>2. event' = [event EXCEPT ![t] = [event[t] EXCEPT !.on = Left(t)]]
    BY <1>5 DEF Consumed
  <2>3. [event[t] EXCEPT !.on = Left(t)] \in Event
    BY <1>1, <1>2 DEF Event
  <2>4. [event[t] EXCEPT !.on = Left(t)].fd # Wake
    BY <1>1, <2>1 DEF Event
  <2> QED BY <1>3, <2>2, <2>3, <2>4 DEF TypeOK
<1> QED BY <1>4, <1>5

\* A callback changes only the event and the program counter of its thread,
\* and perhaps its request: the wake descriptor is not in play any more.
LEMMA WakeKept ==
    ASSUME TypeInv, NEW t \in Threads,
           event'[t].fd # Wake,
           \A u \in Threads \ {t} :
               event'[u] = event[u] /\ (event[u].fd = Wake => pc'[u] \in {pc[u], "undefined"}),
           \A u \in Threads : ready'[u] \subseteq ready[u],
           \A u \in Threads \ {t} : socketPair'[u] >= socketPair[u],
           socketPair'[t] >= socketPair[t] \/ \A e \in ready'[t] : e.fd # Wake,
           socketPair' \in [Threads -> 0..SocketBuf]
    PROVE  WakeOK'
<1> USE DEF TypeInv
<1>1. \A u \in Threads : socketPair[u] \in Nat /\ socketPair'[u] \in Nat
  BY DEF TypeOK
<1> QED BY <1>1 DEF WakeOK

-----------------------------------------------------------------------------
LEMMA DispatchType ==
    ASSUME TypeInv, NEW t \in Threads,
           next_event(t) \/ end_of_batch(t) \/ close_on_error(t)
    PROVE  TypeInv'
<1> USE DEF TypeInv, Goto, loopVars, kernelVars
<1>1. CASE next_event(t)
  <2>1. PICK e \in ready[t] :
            event' = [event EXCEPT ![t] = e] /\ ready' = [ready EXCEPT ![t] = @ \ {e}]
    BY <1>1 DEF next_event
  <2>2. TypeOK'
    BY <1>1, <2>1 DEF TypeOK, PC, next_event
  <2>3. RequestOK'
    BY <1>1 DEF TypeOK, RequestOK, next_event
  <2>4. WakeOK'
    BY <1>1, <2>1 DEF TypeOK, WakeOK, next_event
  <2> QED BY <2>2, <2>3, <2>4
<1>2. CASE end_of_batch(t)
  <2>1. TypeOK'
    BY <1>2 DEF TypeOK, PC, end_of_batch
  <2>2. RequestOK'
    BY <1>2 DEF TypeOK, RequestOK, end_of_batch
  <2>3. WakeOK'
    BY <1>2 DEF TypeOK, WakeOK, end_of_batch
  <2> QED BY <2>1, <2>2, <2>3
<1>3. CASE close_on_error(t)
  <2>0. NoEvent.fd # Wake
    BY DEF NoEvent
  <2>1. TypeOK'
    BY <1>3 DEF TypeOK, PC, close_on_error
  <2>2. RequestOK'
    BY <1>3 DEF TypeOK, RequestOK, close_on_error
  <2>3. WakeOK'
    BY <1>3, <2>0 DEF TypeOK, WakeOK, close_on_error
  <2> QED BY <2>1, <2>2, <2>3
<1> QED BY <1>1, <1>2, <1>3

\* A callback on the channel of a connection, by the way it ends.
LEMMA ReturnType ==
    ASSUME TypeInv, NEW t \in Threads, NEW fd \in Fds, NEW flag \in Interest,
           Activating(t, fd, flag), Return(t),
           UNCHANGED <<channelMap, kernelVars, ready, events, crashed>>
    PROVE  TypeInv'
<1> USE DEF TypeInv, Goto, kernelVars
<1>1. fd \in AllFds
  BY DEF AllFds
<1>2. /\ event' \in [Threads -> Event \cup {NoEvent}]
      /\ event'[t].fd # Wake
      /\ \A u \in Threads \ {t} : event'[u] = event[u]
      /\ NextFlag(t) \in {"dispatch", "event"}
  BY <1>1, ConsumedType DEF Return
<1>3. TypeOK'
  BY <1>2 DEF TypeOK, PC, Return
<1>4. RequestOK'
  BY <1>2 DEF TypeOK, RequestOK, Return
<1>5. WakeOK'
  <2>1. \A u \in Threads : /\ ready'[u] \subseteq ready[u]
                           /\ socketPair'[u] = socketPair[u]
                           /\ socketPair[u] \in Nat
    BY DEF TypeOK
  <2>2. \A u \in Threads \ {t} : pc'[u] \in {pc[u], "undefined"}
    BY <1>3 DEF TypeOK, Return
  <2>3. \A u \in Threads : socketPair'[u] >= socketPair[u]
    BY <2>1
  <2>4. socketPair' \in [Threads -> 0..SocketBuf]
    BY DEF TypeOK
  <2> QED BY <1>2, <2>1, <2>2, <2>3, <2>4, WakeKept
<1> QED BY <1>3, <1>4, <1>5

LEMMA CallType ==
    ASSUME TypeInv, NEW t \in Threads, NEW fd \in AllFds, NEW flag \in Interest,
           NEW l \in Threads, NEW type \in {ADD, REMOVE, UPDATE}, NEW ch \in Channels,
           Activating(t, fd, flag), Call(t, l, type, ch),
           events' \in [Channels -> SUBSET Interest],
           holder' \in [Fds -> Channels \cup {NULL}],
           UNCHANGED <<channelMap, socketPair, epoll, ready, crashed>>
    PROVE  TypeInv'
<1> USE DEF TypeInv, Goto
<1>2. /\ event' \in [Threads -> Event \cup {NoEvent}]
      /\ event'[t].fd # Wake
      /\ \A u \in Threads \ {t} : event'[u] = event[u]
      /\ NextFlag(t) \in {"dispatch", "event"}
  BY ConsumedType DEF Call
<1>3. [loop |-> l, type |-> type, channel |-> ch] \in Request
  BY DEF Request
<1>4. TypeOK'
  BY <1>2, <1>3 DEF TypeOK, PC, Call
<1>5. RequestOK'
  BY <1>3 DEF TypeOK, RequestOK, Call
<1>6. WakeOK'
  <2>1. \A u \in Threads : /\ ready'[u] \subseteq ready[u]
                           /\ socketPair'[u] = socketPair[u]
                           /\ socketPair[u] \in Nat
    BY DEF TypeOK
  <2>2. \A u \in Threads \ {t} : pc'[u] \in {pc[u], "undefined"}
    BY <1>3 DEF TypeOK, Call
  <2>3. \A u \in Threads : socketPair'[u] >= socketPair[u]
    BY <2>1
  <2>4. socketPair' \in [Threads -> 0..SocketBuf]
    BY DEF TypeOK
  <2> QED BY <1>2, <2>1, <2>2, <2>3, <2>4, WakeKept
<1> QED BY <1>4, <1>5, <1>6

LEMMA UndefinedType ==
    ASSUME TypeInv, NEW t \in Threads, NEW fd \in Fds, NEW flag \in Interest,
           Activating(t, fd, flag), UndefinedCall(t),
           events' \in [Channels -> SUBSET Interest],
           UNCHANGED <<channelMap, kernelVars, ready, crashed>>
    PROVE  TypeInv'
<1> USE DEF TypeInv, Goto, kernelVars
<1>1. fd \in AllFds
  BY DEF AllFds
<1>2. /\ event' \in [Threads -> Event \cup {NoEvent}]
      /\ event'[t].fd # Wake
      /\ \A u \in Threads \ {t} : event'[u] = event[u]
      /\ NextFlag(t) \in {"dispatch", "event"}
  BY <1>1, ConsumedType DEF UndefinedCall
<1>3. /\ pc' \in [Threads -> PC]
      /\ pc'[t] \in {"undefined", "dispatch", "event"}
      /\ \A u \in Threads : u # t => pc'[u] \in {pc[u], "undefined"}
  <2>1. pc \in [Threads -> PC] /\ {"undefined", "dispatch", "event"} \subseteq PC
    BY DEF TypeOK, PC
  <2>2. \/ pc' = [pc EXCEPT ![t] = "undefined"]
        \/ pc' = [thread \in Threads |-> "undefined"]
        \/ pc' = [pc EXCEPT ![t] = NextFlag(t)]
    BY DEF UndefinedCall
  <2>3. QED
    BY <1>2, <2>1, <2>2
<1>4. TypeOK'
  <2>1. UNCHANGED <<after, request, mutex, is_handle_pending, pending, channelElement,
                    channelMap, socketPair, epoll, holder, ready, crashed>>
    BY DEF UndefinedCall, kernelVars
  <2>2. QED
    BY <1>2, <1>3, <2>1 DEF TypeOK
<1>5. RequestOK'
  BY <1>3 DEF RequestOK, UndefinedCall
<1>6. WakeOK'
  <2>1. \A u \in Threads : /\ ready'[u] \subseteq ready[u]
                           /\ socketPair'[u] = socketPair[u]
                           /\ socketPair[u] \in Nat
    BY DEF TypeOK
  <2>2. \A u \in Threads \ {t} : pc'[u] \in {pc[u], "undefined"}
    BY <1>3 DEF TypeOK, UndefinedCall
  <2>3. \A u \in Threads : socketPair'[u] >= socketPair[u]
    BY <2>1
  <2>4. socketPair' \in [Threads -> 0..SocketBuf]
    BY DEF TypeOK
  <2> QED BY <1>2, <2>1, <2>2, <2>3, <2>4, WakeKept
<1> QED BY <1>4, <1>5, <1>6


\* The channel of an activated event has a descriptor.
LEMMA ActivatedFd ==
    ASSUME TypeOK, NEW t \in Threads, NEW ch \in Channels, NEW flag,
           Activating(t, Fd[ch], flag)
    PROVE  Fd[ch] \in Fds
<1>1. event[t].fd \in AllFds \cup {NULL}
  BY DEF TypeOK, Event, NoEvent
<1> QED BY <1>1 DEF Activating, AllFds

LEMMA CallbackType == ASSUME TypeInv, NEW t \in Threads, Callback(t) PROVE TypeInv'
<1> USE DEF TypeInv
<1>1. CASE activate_unknown(t)
  <2>1. PICK fd \in Fds, flag \in Interest : Activating(t, fd, flag)
    BY <1>1 DEF activate_unknown
  <2>2. Return(t) /\ UNCHANGED <<channelMap, kernelVars, ready, events, crashed>>
    BY <1>1 DEF activate_unknown
  <2> QED BY <2>1, <2>2, ReturnType
<1>2. CASE handleWakeup(t)
  <2> USE DEF Goto
  <2>1. /\ event' \in [Threads -> Event \cup {NoEvent}]
        /\ event'[t].fd # Wake
        /\ \A u \in Threads \ {t} : event'[u] = event[u]
        /\ NextFlag(t) \in {"dispatch", "event"}
    BY <1>2, ConsumedType DEF handleWakeup, Return, AllFds, Interest
  <2>2. event[t].fd = Wake /\ socketPair[t] > 0 /\ \A e \in ready[t] : e.fd # Wake
    BY <1>2 DEF handleWakeup, Activating, WakeOK
  <2>3. socketPair' = [socketPair EXCEPT ![t] = socketPair[t] - 1]
    BY <1>2 DEF handleWakeup
  <2>4. socketPair' \in [Threads -> 0..SocketBuf]
    BY <2>2, <2>3 DEF TypeOK
  <2>5. TypeOK'
    BY <1>2, <2>1, <2>4 DEF TypeOK, PC, handleWakeup, Return
  <2>6. RequestOK'
    BY <1>2, <2>1 DEF TypeOK, RequestOK, handleWakeup, Return
  <2>7. WakeOK'
    <3>1. \A u \in Threads : ready'[u] = ready[u]
      BY <1>2 DEF handleWakeup
    <3>2. \A u \in Threads \ {t} : socketPair'[u] >= socketPair[u]
      BY <2>3 DEF TypeOK
    <3>3. \A u \in Threads \ {t} : pc'[u] = pc[u]
      BY <1>2 DEF TypeOK, handleWakeup, Return
    <3> QED BY <2>1, <2>2, <2>4, <3>1, <3>2, <3>3, WakeKept
  <2> QED BY <2>5, <2>6, <2>7
<1>3. ASSUME NEW ch \in Channels, NEW l \in IoLoops, handle_connection_established(t, ch, l)
      PROVE  TypeInv'
  <2>1. l \in Threads /\ Listen \in AllFds /\ READ \in Interest /\ ADD \in {ADD, REMOVE, UPDATE}
    BY DEF IoLoops, AllFds, Interest
  <2>2. events' \in [Channels -> SUBSET Interest] /\ holder' \in [Fds -> Channels \cup {NULL}]
    BY <1>3 DEF handle_connection_established, TypeOK, Interest
  <2> QED BY <1>3, <2>1, <2>2, CallType DEF handle_connection_established
<1>4. ASSUME NEW ch \in Channels, handle_read(t, ch) PROVE TypeInv'
  <2>1. Fd[ch] \in Fds /\ READ \in Interest
    BY <1>4, ActivatedFd DEF handle_read, Interest
  <2> QED BY <1>4, <2>1, ReturnType DEF handle_read
<1>5. ASSUME NEW ch \in Channels, handle_connection_closed(t, ch) PROVE TypeInv'
  <2>1. Fd[ch] \in Fds /\ READ \in Interest
    BY <1>5, ActivatedFd DEF handle_connection_closed, Interest
  <2> QED BY <1>5, <2>1, CallType DEF handle_connection_closed, AllFds, kernelVars, TypeOK
<1>6. ASSUME NEW ch \in Channels, write_event_enable(t, ch) PROVE TypeInv'
  <2>1. Fd[ch] \in Fds /\ READ \in Interest
    BY <1>6, ActivatedFd DEF write_event_enable, Interest
  <2>2. events' \in [Channels -> SUBSET Interest]
    BY <1>6 DEF write_event_enable, TypeOK, Interest
  <2>3. CASE Call(t, t, UPDATE, ch)
    BY <1>6, <2>1, <2>2, <2>3, CallType DEF write_event_enable, AllFds, kernelVars, TypeOK
  <2>4. CASE UndefinedCall(t)
    BY <1>6, <2>1, <2>2, <2>4, UndefinedType DEF write_event_enable
  <2> QED BY <1>6, <2>3, <2>4 DEF write_event_enable
<1>7. ASSUME NEW ch \in Channels, handle_write(t, ch) PROVE TypeInv'
  <2>1. Fd[ch] \in Fds /\ WRITE \in Interest
    BY <1>7, ActivatedFd DEF handle_write, Interest
  <2> QED BY <1>7, <2>1, ReturnType DEF handle_write
<1>8. ASSUME NEW ch \in Channels, write_event_disable(t, ch) PROVE TypeInv'
  <2>1. Fd[ch] \in Fds /\ WRITE \in Interest
    BY <1>8, ActivatedFd DEF write_event_disable, Interest
  <2>2. events' \in [Channels -> SUBSET Interest]
    BY <1>8 DEF write_event_disable, TypeOK, Interest
  <2> QED BY <1>8, <2>1, <2>2, CallType DEF write_event_disable, AllFds, kernelVars, TypeOK
<1> QED BY <1>1, <1>2, <1>3, <1>4, <1>5, <1>6, <1>7, <1>8 DEF Callback

LEMMA PostType ==
    ASSUME TypeInv, NEW t \in Threads,
           do_channel_event(t) \/ channel_buffer_nolock(t) \/ wakeup(t)
    PROVE  TypeInv'
<1> USE DEF TypeInv, Goto, loopVars, kernelVars
<1>0. request[t] \in Request /\ event[t].fd # Wake
  BY DEF RequestOK, WakeOK, do_channel_event, channel_buffer_nolock, wakeup
<1>1. CASE do_channel_event(t)
  <2>1. TypeOK'
    BY <1>0, <1>1 DEF TypeOK, PC, Request, do_channel_event
  <2>2. RequestOK'
    BY <1>1 DEF TypeOK, RequestOK, do_channel_event
  <2>3. WakeOK'
    BY <1>0, <1>1 DEF TypeOK, WakeOK, do_channel_event
  <2> QED BY <2>1, <2>2, <2>3
<1>2. CASE channel_buffer_nolock(t)
  <2>1. [type |-> request[t].type, channel |-> request[t].channel] \in Element
    BY <1>0 DEF Request, Element
  <2>0. request[t].loop \in Threads
    BY <1>0 DEF Request
  <2> DEFINE new == Append(pending[request[t].loop],
                           [type |-> request[t].type, channel |-> request[t].channel])
  <2>6. new \in Seq(Element)
    BY <2>0, <2>1 DEF TypeOK
  <2>2. pending' \in [Threads -> Seq(Element)]
    BY <1>2, <2>6 DEF TypeOK, channel_buffer_nolock
  <2>7. /\ pc[t] = "append" /\ pc'[t] \in {"handle", "wakeup"}
        /\ \A u \in Threads : u # t => pc'[u] = pc[u]
        /\ pc' \in [Threads -> PC]
        /\ mutex' \in [Threads -> Threads \cup {NULL}]
    BY <1>2 DEF TypeOK, PC, channel_buffer_nolock
  <2>8. UNCHANGED <<after, is_handle_pending, channelElement, channelMap,
                    socketPair, epoll, ready, event, events, holder, crashed>>
    BY <1>2 DEF channel_buffer_nolock, kernelVars
  <2>9. /\ request' \in [Threads -> Request \cup {NULL}]
        /\ pc'[t] = "wakeup" => request'[t] = request[t]
        /\ \A u \in Threads : u # t => request'[u] = request[u]
    BY <1>2 DEF TypeOK, channel_buffer_nolock
  <2>3. TypeOK'
    BY <2>2, <2>7, <2>8, <2>9 DEF TypeOK
  <2>4. RequestOK'
    BY <1>0, <2>7, <2>9 DEF RequestOK
  <2>5. WakeOK'
    BY <1>0, <2>7, <2>8 DEF TypeOK, WakeOK
  <2> QED BY <2>3, <2>4, <2>5
<1>3. CASE wakeup(t)
  <2>1. socketPair' \in [Threads -> 0..SocketBuf]
    BY <1>0, <1>3 DEF TypeOK, Request, wakeup
  <2>2. TypeOK'
    BY <1>3, <2>1 DEF TypeOK, PC, wakeup
  <2>3. RequestOK'
    BY <1>3 DEF TypeOK, RequestOK, wakeup
  <2>4. \A u \in Threads : socketPair'[u] >= socketPair[u]
    BY <1>3 DEF TypeOK, wakeup
  <2>5. \A u \in Threads : event[u].fd = Wake => pc'[u] = pc[u]
    BY <1>0, <1>3 DEF TypeOK, wakeup
  <2>6. event' = event /\ ready' = ready
    BY <1>3 DEF wakeup
  <2>7. WakeOK'
    BY <1>0, <2>1, <2>4, <2>5, <2>6 DEF TypeOK, WakeOK
  <2> QED BY <2>2, <2>3, <2>7
<1> QED BY <1>1, <1>2, <1>3

LEMMA UpdateTable ==
    ASSUME NEW S, NEW D, NEW R, NEW f \in [S -> [D -> R]],
           NEW a \in S, NEW b \in D, NEW v \in R
    PROVE  [f EXCEPT ![a][b] = v] \in [S -> [D -> R]]
OBVIOUS

\* The walk over an element changes the tables as its handler says.
LEMMA WalkType ==
    ASSUME TypeInv, NEW t \in Threads, Walk(t),
           crashed' \in BOOLEAN,
           channelMap' \in [Threads -> [Fds -> Channels \cup {NULL}]],
           epoll' \in [Threads -> [Fds -> SUBSET Interest]]
    PROVE  TypeInv'
<1> USE DEF TypeInv
<1>1. channelElement' \in [Threads -> Nat \ {0}]
  BY DEF TypeOK, Walk
<1>2. TypeOK'
  BY <1>1 DEF TypeOK, Walk
<1>3. RequestOK' /\ WakeOK'
  BY DEF RequestOK, WakeOK, Walk
<1> QED BY <1>2, <1>3

LEMMA HandlePendingType == ASSUME TypeInv, NEW t \in Threads, HandlePending(t) PROVE TypeInv'
<1> USE DEF TypeInv, Goto, kernelVars
<1>0. event[t].fd # Wake
  BY DEF WakeOK, HandlePending, handle_pending_channel, handle_pending_add,
         handle_pending_remove, handle_pending_update, handle_pending_done, Walking
<1>1. ASSUME Walking(t) PROVE Current(t) \in Element
  BY <1>1 DEF TypeOK, Walking, Current
<1>2. CASE handle_pending_channel(t)
  <2>1. is_handle_pending' \in [Threads -> BOOLEAN]
    BY <1>2, Zenon DEF TypeOK, handle_pending_channel
  <2>2. TypeOK'
    BY <1>2, <2>1 DEF TypeOK, PC, handle_pending_channel
  <2>3. RequestOK' /\ WakeOK'
    BY <1>0, <1>2 DEF TypeOK, RequestOK, WakeOK, handle_pending_channel
  <2> QED BY <2>2, <2>3
<1>3. CASE handle_pending_add(t)
  <2> DEFINE ch == Current(t).channel
             fd == Fd[ch]
  <2>1. ch \in Channels
    BY <1>1, <1>3 DEF handle_pending_add, Element
  <2>2. crashed' \in BOOLEAN
    BY <1>3 DEF TypeOK, handle_pending_add, EpollAddFails
  <2>3. CASE UNCHANGED <<channelMap, epoll>>
    BY <1>3, <2>2, <2>3, WalkType DEF handle_pending_add, TypeOK
  <2>4. CASE ~ UNCHANGED <<channelMap, epoll>>
    <3>1. fd \in Fds
      BY <1>3, <2>1, <2>4 DEF handle_pending_add
    <3>2. channelMap' = [channelMap EXCEPT ![t][fd] = ch]
      BY <1>3, <2>4 DEF handle_pending_add
    <3>3. epoll' = [epoll EXCEPT ![t][fd] = events[ch]]
      BY <1>3, <2>4 DEF handle_pending_add
    <3>4. channelMap' \in [Threads -> [Fds -> Channels \cup {NULL}]]
      BY <2>1, <3>1, <3>2, UpdateTable DEF TypeOK
    <3>5. epoll' \in [Threads -> [Fds -> SUBSET Interest]]
      BY <2>1, <3>1, <3>3, UpdateTable DEF TypeOK
    <3> QED BY <1>3, <2>2, <3>4, <3>5, WalkType DEF handle_pending_add
  <2> QED BY <2>3, <2>4
<1>4. CASE handle_pending_remove(t)
  <2> DEFINE ch == Current(t).channel
             fd == Fd[ch]
  <2>1. ch \in Channels
    BY <1>1, <1>4 DEF handle_pending_remove, Element
  <2>2. crashed' \in BOOLEAN
    BY <1>4 DEF TypeOK, handle_pending_remove, EpollCtlFails
  <2>3. CASE UNCHANGED <<channelMap, epoll>>
    BY <1>4, <2>2, <2>3, WalkType DEF handle_pending_remove, TypeOK
  <2>4. CASE ~ UNCHANGED <<channelMap, epoll>>
    <3>1. fd \in Fds
      BY <1>4, <2>1, <2>4 DEF handle_pending_remove
    <3>2. channelMap' = [channelMap EXCEPT ![t][fd] = NULL]
      BY <1>4, <2>4 DEF handle_pending_remove
    <3>3. epoll' = [epoll EXCEPT ![t][fd] = {}]
      BY <1>4, <2>4 DEF handle_pending_remove
    <3>4. channelMap' \in [Threads -> [Fds -> Channels \cup {NULL}]]
      BY <2>1, <3>1, <3>2, UpdateTable DEF TypeOK
    <3>5. epoll' \in [Threads -> [Fds -> SUBSET Interest]]
      BY <2>1, <3>1, <3>3, UpdateTable DEF TypeOK
    <3> QED BY <1>4, <2>2, <3>4, <3>5, WalkType DEF handle_pending_remove
  <2> QED BY <2>3, <2>4
<1>5. CASE handle_pending_update(t)
  <2> DEFINE ch == Current(t).channel
             fd == Fd[ch]
  <2>1. ch \in Channels
    BY <1>1, <1>5 DEF handle_pending_update, Element
  <2>2. crashed' \in BOOLEAN
    BY <1>5 DEF TypeOK, handle_pending_update, EpollCtlFails
  <2>3. CASE UNCHANGED <<channelMap, epoll>>
    BY <1>5, <2>2, <2>3, WalkType DEF handle_pending_update, TypeOK
  <2>4. CASE ~ UNCHANGED <<channelMap, epoll>>
    <3>1. fd \in Fds
      BY <1>5, <2>1, <2>4 DEF handle_pending_update
    <3>3. epoll' = [epoll EXCEPT ![t][fd] = events[ch]]
      BY <1>5, <2>4 DEF handle_pending_update
    <3>4. channelMap' \in [Threads -> [Fds -> Channels \cup {NULL}]]
      BY <1>5 DEF TypeOK, handle_pending_update
    <3>5. epoll' \in [Threads -> [Fds -> SUBSET Interest]]
      BY <2>1, <3>1, <3>3, UpdateTable DEF TypeOK
    <3> QED BY <1>5, <2>2, <3>4, <3>5, WalkType DEF handle_pending_update
  <2> QED BY <2>3, <2>4
<1>6. CASE handle_pending_done(t)
  <2>1. pending' \in [Threads -> Seq(Element)]
    BY <1>6 DEF TypeOK, handle_pending_done
  <2>2. is_handle_pending' \in [Threads -> BOOLEAN]
    BY <1>6, Zenon DEF TypeOK, handle_pending_done
  <2>3. TypeOK'
    BY <1>6, <2>1, <2>2 DEF TypeOK, PC, handle_pending_done
  <2>4. RequestOK' /\ WakeOK'
    BY <1>0, <1>6 DEF TypeOK, RequestOK, WakeOK, handle_pending_done
  <2> QED BY <2>3, <2>4
<1> QED BY <1>2, <1>3, <1>4, <1>5, <1>6 DEF HandlePending

LEMMA TypeInductive == TypeInv /\ [Next]_vars => TypeInv'
<1> SUFFICES ASSUME TypeInv, [Next]_vars PROVE TypeInv'
  OBVIOUS
<1>1. CASE UNCHANGED vars
  BY <1>1 DEF vars, TypeInv, TypeOK, RequestOK, WakeOK
<1>2. CASE Next
  <2>1. PICK t \in Threads : epoll_wait(t) \/ Run(t)
    BY <1>2 DEF Next
  <2> QED BY <2>1, WaitType, DispatchType, CallbackType, PostType, HandlePendingType DEF Run
<1> QED BY <1>1, <1>2

\* The variables keep their types in every execution, whatever the number of
\* threads and connections (event_loop.cpp, event_dispatcher.cpp).
THEOREM TypeCorrect == SafeSpec => []TypeOK
<1>1. TypeInv => TypeOK
  BY DEF TypeInv
<1> QED BY <1>1, InitType, TypeInductive, PTL DEF SafeSpec


-----------------------------------------------------------------------------
(* The lock, the flag it protects, and the wakeup.                         *)

\* The thread t is in the critical section of the loop l.
Inside(t, l) == (pc[t] = "append" /\ request[t].loop = l) \/ (pc[t] = "walk" /\ l = t)

\* "undefined" is where a process that is gone leaves its threads.
LockInv ==
    /\ \A t, l \in Threads : Inside(t, l) => mutex[l] = t
    /\ \A l \in Threads :
          is_handle_pending[l] => mutex[l] = l /\ pc[l] \in {"walk", "undefined"}

\* A poster returns to the batch it was dispatching.
AfterOK ==
    \A t \in Threads : pc[t] \in {"mutex", "append", "wakeup"} => after[t] # "epoll_wait"

\* The position in the list outside a walk and during one.
PositionOK ==
    \A t \in Threads :
        /\ pc[t] \notin {"walk", "undefined"} => channelElement[t] = 1
        /\ channelElement[t] <= Len(pending[t]) + 1

IInv == TypeInv /\ LockInv /\ AfterOK /\ PositionOK /\ NoLostWakeup

LEMMA InitIInv == Init => IInv
<1> SUFFICES ASSUME Init PROVE IInv
  OBVIOUS
<1>1. TypeInv
  BY InitType
<1>2. \A t \in Threads : /\ pc[t] = "epoll_wait" /\ ~ is_handle_pending[t]
                         /\ pending[t] = <<>> /\ channelElement[t] = 1
  BY DEF Init
<1>3. LockInv /\ AfterOK
  BY <1>2 DEF LockInv, AfterOK, Inside
<1>4. PositionOK /\ NoLostWakeup
  BY <1>2 DEF PositionOK, NoLostWakeup
<1> QED BY <1>1, <1>3, <1>4 DEF IInv

\* The steps outside the critical sections and the wakeups: they leave the
\* lists alone and take a thread from and to other program points.
LEMMA QuietStep ==
    ASSUME IInv, TypeInv', NEW t \in Threads,
           UNCHANGED <<mutex, is_handle_pending, pending, channelElement>>,
           pc[t] \in {"epoll_wait", "dispatch", "event"},
           \A u \in Threads : u # t => pc'[u] \in {pc[u], "undefined"},
           (\E u \in Threads : u # t /\ pc'[u] # pc[u]) =>
               \A u \in Threads : pc'[u] = "undefined",
           pc'[t] \in {"dispatch", "event", "mutex", "handle", "undefined"},
           pc'[t] = "mutex" => after'[t] # "epoll_wait",
           \A u \in Threads : u # t =>
               /\ request'[u] = request[u] /\ after'[u] = after[u]
               /\ pc[u] = "epoll_wait" => socketPair'[u] = socketPair[u]
    PROVE  IInv'
<1> USE DEF IInv
<1>1. LockInv'
  BY DEF LockInv, Inside
<1>2. AfterOK'
  BY DEF AfterOK
<1>3. PositionOK'
  BY DEF PositionOK
<1>4. NoLostWakeup'
  BY DEF NoLostWakeup, WakerOf
<1> QED BY <1>1, <1>2, <1>3, <1>4


LEMMA WaitSafe ==
    ASSUME IInv, TypeInv', NEW t \in Threads,
           epoll_wait(t) \/ next_event(t) \/ end_of_batch(t) \/ close_on_error(t)
    PROVE  IInv'
<1> USE DEF Goto, loopVars, kernelVars
<1>1. /\ UNCHANGED <<mutex, is_handle_pending, pending, channelElement, socketPair, request>>
      /\ pc[t] \in {"epoll_wait", "dispatch", "event"}
      /\ \A u \in Threads : u # t => pc'[u] = pc[u] /\ after'[u] = after[u]
      /\ pc'[t] \in {"dispatch", "event", "handle"}
  BY DEF epoll_wait, next_event, end_of_batch, close_on_error, IInv, TypeInv, TypeOK
<1> QED BY <1>1, QuietStep

\* What a callback does to the variables of IInv.
QuietCallback(t) ==
    /\ UNCHANGED <<mutex, is_handle_pending, pending, channelElement>>
    /\ pc[t] = "event"
    /\ \A u \in Threads : u # t =>
          request'[u] = request[u] /\ after'[u] = after[u] /\ socketPair'[u] = socketPair[u]
    /\ pc'[t] = "mutex" => after'[t] # "epoll_wait"
    /\ \/ /\ pc'[t] \in {"dispatch", "event", "mutex", "undefined"}
          /\ \A u \in Threads : u # t => pc'[u] = pc[u]
       \/ \A u \in Threads : pc'[u] = "undefined"

LEMMA CallbackSafe ==
    ASSUME IInv, TypeInv', NEW t \in Threads, Callback(t)
    PROVE  IInv'
<1> USE DEF Goto, kernelVars, NextFlag
<1>1. QuietCallback(t)
  <2> USE DEF QuietCallback
  <2> USE DEF Activating, IInv, TypeInv, TypeOK
  <2>1. CASE activate_unknown(t)
    BY <2>1 DEF activate_unknown, Return
  <2>2. CASE handleWakeup(t)
    BY <2>2 DEF handleWakeup, Return
  <2>3. ASSUME NEW ch \in Channels, NEW l \in IoLoops, handle_connection_established(t, ch, l)
        PROVE  QuietCallback(t)
    BY <2>3 DEF handle_connection_established, Call
  <2>4. ASSUME NEW ch \in Channels, handle_read(t, ch) \/ handle_write(t, ch)
        PROVE  QuietCallback(t)
    BY <2>4 DEF handle_read, handle_write, Return
  <2>5. ASSUME NEW ch \in Channels,
               handle_connection_closed(t, ch) \/ write_event_disable(t, ch)
        PROVE  QuietCallback(t)
    BY <2>5 DEF handle_connection_closed, write_event_disable, Call
  <2>6. ASSUME NEW ch \in Channels, write_event_enable(t, ch)
        PROVE  QuietCallback(t)
    <3>1. CASE Call(t, t, UPDATE, ch)
      BY <2>6, <3>1 DEF write_event_enable, Call
    <3>2. CASE UndefinedCall(t)
      BY <2>6, <3>2 DEF write_event_enable, UndefinedCall
    <3> QED BY <2>6, <3>1, <3>2 DEF write_event_enable
  <2> QED BY <2>1, <2>2, <2>3, <2>4, <2>5, <2>6 DEF Callback
<1> QED BY <1>1, QuietStep DEF QuietCallback


LEMMA PostSafe ==
    ASSUME IInv, TypeInv', NEW t \in Threads,
           do_channel_event(t) \/ channel_buffer_nolock(t) \/ wakeup(t)
    PROVE  IInv'
<1> USE DEF IInv, Goto, loopVars, kernelVars
<1>0. request[t] \in Request /\ request[t].loop \in Threads
  BY DEF TypeInv, RequestOK, Request, do_channel_event, channel_buffer_nolock, wakeup
<1>1. CASE do_channel_event(t)
  <2>1. LockInv'
    <3>1. /\ \A u \in Threads : u # t => pc'[u] = pc[u]
          /\ pc[t] = "mutex" /\ pc'[t] = "append"
          /\ UNCHANGED <<request, is_handle_pending>>
      BY <1>1 DEF TypeInv, TypeOK, do_channel_event
    <3>2. /\ mutex[request[t].loop] = NULL /\ mutex'[request[t].loop] = t
          /\ \A l \in Threads : l # request[t].loop => mutex'[l] = mutex[l]
      BY <1>0, <1>1 DEF TypeInv, TypeOK, do_channel_event
    <3> QED BY <1>0, <3>1, <3>2 DEF LockInv, Inside
  <2>2. AfterOK' /\ PositionOK'
    BY <1>1 DEF TypeInv, TypeOK, AfterOK, PositionOK, do_channel_event
  <2>3. NoLostWakeup'
    BY <1>1 DEF TypeInv, TypeOK, NoLostWakeup, WakerOf, do_channel_event
  <2> QED BY <2>1, <2>2, <2>3
<1>2. CASE channel_buffer_nolock(t)
  <2> DEFINE r == request[t]
             element == [type |-> r.type, channel |-> r.channel]
  <2>0. Inside(t, r.loop) /\ mutex[r.loop] = t
    BY <1>0, <1>2 DEF LockInv, Inside, channel_buffer_nolock
  <2>1. LockInv'
    <3>1. /\ \A u \in Threads : u # t => pc'[u] = pc[u] /\ request'[u] = request[u]
          /\ pc[t] = "append" /\ pc'[t] \in {"handle", "wakeup"}
          /\ UNCHANGED is_handle_pending
      BY <1>2 DEF TypeInv, TypeOK, channel_buffer_nolock
    <3>2. \A l \in Threads : l # r.loop => mutex'[l] = mutex[l]
      BY <1>0, <1>2 DEF TypeInv, TypeOK, channel_buffer_nolock
    <3>3. \A u \in Threads : Inside(u, r.loop) => u = t
      BY <1>0, <2>0 DEF LockInv
    <3>4. ~ is_handle_pending[r.loop]
      BY <1>0, <2>0, <3>1 DEF LockInv
    <3> QED BY <1>0, <3>1, <3>2, <3>3, <3>4 DEF LockInv, Inside
  <2>2. AfterOK'
    BY <1>2 DEF TypeInv, TypeOK, AfterOK, channel_buffer_nolock
  <2>3. PositionOK'
    <3>1. pending' = [pending EXCEPT ![r.loop] = Append(pending[r.loop], element)]
      BY <1>2 DEF channel_buffer_nolock
    <3>2. element \in Element
      BY <1>0 DEF Request, Element
    <3>3. Len(pending'[r.loop]) = Len(pending[r.loop]) + 1
      BY <1>0, <3>1, <3>2 DEF TypeInv, TypeOK
    <3>4. \A u \in Threads : u # r.loop => pending'[u] = pending[u]
      BY <3>1 DEF TypeInv, TypeOK
    <3>8. \A u \in Threads : Len(pending[u]) \in Nat
      BY DEF TypeInv, TypeOK
    <3>5. \A u \in Threads : Len(pending'[u]) >= Len(pending[u]) /\ Len(pending'[u]) \in Nat
      BY <3>3, <3>4, <3>8
    <3>6. channelElement' = channelElement
      BY <1>2 DEF channel_buffer_nolock
    <3>7. \A u \in Threads : channelElement[u] <= Len(pending'[u]) + 1
      <4>1. \A u \in Threads : channelElement[u] \in Nat /\ channelElement[u] <= Len(pending[u]) + 1
        BY DEF TypeInv, TypeOK, PositionOK
      <4> QED BY <3>5, <3>8, <4>1
    <3>9. /\ pc[t] = "append" /\ pc'[t] \in {"handle", "wakeup"}
          /\ \A u \in Threads : u # t => pc'[u] = pc[u]
      BY <1>2 DEF TypeInv, TypeOK, channel_buffer_nolock
    <3>10. \A u \in Threads : pc[u] \notin {"walk", "undefined"} => channelElement[u] = 1
      BY DEF PositionOK
    <3>11. \A u \in Threads : pc'[u] \notin {"walk", "undefined"} => channelElement'[u] = 1
      BY <3>6, <3>9, <3>10
    <3> QED BY <3>6, <3>7, <3>11 DEF PositionOK
  <2>4. NoLostWakeup'
    <3>1. /\ \A u \in Threads : u # t => pc'[u] = pc[u] /\ request'[u] = request[u]
          /\ pc[t] = "append"
          /\ pc'[t] = (IF r.loop = t THEN "handle" ELSE "wakeup")
          /\ r.loop # t => request'[t] = r
          /\ socketPair' = socketPair
      BY <1>2 DEF TypeInv, TypeOK, channel_buffer_nolock
    <3>2. \A l \in Threads : l # r.loop => pending'[l] = pending[l]
      BY <1>0, <1>2 DEF TypeInv, TypeOK, channel_buffer_nolock
    <3>3. \A l \in Threads : WakerOf(l) => WakerOf(l)'
      BY <3>1 DEF WakerOf
    <3>4. r.loop # t => WakerOf(r.loop)'
      BY <3>1 DEF WakerOf
    <3> QED BY <1>0, <3>1, <3>2, <3>3, <3>4 DEF NoLostWakeup
  <2> QED BY <2>1, <2>2, <2>3, <2>4
<1>3. CASE wakeup(t)
  <2>1. LockInv'
    <3>1. /\ \A u \in Threads : u # t => pc'[u] = pc[u] /\ request'[u] = request[u]
          /\ pc[t] = "wakeup" /\ pc'[t] \in {"epoll_wait", "dispatch", "event"}
          /\ UNCHANGED <<mutex, is_handle_pending>>
      BY <1>3 DEF TypeInv, TypeOK, wakeup
    <3> QED BY <3>1 DEF LockInv, Inside
  <2>2. AfterOK' /\ PositionOK'
    BY <1>3 DEF TypeInv, TypeOK, AfterOK, PositionOK, wakeup
  <2>3. NoLostWakeup'
    <3> DEFINE w == request[t].loop
    <3>1. /\ w \in Threads /\ pending' = pending
          /\ \A u \in Threads : u # t => pc'[u] = pc[u] /\ request'[u] = request[u]
          /\ pc'[t] # "epoll_wait"
      BY <1>0, <1>3 DEF TypeInv, TypeOK, AfterOK, wakeup
    <3>2. /\ socketPair'[w] > 0
          /\ \A l \in Threads : l # w => socketPair'[l] = socketPair[l]
      BY <1>0, <1>3 DEF TypeInv, TypeOK, wakeup
    <3>3. ASSUME NEW l \in Threads, l # w, WakerOf(l) PROVE WakerOf(l)'
      BY <3>1, <3>3 DEF WakerOf
    <3> QED BY <3>1, <3>2, <3>3 DEF NoLostWakeup
  <2> QED BY <2>1, <2>2, <2>3
<1> QED BY <1>1, <1>2, <1>3

LEMMA HandlePendingSafe ==
    ASSUME IInv, TypeInv', NEW t \in Threads, HandlePending(t)
    PROVE  IInv'
<1> USE DEF IInv, Goto, loopVars, kernelVars
<1>1. CASE handle_pending_channel(t)
  <2>1. LockInv'
    BY <1>1 DEF TypeInv, TypeOK, LockInv, Inside, handle_pending_channel
  <2>2. AfterOK' /\ PositionOK'
    BY <1>1 DEF TypeInv, TypeOK, AfterOK, PositionOK, handle_pending_channel
  <2>3. NoLostWakeup'
    BY <1>1 DEF TypeInv, TypeOK, NoLostWakeup, WakerOf, handle_pending_channel
  <2> QED BY <2>1, <2>2, <2>3
<1>2. CASE handle_pending_add(t) \/ handle_pending_remove(t) \/ handle_pending_update(t)
  <2>1. Walking(t) /\ Walk(t)
    BY <1>2 DEF handle_pending_add, handle_pending_remove, handle_pending_update
  <2>2. LockInv' /\ AfterOK'
    BY <2>1 DEF LockInv, AfterOK, Inside, Walk
  <2>3. PositionOK'
    BY <2>1 DEF TypeInv, TypeOK, PositionOK, Walking, Walk
  <2>4. NoLostWakeup'
    BY <2>1 DEF NoLostWakeup, WakerOf, Walk
  <2> QED BY <2>2, <2>3, <2>4
<1>3. CASE handle_pending_done(t)
  <2>1. LockInv'
    <3>1. /\ \A u \in Threads : u # t => pc'[u] = pc[u]
          /\ pc[t] = "walk" /\ pc'[t] \in {"epoll_wait", "dispatch", "event"}
          /\ UNCHANGED request
      BY <1>3 DEF TypeInv, TypeOK, handle_pending_done
    <3>2. /\ ~ is_handle_pending'[t]
          /\ \A l \in Threads : l # t => /\ mutex'[l] = mutex[l]
                                       /\ is_handle_pending'[l] = is_handle_pending[l]
      BY <1>3 DEF TypeInv, TypeOK, handle_pending_done
    <3>3. \A u \in Threads : Inside(u, t) => u = t
      BY <3>1 DEF LockInv, Inside
    <3> QED BY <3>1, <3>2, <3>3 DEF LockInv, Inside
  <2>2. AfterOK'
    BY <1>3 DEF TypeInv, TypeOK, AfterOK, handle_pending_done
  <2>3. PositionOK'
    BY <1>3 DEF TypeInv, TypeOK, PositionOK, handle_pending_done
  <2>4. NoLostWakeup'
    BY <1>3 DEF TypeInv, TypeOK, NoLostWakeup, WakerOf, handle_pending_done
  <2> QED BY <2>1, <2>2, <2>3, <2>4
<1> QED BY <1>1, <1>2, <1>3 DEF HandlePending

LEMMA Inductive == IInv /\ [Next]_vars => IInv'
<1> SUFFICES ASSUME IInv, [Next]_vars PROVE IInv'
  OBVIOUS
<1>0. TypeInv'
  BY TypeInductive DEF IInv
<1>1. CASE UNCHANGED vars
  BY <1>0, <1>1 DEF vars, IInv, LockInv, Inside, AfterOK, PositionOK, NoLostWakeup, WakerOf
<1>2. CASE Next
  <2>1. PICK t \in Threads : epoll_wait(t) \/ Run(t)
    BY <1>2 DEF Next
  <2> QED BY <1>0, <2>1, WaitSafe, CallbackSafe, PostSafe, HandlePendingSafe DEF Run
<1> QED BY <1>1, <1>2

LEMMA Invariance == SafeSpec => []IInv
BY InitIInv, Inductive, PTL DEF SafeSpec

\* No thread sleeps on requests that nobody will wake it for
\* (event_loop.cpp:60-71 against 231-248).
THEOREM WakeupNotLost == SafeSpec => []NoLostWakeup
<1>1. IInv => NoLostWakeup
  BY DEF IInv
<1> QED BY <1>1, Invariance, PTL

\* assert(is_handle_pending == 0) holds in do_channel_event, at the point
\* where the lock has just been taken (event_loop.cpp:63).
AssertHolds ==
    \A t \in Threads :
        pc[t] = "mutex" /\ mutex[request[t].loop] = NULL => ~ is_handle_pending[request[t].loop]

THEOREM HandlePendingAssert == SafeSpec => []AssertHolds
<1>1. IInv => AssertHolds
  BY DEF IInv, TypeInv, RequestOK, Request, LockInv, AssertHolds
<1> QED BY <1>1, Invariance, PTL

\* The list does not change under the walk (event_loop.cpp:15-37).
THEOREM StableWalk == SafeSpec => WalkIsStable
<1>1. ASSUME IInv, [Next]_vars, NEW l \in Threads, is_handle_pending[l], is_handle_pending'[l]
      PROVE  pending'[l] = pending[l]
  <2>1. CASE UNCHANGED vars
    BY <2>1 DEF vars
  <2>2. ASSUME NEW t \in Threads, channel_buffer_nolock(t) PROVE pending'[l] = pending[l]
    <3>0. pc[t] = "append"
      BY <2>2 DEF channel_buffer_nolock
    <3>3. request[t] \in Request
      BY <1>1, <3>0 DEF IInv, TypeInv, RequestOK
    <3>1. Inside(t, request[t].loop) /\ request[t].loop \in Threads
      BY <3>0, <3>3 DEF Request, Inside
    <3>2. request[t].loop # l
      BY <1>1, <2>2, <3>1 DEF IInv, LockInv, channel_buffer_nolock
    <3> QED BY <2>2, <3>2 DEF IInv, TypeInv, TypeOK, channel_buffer_nolock
  <2>3. ASSUME NEW t \in Threads, handle_pending_done(t) PROVE pending'[l] = pending[l]
    BY <1>1, <2>3 DEF IInv, TypeInv, TypeOK, handle_pending_done
  <2>4. ASSUME NEW t \in Threads, epoll_wait(t) \/ Run(t),
               ~ channel_buffer_nolock(t), ~ handle_pending_done(t)
        PROVE  pending' = pending
    BY <2>4 DEF Run, epoll_wait, next_event, end_of_batch, close_on_error, Callback,
       activate_unknown, handleWakeup, handle_connection_established, handle_read,
       handle_connection_closed, write_event_enable, handle_write, write_event_disable,
       Return, Call, UndefinedCall, do_channel_event, wakeup, HandlePending,
       handle_pending_channel, handle_pending_add, handle_pending_remove,
       handle_pending_update, Walk, loopVars
  <2> QED BY <1>1, <2>1, <2>2, <2>3, <2>4 DEF Next
<1>2. IInv /\ [Next]_vars =>
         [\A l \in Threads :
             is_handle_pending[l] /\ is_handle_pending'[l] => pending'[l] = pending[l]]_vars
  BY <1>1
<1> QED BY <1>2, Invariance, PTL DEF SafeSpec, WalkIsStable

-----------------------------------------------------------------------------
(* EventLoop implements ChannelRegistry: the lock, the flag, the wakeups   *)
(* and the walk together amount to one mailbox a loop that is applied in   *)
(* the order of posting.                                                   *)

mail == [l \in Threads |-> Unhandled(l)]

\* What appending a request does to the unhandled part of a list.
LEMMA AppendUnhandled ==
    ASSUME NEW S, NEW s \in Seq(S), NEW e \in S, NEW i \in Nat \ {0}, i <= Len(s) + 1
    PROVE  SubSeq(Append(s, e), i, Len(Append(s, e))) = Append(SubSeq(s, i, Len(s)), e)
<1>1. Append(s, e) \in Seq(S) /\ Len(Append(s, e)) = Len(s) + 1 /\ Len(s) \in Nat
  BY AppendProperties, LenProperties
<1>2. SubSeq(s, i, Len(s)) \in Seq(S)
      /\ Len(SubSeq(s, i, Len(s))) = Len(s) - i + 1
  <2>1. \A j \in i..Len(s) : s[j] \in S
    BY ElementOfSeq, <1>1
  <2> QED BY <1>1, <2>1, SubSeqProperties
<1> DEFINE a == SubSeq(Append(s, e), i, Len(s) + 1)
           b == Append(SubSeq(s, i, Len(s)), e)
<1>3. /\ a \in Seq(S)
      /\ Len(a) = Len(s) - i + 2
      /\ \A j \in 1..Len(a) : a[j] = Append(s, e)[i + j - 1]
  <2>1. \A j \in i..Len(s) + 1 : Append(s, e)[j] \in S
    BY ElementOfSeq, <1>1
  <2> QED BY <1>1, <2>1, SubSeqProperties
<1>4. /\ b \in Seq(S)
      /\ Len(b) = Len(s) - i + 2
      /\ \A j \in 1..Len(s) - i + 1 : b[j] = SubSeq(s, i, Len(s))[j]
      /\ b[Len(s) - i + 2] = e
  BY <1>1, <1>2, AppendProperties
<1>5. \A j \in 1..Len(a) : a[j] = b[j]
  <2> SUFFICES ASSUME NEW j \in 1..Len(a) PROVE a[j] = b[j]
    OBVIOUS
  <2>1. CASE j = Len(s) - i + 2
    BY <1>1, <1>3, <1>4, <2>1, AppendProperties
  <2>2. CASE j # Len(s) - i + 2
    <3>1. j \in 1..Len(s) - i + 1 /\ i + j - 1 \in 1..Len(s)
      BY <1>1, <1>3, <2>2
    <3>2. a[j] = s[i + j - 1]
      BY <1>3, <3>1, AppendProperties
    <3>3. SubSeq(s, i, Len(s))[j] = s[i + j - 1]
      <4>1. \A k \in i..Len(s) : s[k] \in S
        BY ElementOfSeq, <1>1
      <4> QED BY <1>1, <3>1, <4>1, SubSeqProperties
    <3> QED BY <1>4, <3>1, <3>2, <3>3
  <2> QED BY <2>1, <2>2
<1> QED BY <1>1, <1>3, <1>4, <1>5, SeqEqual

LEMMA RegistryInit == Init => Registry!Init
BY DEF Init, Registry!Init, Unhandled

LEMMA PostRefines ==
    ASSUME IInv, NEW t \in Threads, channel_buffer_nolock(t)
    PROVE  Registry!Next
<1>0. pc[t] = "append"
  BY DEF channel_buffer_nolock
<1>1. request[t] \in Request
  BY <1>0 DEF IInv, TypeInv, RequestOK
<1>2. PICK l \in Threads, r \in Element :
          l = request[t].loop /\ r = [type |-> request[t].type, channel |-> request[t].channel]
  BY <1>1 DEF Request, Element
<1>3. pending' = [pending EXCEPT ![l] = Append(pending[l], r)]
      /\ UNCHANGED <<channelElement, channelMap>>
  BY <1>2 DEF channel_buffer_nolock
<1>4. Unhandled(l)' = Append(Unhandled(l), r)
  <2>1. pending[l] \in Seq(Element) /\ channelElement[l] \in Nat \ {0}
        /\ channelElement[l] <= Len(pending[l]) + 1
    BY <1>2 DEF IInv, TypeInv, TypeOK, PositionOK
  <2>2. pending'[l] = Append(pending[l], r)
    BY <1>2, <1>3 DEF IInv, TypeInv, TypeOK
  <2>3. Unhandled(l)' = SubSeq(Append(pending[l], r), channelElement[l], Len(Append(pending[l], r)))
    BY <1>3, <2>2 DEF Unhandled
  <2>4. @ = Append(SubSeq(pending[l], channelElement[l], Len(pending[l])), r)
    BY <2>1, AppendUnhandled
  <2> QED BY <2>3, <2>4 DEF Unhandled
<1>5. \A u \in Threads \ {l} : Unhandled(u)' = Unhandled(u)
  BY <1>2, <1>3 DEF IInv, TypeInv, TypeOK, Unhandled
<1>6. mail' = [mail EXCEPT ![l] = Append(mail[l], r)]
  BY <1>2, <1>4, <1>5 DEF mail
<1>7. Registry!Post(l, r)
  BY <1>3, <1>6 DEF Registry!Post, mail
<1>8. r \in Registry!Requests
  BY DEF Element, Registry!Requests
<1> QED BY <1>7, <1>8 DEF Registry!Next

LEMMA WalkRefines ==
    ASSUME IInv, NEW t \in Threads,
           handle_pending_add(t) \/ handle_pending_remove(t) \/ handle_pending_update(t)
    PROVE  Registry!Next
<1> DEFINE i == channelElement[t]
           s == pending[t]
<1>1. Walking(t) /\ Walk(t)
  BY DEF handle_pending_add, handle_pending_remove, handle_pending_update
<1>2. /\ s \in Seq(Element) /\ i \in 1..Len(s) /\ Len(s) \in i..Len(s)
      /\ channelElement' = [channelElement EXCEPT ![t] = i + 1] /\ pending' = pending
  BY <1>1 DEF IInv, TypeInv, TypeOK, Walking, Walk
<1>3. /\ Unhandled(t) # <<>> /\ Head(Unhandled(t)) = Current(t)
      /\ Unhandled(t)' = Tail(Unhandled(t))
  <2>1. Head(Unhandled(t)) = s[i] /\ Tail(Unhandled(t)) = SubSeq(s, i + 1, Len(s))
    <3>1. s \in Seq(Element) /\ i \in 1..Len(s) /\ Len(s) \in i..Len(s)
      BY <1>2
    <3>2. Unhandled(t) = SubSeq(s, i, Len(s))
      BY DEF Unhandled
    <3> HIDE DEF i, s
    <3> QED BY <3>1, <3>2, HeadTailOfSubSeq
  <2>2. Len(Unhandled(t)) = Len(s) - i + 1
    BY <1>2, ElementOfSeq, SubSeqProperties DEF Unhandled
  <2>3. channelElement'[t] = i + 1
    BY <1>2 DEF IInv, TypeInv, TypeOK
  <2>4. Unhandled(t) # <<>>
    BY <1>2, <2>2
  <2> QED BY <1>2, <2>1, <2>3, <2>4 DEF Unhandled, Current
<1>4. \A u \in Threads \ {t} : Unhandled(u)' = Unhandled(u)
  BY <1>2 DEF IInv, TypeInv, TypeOK, Unhandled
<1>5. mail' = [mail EXCEPT ![t] = Tail(mail[t])]
  BY <1>3, <1>4 DEF mail
<1>6. Current(t) \in Element
  BY <1>2 DEF Current
<1>7. channelMap' = [channelMap EXCEPT ![t] = Registry!Applied(channelMap[t], Current(t))]
  <2> DEFINE fd == Fd[Current(t).channel]
  <2>0. fd \in Fds \cup {NoFd} /\ channelMap[t] \in [Fds -> Channels \cup {NULL}]
    BY <1>6 DEF Element, IInv, TypeInv, TypeOK
  <2>1. CASE handle_pending_add(t)
    BY <2>0, <2>1 DEF handle_pending_add, Registry!Applied, IInv, TypeInv, TypeOK
  <2>2. CASE handle_pending_remove(t)
    BY <2>0, <2>2 DEF handle_pending_remove, Registry!Applied, IInv, TypeInv, TypeOK
  <2>3. CASE handle_pending_update(t)
    BY <2>0, <2>3 DEF handle_pending_update, Registry!Applied, IInv, TypeInv, TypeOK
  <2> QED BY <2>1, <2>2, <2>3
<1>8. Registry!Apply(t)
  BY <1>3, <1>5, <1>7 DEF Registry!Apply, mail
<1> QED BY <1>8 DEF Registry!Next

\* The steps that change no mailbox and no table.
LEMMA QuietRefines ==
    ASSUME IInv, NEW t \in Threads, epoll_wait(t) \/ Run(t),
           ~ channel_buffer_nolock(t), ~ handle_pending_add(t),
           ~ handle_pending_remove(t), ~ handle_pending_update(t)
    PROVE  UNCHANGED <<mail, channelMap>>
<1>1. channelMap' = channelMap
  BY DEF Run, epoll_wait, next_event, end_of_batch, close_on_error, Callback,
     activate_unknown, handleWakeup, handle_connection_established, handle_read,
     handle_connection_closed, write_event_enable, handle_write, write_event_disable,
     do_channel_event, wakeup, HandlePending, handle_pending_channel,
     handle_pending_done, loopVars
<1>2. CASE handle_pending_channel(t)
  <2>1. UNCHANGED <<pending, channelElement>>
    BY <1>2 DEF handle_pending_channel, IInv, PositionOK, TypeInv, TypeOK
  <2> QED BY <1>1, <2>1 DEF mail, Unhandled
<1>3. CASE handle_pending_done(t)
  <2>1. \A u \in Threads \ {t} : Unhandled(u)' = Unhandled(u)
    BY <1>3 DEF handle_pending_done, Unhandled, IInv, TypeInv, TypeOK
  <2>2. Unhandled(t) = <<>>
    <3>1. channelElement[t] \in Int /\ Len(pending[t]) \in Int
          /\ Len(pending[t]) < channelElement[t]
      BY <1>3, LenProperties DEF handle_pending_done, IInv, TypeInv, TypeOK
    <3> QED BY <3>1, SubSeqEmpty DEF Unhandled
  <2>3. Unhandled(t)' = <<>>
    <3>1. pending'[t] = <<>> /\ channelElement'[t] = 1
      BY <1>3 DEF handle_pending_done, IInv, TypeInv, TypeOK
    <3>2. Len(pending'[t]) = 0
      BY <3>1
    <3> QED BY <3>1, <3>2, SubSeqEmpty DEF Unhandled
  <2> QED BY <1>1, <2>1, <2>2, <2>3 DEF mail
<1>4. CASE ~ handle_pending_channel(t) /\ ~ handle_pending_done(t)
  <2>1. UNCHANGED <<pending, channelElement>>
    BY <1>4 DEF Run, epoll_wait, next_event, end_of_batch, close_on_error, Callback,
       activate_unknown, handleWakeup, handle_connection_established, handle_read,
       handle_connection_closed, write_event_enable, handle_write, write_event_disable,
       Return, Call, UndefinedCall, do_channel_event, wakeup, HandlePending, loopVars
  <2> QED BY <1>1, <2>1 DEF mail, Unhandled
<1> QED BY <1>2, <1>3, <1>4

\* Every request that is posted is applied exactly once and in the order of
\* posting, whatever the threads do (event_loop.cpp:12-147).
THEOREM RegistryImplemented == SafeSpec => ImplementsRegistry
<1>1. IInv /\ [Next]_vars => [Registry!Next]_<<mail, channelMap>>
  <2> SUFFICES ASSUME IInv, [Next]_vars PROVE [Registry!Next]_<<mail, channelMap>>
    OBVIOUS
  <2>1. CASE UNCHANGED vars
    BY <2>1 DEF vars, mail, Unhandled
  <2>2. CASE Next
    <3>1. PICK t \in Threads : epoll_wait(t) \/ Run(t)
      BY <2>2 DEF Next
    <3> QED BY <3>1, PostRefines, WalkRefines, QuietRefines
  <2> QED BY <2>1, <2>2
<1>2. IInv /\ [Next]_vars =>
         [Registry!Next]_<<[l \in Threads |-> Unhandled(l)], channelMap>>
  BY <1>1 DEF mail
<1> QED BY <1>2, RegistryInit, Invariance, PTL
    DEF SafeSpec, ImplementsRegistry, Registry!Spec

-----------------------------------------------------------------------------
(***************************************************************************)
(* What the loops know of a connection: a descriptor is watched by at most *)
(* one loop, whose table has the connection that holds it, no epoll_ctl is *)
(* refused, and what is watched for is what the channel asks for.          *)
(*                                                                         *)
(* The requests carry it.  An ADD that is not handled yet is about a       *)
(* descriptor that its channel holds and that nobody watches, so nobody    *)
(* can close it, and there is one ADD for each channel.  A REMOVE or       *)
(* UPDATE is made by the owner for a channel that it watches, and handled  *)
(* before the owner dispatches the next event.                             *)
(***************************************************************************)

Open(ch) == Fd[ch] \in Fds

\* Between the connection and its ADD.
Fresh(ch) == holder[Fd[ch]] = ch /\ \A l \in Threads : epoll[l][Fd[ch]] = {}

\* Between its ADD and its REMOVE, or the end of its descriptor.
Attached(l, ch) ==
    /\ Open(ch)
    /\ epoll[l][Fd[ch]] # {}
    /\ channelMap[l][Fd[ch]] = ch /\ holder[Fd[ch]] = ch

HolderOK ==
    \A fd \in Fds :
        holder[fd] # NULL => Fd[holder[fd]] = fd /\ READ \in events[holder[fd]]

WatchOK ==
    \A l \in Threads, fd \in Fds :
        epoll[l][fd] # {} => channelMap[l][fd] # NULL /\ channelMap[l][fd] = holder[fd]

\* The events still to be dispatched are about descriptors that are watched;
\* of the one being dispatched a flag may be left after its REMOVE.
ReadyOK ==
    \A l \in Threads : \A e \in ready[l] :
        /\ ERR \in e.on => e.fd \in Fds
        /\ e.fd \in Fds => epoll[l][e.fd] # {} /\ e.fd # event[l].fd

EventOK ==
    \A l \in Threads :
        /\ event[l].fd \in Fds /\ channelMap[l][event[l].fd] # NULL
              => epoll[l][event[l].fd] # {}
        /\ ERR \in event[l].on
              => /\ event[l].fd \in Fds /\ epoll[l][event[l].fd] # {}
                 /\ pc[l] \in {"event", "undefined"}

\* An event is dispatched to its end before the next one.
PhaseOK ==
    \A l \in Threads :
        event[l].fd # NULL =>
            \/ pc[l] \in {"event", "undefined"}
            \/ after[l] = "event" /\ pc[l] \in {"mutex", "append", "wakeup", "handle", "walk"}

\* The requests that are not in a list yet, and those that are not handled.
Calling(t) == pc[t] \in {"mutex", "append"}
Unwalked(l) == channelElement[l]..Len(pending[l])

\* What holds of a request r for the loop l until it is handled.
RequestFits(l, r) ==
    /\ r.type = ADD /\ Open(r.channel) => Fresh(r.channel)
    /\ r.type # ADD => Attached(l, r.channel)
    /\ r.type = REMOVE => \A e \in ready[l] : e.fd # Fd[r.channel]

CallOK ==
    \A t \in Threads : Calling(t) =>
        /\ RequestFits(request[t].loop, request[t])
        /\ request[t].type # ADD => request[t].loop = t

ListOK ==
    \A l \in Threads : \A k \in Unwalked(l) :
        /\ RequestFits(l, pending[l][k])
        /\ pending[l][k].type # ADD =>
              /\ pc[l] \in {"handle", "walk", "undefined"}
              /\ \A j \in Unwalked(l) : pending[l][j].type # ADD => j = k

\* One ADD for each connection.
AddCalled(t, ch) == Calling(t) /\ request[t].type = ADD /\ request[t].channel = ch
AddListed(l, k, ch) ==
    k \in Unwalked(l) /\ pending[l][k].type = ADD /\ pending[l][k].channel = ch
AddOnce ==
    \A ch \in Channels : Open(ch) =>
        /\ \A t, u \in Threads : AddCalled(t, ch) /\ AddCalled(u, ch) => t = u
        /\ \A t, l \in Threads : \A k \in Unwalked(l) : ~ (AddCalled(t, ch) /\ AddListed(l, k, ch))
        /\ \A l, m \in Threads : \A k \in Unwalked(l), j \in Unwalked(m) :
              AddListed(l, k, ch) /\ AddListed(m, j, ch) => l = m /\ k = j

ConnInv ==
    /\ HolderOK /\ WatchOK /\ Confinement
    /\ ReadyOK /\ EventOK /\ PhaseOK
    /\ CallOK /\ ListOK /\ AddOnce
    /\ NoCrash

\* An UPDATE of the channel is on its way.
UpdateDue(l, ch) ==
    \/ Calling(l) /\ request[l].type = UPDATE /\ request[l].channel = ch
    \/ \E k \in Unwalked(l) : pending[l][k].type = UPDATE /\ pending[l][k].channel = ch

InterestInv ==
    \A l \in Threads, fd \in Fds :
        epoll[l][fd] # {} =>
            /\ READ \in epoll[l][fd]
            /\ pc[l] # "undefined" =>
                  \/ epoll[l][fd] \subseteq events[channelMap[l][fd]]
                  \/ UpdateDue(l, channelMap[l][fd])

USE ThreadsAssumption, FdAssumption, LoopDataAssumption, SocketBufAssumption
USE DEF ADD, REMOVE, UPDATE, READ, WRITE, ERR

\* What the requests and the tables say of each other.
ListsInv == WatchOK /\ Confinement /\ CallOK /\ ListOK /\ AddOnce

LEMMA InitConn == Init => ConnInv /\ InterestInv
<1> SUFFICES ASSUME Init PROVE ConnInv /\ InterestInv
  OBVIOUS
<1>1. /\ \A fd \in Fds : holder[fd] = NULL
      /\ \A l \in Threads, fd \in Fds : epoll[l][fd] = {}
      /\ \A l \in Threads : /\ ready[l] = {} /\ event[l] = NoEvent /\ pc[l] = "epoll_wait"
                            /\ pending[l] = <<>> /\ channelElement[l] = 1
      /\ ~ crashed
  BY DEF Init
<1>2. HolderOK /\ WatchOK /\ Confinement /\ ReadyOK /\ NoCrash
  BY <1>1 DEF HolderOK, WatchOK, Confinement, ReadyOK, NoCrash
<1>3. EventOK /\ PhaseOK
  BY <1>1 DEF EventOK, PhaseOK, NoEvent
<1>4. \A l \in Threads : ~ Calling(l) /\ Unwalked(l) = {}
  <2>1. Len(<<>>) = 0 /\ 1..0 = {}
    OBVIOUS
  <2>2. \A l \in Threads : Unwalked(l) = 1..0
    BY <1>1, <2>1 DEF Unwalked
  <2> QED BY <1>1, <2>1, <2>2 DEF Calling
<1>5. CallOK /\ ListOK /\ AddOnce
  BY <1>4 DEF CallOK, ListOK, AddOnce, AddCalled
<1>6. InterestInv
  BY <1>1 DEF InterestInv
<1> QED BY <1>2, <1>3, <1>5, <1>6 DEF ConnInv

\* What is left of a list.
LEMMA ListedElement ==
    ASSUME IInv, NEW l \in Threads, NEW k \in Unwalked(l)
    PROVE  /\ k \in 1..Len(pending[l])
           /\ pending[l][k] \in Element /\ pending[l][k].channel \in Channels
<1>1. pending[l] \in Seq(Element) /\ k \in 1..Len(pending[l])
  BY DEF Unwalked, IInv, TypeInv, TypeOK
<1>2. pending[l][k] \in Element
  BY <1>1
<1> QED BY <1>1, <1>2 DEF Element

\* The steps of a thread that is outside do_channel_event and the walk, and
\* stays there: no request is made or handled.
LEMMA ListsKept ==
    ASSUME IInv, ListsInv, NEW t \in Threads,
           UNCHANGED <<holder, epoll, channelMap, pending, channelElement, request>>,
           pc[t] \in {"epoll_wait", "dispatch", "event"},
           pc'[t] \notin {"mutex", "append"},
           \A u \in Threads \ {t} : pc'[u] \in {pc[u], "undefined"} /\ ready'[u] = ready[u]
    PROVE  ListsInv'
<1> USE DEF ListsInv
<1>1. WatchOK' /\ Confinement'
  BY DEF WatchOK, Confinement
<1>2. \A u \in Threads : Calling(u)' => Calling(u) /\ u # t
  BY DEF Calling
<1>3. \A l \in Threads : Unwalked(l)' = Unwalked(l)
  BY DEF Unwalked
<1>4. CallOK'
  BY <1>2 DEF CallOK, RequestFits, Fresh, Attached
<1>5. ListOK'
  <2> SUFFICES ASSUME NEW l \in Threads, NEW k \in Unwalked(l)
               PROVE  /\ RequestFits(l, pending[l][k])'
                      /\ pending[l][k].type # ADD =>
                            /\ pc'[l] \in {"handle", "walk", "undefined"}
                            /\ \A j \in Unwalked(l) : pending[l][j].type # ADD => j = k
    BY <1>3 DEF ListOK
  <2>1. /\ RequestFits(l, pending[l][k])
        /\ pending[l][k].type # ADD => l # t
    BY DEF ListOK
  <2>2. RequestFits(l, pending[l][k])'
    BY <2>1 DEF RequestFits, Open, Fresh, Attached
  <2> QED BY <2>1, <2>2 DEF ListOK
<1>6. AddOnce'
  BY <1>2, <1>3 DEF AddOnce, AddCalled, AddListed
<1> QED BY <1>1, <1>4, <1>5, <1>6

\* A request is made: it must fit what is there.  A descriptor may have been
\* handed out in the same step.
LEMMA ListsCall ==
    ASSUME IInv, ListsInv, NEW t \in Threads, NEW r \in Request,
           UNCHANGED <<epoll, channelMap, pending, channelElement, ready>>,
           pc[t] = "event", pc' = [pc EXCEPT ![t] = "mutex"],
           request' = [request EXCEPT ![t] = r],
           \A fd \in Fds : holder[fd] # NULL => holder'[fd] = holder[fd],
           r.type = ADD /\ Open(r.channel) => holder[Fd[r.channel]] = NULL,
           RequestFits(r.loop, r)',
           r.type # ADD => r.loop = t
    PROVE  ListsInv'
<1> USE DEF ListsInv
<1>1. /\ pc'[t] = "mutex" /\ request'[t] = r
      /\ \A u \in Threads \ {t} : pc'[u] = pc[u] /\ request'[u] = request[u]
  BY DEF IInv, TypeInv, TypeOK
<1>2. WatchOK' /\ Confinement'
  BY DEF WatchOK, Confinement
<1>3. \A u \in Threads : u # t => (Calling(u)' <=> Calling(u))
  BY <1>1 DEF Calling
<1>4. \A l \in Threads : Unwalked(l)' = Unwalked(l)
  BY DEF Unwalked
<1>5. \A ch \in Channels : Open(ch) /\ Fresh(ch) => Fresh(ch)'
  BY DEF Open, Fresh
<1>6. \A l \in Threads, ch \in Channels : Attached(l, ch) => Attached(l, ch)'
  BY DEF Open, Attached
<1>7. \A u \in Threads : Calling(u) => request[u] \in Request
  BY DEF Calling, IInv, TypeInv, RequestOK
<1>8. \A l \in Threads : \A k \in Unwalked(l) : pending[l][k] \in Element
  BY ListedElement
<1>9. CallOK'
  <2> SUFFICES ASSUME NEW u \in Threads, Calling(u)'
               PROVE  /\ RequestFits(request[u].loop, request[u])'
                      /\ request'[u].type # ADD => request'[u].loop = u
    BY DEF CallOK
  <2>1. CASE u = t
    BY <1>1, <2>1 DEF RequestFits, Fresh, Attached, Open
  <2>2. CASE u # t
    <3>1. /\ RequestFits(request[u].loop, request[u]) /\ request'[u] = request[u]
          /\ request[u].type # ADD => request[u].loop = u
          /\ request[u].loop \in Threads /\ request[u].channel \in Channels
      BY <1>1, <1>3, <1>7, <2>2 DEF CallOK, Request
    <3> QED BY <1>5, <1>6, <3>1 DEF RequestFits, Open
  <2> QED BY <2>1, <2>2
<1>10. ListOK'
  <2> SUFFICES ASSUME NEW l \in Threads, NEW k \in Unwalked(l)'
               PROVE  /\ RequestFits(l, pending[l][k])'
                      /\ pending'[l][k].type # ADD =>
                            /\ pc'[l] \in {"handle", "walk", "undefined"}
                            /\ \A j \in Unwalked(l)' : pending'[l][j].type # ADD => j = k
    BY DEF ListOK
  <2>1. k \in Unwalked(l) /\ pending[l][k].channel \in Channels
    BY <1>4, <1>8 DEF Element
  <2>2. RequestFits(l, pending[l][k])'
    BY <1>5, <1>6, <2>1 DEF ListOK, RequestFits, Open
  <2> QED BY <1>1, <1>4, <2>1, <2>2 DEF ListOK
<1>11. AddOnce'
  <2> SUFFICES ASSUME NEW ch \in Channels, Open(ch) PROVE
        /\ \A u, v \in Threads : AddCalled(u, ch)' /\ AddCalled(v, ch)' => u = v
        /\ \A u, l \in Threads : \A k \in Unwalked(l)' : ~ (AddCalled(u, ch)' /\ AddListed(l, k, ch)')
        /\ \A l, m \in Threads : \A k \in Unwalked(l)', j \in Unwalked(m)' :
              AddListed(l, k, ch)' /\ AddListed(m, j, ch)' => l = m /\ k = j
    BY DEF AddOnce, Open
  <2>1. \A l \in Threads : \A k \in Unwalked(l) : AddListed(l, k, ch)' <=> AddListed(l, k, ch)
    BY <1>4 DEF AddListed
  <2>2. \A u \in Threads : u # t => (AddCalled(u, ch)' <=> AddCalled(u, ch))
    BY <1>1, <1>3 DEF AddCalled
  <2>3. AddCalled(t, ch)' =>
            /\ \A u \in Threads : ~ AddCalled(u, ch)
            /\ \A l \in Threads : \A k \in Unwalked(l) : ~ AddListed(l, k, ch)
    <3> SUFFICES ASSUME AddCalled(t, ch)'
                 PROVE  /\ \A u \in Threads : ~ AddCalled(u, ch)
                        /\ \A l \in Threads : \A k \in Unwalked(l) : ~ AddListed(l, k, ch)
      OBVIOUS
    <3>1. holder[Fd[ch]] = NULL
      BY <1>1 DEF AddCalled
    <3>2. ~ Fresh(ch)
      BY <3>1 DEF Fresh
    <3> QED BY <3>2 DEF AddCalled, AddListed, CallOK, ListOK, RequestFits
  <2> QED BY <1>4, <2>1, <2>2, <2>3 DEF AddOnce
<1> QED BY <1>2, <1>9, <1>10, <1>11

-----------------------------------------------------------------------------
(* The batch and the event being dispatched.                               *)

\* The rest of ConnInv.
DispatchInv == ReadyOK /\ EventOK /\ PhaseOK

LEMMA WaitConn ==
    ASSUME IInv, ConnInv, NEW t \in Threads, epoll_wait(t)
    PROVE  ConnInv'
<1> USE DEF ConnInv
<1>0. PICK b \in SUBSET Candidates(t) : Batch(t, b) /\ ready' = [ready EXCEPT ![t] = b]
  BY DEF epoll_wait
<1>1. /\ pc[t] = "epoll_wait" /\ pc'[t] = "dispatch" /\ ready'[t] = b
      /\ \A u \in Threads \ {t} : pc'[u] = pc[u] /\ ready'[u] = ready[u]
      /\ UNCHANGED <<after, request, loopVars, kernelVars, event, events, crashed>>
  BY <1>0 DEF epoll_wait, Goto, IInv, TypeInv, TypeOK
<1> USE DEF loopVars, kernelVars
<1>2. WatchOK' /\ Confinement' /\ CallOK' /\ ListOK' /\ AddOnce'
  BY <1>1, ListsKept DEF ListsInv
<1>3. HolderOK' /\ NoCrash'
  BY <1>1 DEF HolderOK, NoCrash
<1>4. event[t].fd = NULL
  BY <1>1 DEF PhaseOK
<1>5. ReadyOK'
  <2>1. \A e \in b : /\ ERR \in e.on => e.fd \in Fds
                     /\ e.fd \in Fds => epoll[t][e.fd] # {}
    <3>1. \A fd \in Fds : \A e \in Reportable(t, fd) : e.fd = fd /\ epoll[t][fd] # {}
      BY DEF Reportable
    <3>2. \A e \in [fd : {Wake}, on : {{READ}}] \cup [fd : {Listen}, on : {{READ}}] :
              e.fd \notin Fds /\ ERR \notin e.on
      OBVIOUS
    <3>3. \A e \in b : \/ \E fd \in Fds : e \in Reportable(t, fd)
                       \/ e \in [fd : {Wake}, on : {{READ}}] \cup [fd : {Listen}, on : {{READ}}]
      BY DEF Candidates
    <3> QED BY <3>1, <3>2, <3>3
  <2> QED BY <1>1, <1>4, <2>1 DEF ReadyOK
<1>6. EventOK' /\ PhaseOK'
  BY <1>1, <1>4 DEF EventOK, PhaseOK, IInv, TypeInv, TypeOK, Event, NoEvent
<1> QED BY <1>2, <1>3, <1>5, <1>6

LEMMA DispatchConn ==
    ASSUME IInv, ConnInv, NEW t \in Threads, next_event(t) \/ end_of_batch(t)
    PROVE  ConnInv'
<1> USE DEF ConnInv, loopVars, kernelVars
<1>1. /\ pc[t] = "dispatch" /\ pc'[t] \in {"event", "handle"}
      /\ \A u \in Threads \ {t} : /\ pc'[u] = pc[u] /\ ready'[u] = ready[u]
                                  /\ event'[u] = event[u] /\ after'[u] = after[u]
      /\ UNCHANGED <<request, loopVars, kernelVars, events, crashed>>
  BY DEF next_event, end_of_batch, Goto, IInv, TypeInv, TypeOK
<1>2. WatchOK' /\ Confinement' /\ CallOK' /\ ListOK' /\ AddOnce'
  BY <1>1, ListsKept DEF ListsInv
<1>3. HolderOK' /\ NoCrash'
  BY <1>1 DEF HolderOK, NoCrash
<1>4. CASE next_event(t)
  <2>1. PICK e \in ready[t] : event'[t] = e /\ ready'[t] = ready[t] \ {e} /\ pc'[t] = "event"
    BY <1>4 DEF next_event, Goto, IInv, TypeInv, TypeOK
  <2>2. ReadyOK'
    BY <1>1, <2>1 DEF ReadyOK, IInv, TypeInv, WakeOK
  <2>3. EventOK'
    <3>1. /\ e.fd \in Fds => epoll[t][e.fd] # {}
          /\ ERR \in e.on => e.fd \in Fds
      BY DEF ReadyOK
    <3>2. \A l \in Threads \ {t} : event'[l] = event[l] /\ pc'[l] = pc[l]
      BY <1>1
    <3>3. UNCHANGED <<epoll, channelMap>>
      BY <1>1
    <3> QED BY <2>1, <3>1, <3>2, <3>3 DEF EventOK
  <2>4. PhaseOK'
    BY <1>1, <2>1 DEF PhaseOK
  <2> QED BY <1>2, <1>3, <2>2, <2>3, <2>4
<1>5. CASE end_of_batch(t)
  <2>1. event'[t] = event[t] /\ ready'[t] = ready[t] /\ event[t].fd = NULL
    BY <1>1, <1>5 DEF end_of_batch, PhaseOK
  <2>2. ReadyOK'
    BY <1>1, <2>1 DEF ReadyOK
  <2>3. EventOK' /\ PhaseOK'
    BY <1>1, <2>1 DEF EventOK, PhaseOK
  <2> QED BY <1>2, <1>3, <2>2, <2>3
<1> QED BY <1>4, <1>5

\* What a consumed flag leaves: the same descriptor, or nothing.
LEMMA ConsumedEvent ==
    ASSUME TypeInv, NEW t \in Threads, NEW fd \in AllFds, NEW flag \in Interest,
           Activating(t, fd, flag), Consumed(t)
    PROVE  /\ event[t].fd = fd
           /\ event'[t].fd \in {fd, NULL} /\ ERR \notin event'[t].on
           /\ event'[t].fd # NULL => NextFlag(t) = "event"
           /\ NextFlag(t) \in {"dispatch", "event"}
           /\ \A u \in Threads \ {t} : event'[u] = event[u]
<1>1. event[t] \in Event /\ event[t].fd = fd /\ ERR \notin event[t].on
  BY DEF TypeInv, TypeOK, Activating, NoEvent, AllFds
<1>2. ERR \notin Left(t)
  BY <1>1 DEF Left
<1>3. /\ NextFlag(t) \in {"dispatch", "event"}
      /\ \A u \in Threads \ {t} : event'[u] = event[u]
  BY ConsumedType
<1>4. CASE Left(t) = {}
  <2>1. event'[t] = NoEvent
    BY <1>4 DEF Consumed, TypeInv, TypeOK
  <2> QED BY <1>1, <1>3, <2>1 DEF NoEvent
<1>5. CASE Left(t) # {}
  <2>1. event'[t] = [event[t] EXCEPT !.on = Left(t)] /\ NextFlag(t) = "event"
    BY <1>5 DEF Consumed, NextFlag, TypeInv, TypeOK
  <2>2. event'[t].fd = fd /\ event'[t].on = Left(t)
    BY <1>1, <2>1 DEF Event
  <2> QED BY <1>1, <1>2, <1>3, <2>1, <2>2
<1> QED BY <1>4, <1>5

\* What a callback does to the batch, whichever way it ends.
LEMMA CallbackDispatch ==
    ASSUME IInv, DispatchInv, NEW t \in Threads, NEW fd \in AllFds, NEW flag \in Interest,
           Activating(t, fd, flag), Consumed(t),
           UNCHANGED <<epoll, channelMap, ready>>,
           \/ pc'[t] \in {NextFlag(t), "undefined"}
           \/ pc'[t] = "mutex" /\ after'[t] = NextFlag(t),
           \A u \in Threads \ {t} : pc'[u] \in {pc[u], "undefined"} /\ after'[u] = after[u]
    PROVE  DispatchInv'
<1> USE DEF DispatchInv
<1>1. /\ event[t].fd = fd /\ pc[t] = "event"
      /\ event'[t].fd \in {fd, NULL} /\ ERR \notin event'[t].on
      /\ event'[t].fd # NULL => NextFlag(t) = "event"
      /\ \A u \in Threads \ {t} : event'[u] = event[u]
  BY ConsumedEvent DEF IInv, Activating
<1>2. ReadyOK'
  BY <1>1 DEF ReadyOK
<1>3. EventOK'
  BY <1>1 DEF EventOK
<1>4. PhaseOK'
  BY <1>1 DEF PhaseOK
<1> QED BY <1>2, <1>3, <1>4

\* A callback that posts nothing.
LEMMA ReturnConn ==
    ASSUME IInv, ConnInv, NEW t \in Threads, NEW fd \in AllFds, NEW flag \in Interest,
           Activating(t, fd, flag), Consumed(t),
           UNCHANGED <<after, request, pending, channelElement, channelMap, epoll, holder,
                       ready, crashed>>,
           \A ch \in Channels : READ \in events[ch] => READ \in events'[ch],
           pc'[t] \in {NextFlag(t), "undefined"},
           \A u \in Threads \ {t} : pc'[u] \in {pc[u], "undefined"}
    PROVE  ConnInv'
<1> USE DEF ConnInv
<1>1. pc[t] = "event" /\ pc'[t] \in {"dispatch", "event", "undefined"}
  BY DEF Activating, NextFlag
<1>2. WatchOK' /\ Confinement' /\ CallOK' /\ ListOK' /\ AddOnce'
  BY <1>1, ListsKept DEF ListsInv
<1>3. HolderOK' /\ NoCrash'
  BY DEF HolderOK, NoCrash, IInv, TypeInv, TypeOK
<1>4. DispatchInv'
  BY CallbackDispatch DEF DispatchInv
<1> QED BY <1>2, <1>3, <1>4 DEF DispatchInv

\* A callback that posts a request.
LEMMA CallConn ==
    ASSUME IInv, ConnInv, NEW t \in Threads, NEW fd \in AllFds, NEW flag \in Interest,
           NEW l \in Threads, NEW type \in {ADD, REMOVE, UPDATE}, NEW ch \in Channels,
           NEW r, r = [loop |-> l, type |-> type, channel |-> ch],
           Activating(t, fd, flag), Call(t, l, type, ch),
           UNCHANGED <<channelMap, epoll, ready, crashed>>,
           \A f \in Fds : holder[f] # NULL => holder'[f] = holder[f],
           HolderOK',
           type = ADD /\ Open(ch) => holder[Fd[ch]] = NULL,
           RequestFits(l, r)',
           type # ADD => l = t
    PROVE  ConnInv'
<1> USE DEF ConnInv
<1>1. /\ pc[t] = "event" /\ pc' = [pc EXCEPT ![t] = "mutex"]
      /\ request' = [request EXCEPT ![t] = r] /\ after' = [after EXCEPT ![t] = NextFlag(t)]
      /\ Consumed(t) /\ UNCHANGED <<pending, channelElement>>
  BY DEF Activating, Call, Goto
<1>2. r \in Request /\ r.loop = l /\ r.type = type /\ r.channel = ch
  BY DEF Request
<1>3. WatchOK' /\ Confinement' /\ CallOK' /\ ListOK' /\ AddOnce'
  BY <1>1, <1>2, ListsCall DEF ListsInv
<1>4. DispatchInv'
  <2>1. /\ pc'[t] = "mutex" /\ after'[t] = NextFlag(t)
        /\ \A u \in Threads \ {t} : pc'[u] = pc[u] /\ after'[u] = after[u]
    BY <1>1 DEF IInv, TypeInv, TypeOK
  <2> QED BY <1>1, <2>1, CallbackDispatch DEF DispatchInv
<1> QED BY <1>3, <1>4 DEF DispatchInv, NoCrash

\* The channel of an activated event is attached.
LEMMA ActivatedAttached ==
    ASSUME IInv, ConnInv, NEW t \in Threads, NEW ch \in Channels, NEW flag,
           Activating(t, Fd[ch], flag), channelMap[t][Fd[ch]] = ch
    PROVE  /\ Fd[ch] \in Fds /\ Attached(t, ch)
           /\ \A e \in ready[t] : e.fd # Fd[ch]
<1>1. Fd[ch] \in Fds
  BY ActivatedFd DEF IInv, TypeInv
<1>2. event[t].fd = Fd[ch]
  BY DEF Activating
<1>3. epoll[t][Fd[ch]] # {}
  BY <1>1, <1>2 DEF ConnInv, EventOK
<1>4. holder[Fd[ch]] = ch
  BY <1>1, <1>3 DEF ConnInv, WatchOK
<1>5. \A e \in ready[t] : e.fd # Fd[ch]
  BY <1>1, <1>2 DEF ConnInv, ReadyOK
<1> QED BY <1>1, <1>3, <1>4, <1>5 DEF Attached, Open

LEMMA CallbackConn == ASSUME IInv, ConnInv, NEW t \in Threads, Callback(t) PROVE ConnInv'
<1>1. CASE activate_unknown(t)
  <2>1. PICK fd \in Fds, flag \in Interest : Activating(t, fd, flag)
    BY <1>1 DEF activate_unknown
  <2>2. /\ Consumed(t) /\ pc' = [pc EXCEPT ![t] = NextFlag(t)]
        /\ UNCHANGED <<after, request, pending, channelElement, channelMap, epoll, holder,
                       ready, events, crashed>>
    BY <1>1 DEF activate_unknown, Return, Goto, kernelVars
  <2> QED BY <2>1, <2>2, ReturnConn DEF AllFds, IInv, TypeInv, TypeOK
<1>2. CASE handleWakeup(t)
  <2>1. Activating(t, Wake, READ) /\ Wake \in AllFds /\ READ \in Interest
    BY <1>2 DEF handleWakeup, AllFds, Interest
  <2>2. /\ Consumed(t) /\ pc' = [pc EXCEPT ![t] = NextFlag(t)]
        /\ UNCHANGED <<after, request, pending, channelElement, channelMap, epoll, holder,
                       ready, events, crashed>>
    BY <1>2 DEF handleWakeup, Return, Goto
  <2> QED BY <2>1, <2>2, ReturnConn DEF IInv, TypeInv, TypeOK
<1>3. ASSUME NEW ch \in Channels, NEW l \in IoLoops, handle_connection_established(t, ch, l)
      PROVE  ConnInv'
  <2> DEFINE r == [loop |-> l, type |-> ADD, channel |-> ch]
  <2>1. l \in Threads /\ Listen \in AllFds /\ READ \in Interest /\ ADD \in {ADD, REMOVE, UPDATE}
    BY DEF IoLoops, AllFds, Interest
  <2>2. /\ Fd[ch] \in Fds => holder[Fd[ch]] = NULL /\ holder' = [holder EXCEPT ![Fd[ch]] = ch]
        /\ Fd[ch] \notin Fds => holder' = holder
        /\ events' = [events EXCEPT ![ch] = {READ}]
    BY <1>3 DEF handle_connection_established, Connecting
  <2>3. \A f \in Fds : holder[f] # NULL => holder'[f] = holder[f]
    BY <2>2 DEF IInv, TypeInv, TypeOK
  <2>4. HolderOK'
    <3> SUFFICES ASSUME NEW fd \in Fds, holder'[fd] # NULL
                 PROVE  Fd[holder'[fd]] = fd /\ READ \in events'[holder'[fd]]
      BY DEF HolderOK
    <3>1. READ \in events'[ch]
      BY <2>2 DEF IInv, TypeInv, TypeOK
    <3>2. CASE fd = Fd[ch]
      BY <2>2, <3>1, <3>2 DEF IInv, TypeInv, TypeOK
    <3>3. CASE fd # Fd[ch]
      <4>1. holder'[fd] = holder[fd]
        BY <2>2, <3>3 DEF IInv, TypeInv, TypeOK
      <4>2. holder[fd] \in Channels /\ Fd[holder[fd]] = fd /\ READ \in events[holder[fd]]
        BY <4>1 DEF ConnInv, HolderOK, IInv, TypeInv, TypeOK
      <4> QED BY <2>2, <3>1, <4>1, <4>2 DEF IInv, TypeInv, TypeOK
    <3> QED BY <3>2, <3>3
  <2>5. Open(ch) => Fresh(ch)'
    <3>1. UNCHANGED epoll
      BY <1>3 DEF handle_connection_established
    <3>2. Fd[ch] \in Fds => \A u \in Threads : epoll[u][Fd[ch]] = {}
      BY <2>2 DEF ConnInv, WatchOK
    <3> QED BY <2>2, <3>1, <3>2 DEF Open, Fresh, IInv, TypeInv, TypeOK
  <2>6. RequestFits(l, r)'
    BY <2>5 DEF RequestFits, Open
  <2>7. /\ Activating(t, Listen, READ) /\ Call(t, l, ADD, ch)
        /\ UNCHANGED <<channelMap, epoll, ready, crashed>>
    BY <1>3 DEF handle_connection_established
  <2> HIDE DEF r
  <2>8. r = [loop |-> l, type |-> ADD, channel |-> ch]
    BY DEF r
  <2> QED BY <2>1, <2>2, <2>3, <2>4, <2>6, <2>7, <2>8, CallConn DEF Open
<1>4. ASSUME NEW ch \in Channels, handle_read(t, ch) \/ handle_write(t, ch) PROVE ConnInv'
  <2>1. PICK flag \in Interest : Activating(t, Fd[ch], flag)
    BY <1>4 DEF handle_read, handle_write, Interest
  <2>2. Fd[ch] \in AllFds
    BY <2>1, ActivatedFd DEF IInv, TypeInv, AllFds
  <2>3. /\ Consumed(t) /\ pc' = [pc EXCEPT ![t] = NextFlag(t)]
        /\ UNCHANGED <<after, request, pending, channelElement, channelMap, epoll, holder,
                       ready, events, crashed>>
    BY <1>4 DEF handle_read, handle_write, Return, Goto, kernelVars
  <2> QED BY <2>1, <2>2, <2>3, ReturnConn DEF IInv, TypeInv, TypeOK
<1>5. ASSUME NEW ch \in Channels, NEW type \in {REMOVE, UPDATE}, NEW flag \in Interest,
             Activating(t, Fd[ch], flag), channelMap[t][Fd[ch]] = ch, Call(t, t, type, ch),
             UNCHANGED <<channelMap, epoll, holder, ready, crashed>>,
             \A c \in Channels : READ \in events[c] => READ \in events'[c]
      PROVE  ConnInv'
  <2>1. /\ Fd[ch] \in Fds /\ Attached(t, ch) /\ Fd[ch] \in AllFds
        /\ \A e \in ready[t] : e.fd # Fd[ch]
    BY <1>5, ActivatedAttached DEF AllFds
  <2>2. HolderOK'
    BY <1>5 DEF ConnInv, HolderOK, IInv, TypeInv, TypeOK
  <2>3. PICK r : r = [loop |-> t, type |-> type, channel |-> ch]
    OBVIOUS
  <2>4. RequestFits(t, r)'
    BY <1>5, <2>1, <2>3 DEF RequestFits, Attached, Open
  <2>5. type \in {ADD, REMOVE, UPDATE} /\ type # ADD
    OBVIOUS
  <2>6. \A f \in Fds : holder[f] # NULL => holder'[f] = holder[f]
    BY <1>5
  <2> QED BY <1>5, <2>1, <2>2, <2>3, <2>4, <2>5, <2>6, CallConn
<1>6. ASSUME NEW ch \in Channels, handle_connection_closed(t, ch) PROVE ConnInv'
  BY <1>5, <1>6 DEF handle_connection_closed, kernelVars, Interest
<1>7. ASSUME NEW ch \in Channels, write_event_disable(t, ch) PROVE ConnInv'
  <2>1. \A c \in Channels : READ \in events[c] => READ \in events'[c]
    BY <1>7 DEF write_event_disable, IInv, TypeInv, TypeOK
  <2> QED BY <1>5, <1>7, <2>1 DEF write_event_disable, kernelVars, Interest
<1>8. ASSUME NEW ch \in Channels, write_event_enable(t, ch) PROVE ConnInv'
  <2>1. \A c \in Channels : READ \in events[c] => READ \in events'[c]
    BY <1>8 DEF write_event_enable, IInv, TypeInv, TypeOK
  <2>2. /\ Activating(t, Fd[ch], READ) /\ channelMap[t][Fd[ch]] = ch /\ READ \in Interest
        /\ UNCHANGED <<channelMap, epoll, holder, ready, crashed>>
    BY <1>8 DEF write_event_enable, kernelVars, Interest
  <2>3. CASE Call(t, t, UPDATE, ch)
    BY <1>5, <2>1, <2>2, <2>3
  <2>4. CASE UndefinedCall(t)
    <3>1. Fd[ch] \in AllFds
      BY <2>2, ActivatedFd DEF IInv, TypeInv, AllFds
    <3>2. Consumed(t) /\ UNCHANGED <<after, request, pending, channelElement>>
      BY <2>4 DEF UndefinedCall
    <3>3. /\ pc'[t] \in {NextFlag(t), "undefined"}
          /\ \A u \in Threads \ {t} : pc'[u] \in {pc[u], "undefined"}
      BY <2>4 DEF UndefinedCall, Goto, IInv, TypeInv, TypeOK
    <3> QED BY <2>1, <2>2, <3>1, <3>2, <3>3, ReturnConn
  <2> QED BY <1>8, <2>3, <2>4 DEF write_event_enable
<1> QED BY <1>1, <1>2, <1>3, <1>4, <1>6, <1>7, <1>8 DEF Callback

-----------------------------------------------------------------------------
(* A descriptor is closed.                                                 *)

LEMMA CloseConn ==
    ASSUME IInv, ConnInv, NEW t \in Threads, close_on_error(t)
    PROVE  ConnInv'
<1> DEFINE fd == event[t].fd
<1>0. fd \in Fds /\ epoll[t][fd] # {} /\ \A u \in Threads \ {t} : epoll[u][fd] = {}
  BY DEF ConnInv, EventOK, Confinement, close_on_error
<1> HIDE DEF fd
<1>1. /\ pc[t] = "event" /\ pc'[t] = "dispatch" /\ event'[t].fd = NULL /\ event'[t].on = {}
      /\ \A u \in Threads \ {t} : pc'[u] = pc[u] /\ event'[u] = event[u]
      /\ UNCHANGED <<after, request, loopVars, ready, events, crashed>>
  BY DEF close_on_error, Goto, IInv, TypeInv, TypeOK, NoEvent
<1>2. /\ holder'[fd] = NULL /\ \A l \in Threads : epoll'[l][fd] = {}
      /\ \A f \in Fds \ {fd} : holder'[f] = holder[f] /\ \A l \in Threads : epoll'[l][f] = epoll[l][f]
  BY <1>0 DEF close_on_error, fd, IInv, TypeInv, TypeOK
<1> USE DEF ConnInv, loopVars
<1>3. HolderOK' /\ WatchOK' /\ Confinement' /\ NoCrash'
  BY <1>1, <1>2 DEF HolderOK, WatchOK, Confinement, NoCrash
<1>4. ReadyOK'
  <2> SUFFICES ASSUME NEW l \in Threads, NEW e \in ready[l]
               PROVE  /\ ERR \in e.on => e.fd \in Fds
                      /\ e.fd \in Fds => epoll'[l][e.fd] # {} /\ e.fd # event'[l].fd
    BY <1>1 DEF ReadyOK
  <2>1. /\ ERR \in e.on => e.fd \in Fds
        /\ e.fd \in Fds => epoll[l][e.fd] # {} /\ e.fd # event[l].fd
    BY DEF ReadyOK
  <2>2. e.fd \in Fds => e.fd # fd
    <3>1. CASE l = t
      BY <2>1, <3>1 DEF fd
    <3>2. CASE l # t
      BY <1>0, <2>1, <3>2
    <3> QED BY <3>1, <3>2
  <2>3. event'[l].fd \in {event[l].fd, NULL}
    BY <1>1
  <2> QED BY <1>1, <1>2, <2>1, <2>2, <2>3
<1>5. EventOK'
  <2> SUFFICES ASSUME NEW l \in Threads
               PROVE  /\ event'[l].fd \in Fds /\ channelMap'[l][event'[l].fd] # NULL
                            => epoll'[l][event'[l].fd] # {}
                      /\ ERR \in event'[l].on
                            => /\ event'[l].fd \in Fds /\ epoll'[l][event'[l].fd] # {}
                               /\ pc'[l] \in {"event", "undefined"}
    BY DEF EventOK
  <2>1. CASE l = t
    BY <1>1, <2>1
  <2>2. CASE l # t
    BY <1>0, <1>1, <1>2, <2>2 DEF EventOK
  <2> QED BY <2>1, <2>2
<1>6. PhaseOK'
  BY <1>1 DEF PhaseOK
<1>7. \A u \in Threads : (Calling(u)' <=> Calling(u)) /\ (Calling(u) => u # t)
  BY <1>1 DEF Calling
<1>8. \A l \in Threads : Unwalked(l)' = Unwalked(l)
  BY <1>1 DEF Unwalked
<1>9. /\ \A ch \in Channels : Open(ch) /\ Fresh(ch) => Fresh(ch)'
      /\ \A u \in Threads \ {t}, ch \in Channels : Attached(u, ch) => Attached(u, ch)'
  BY <1>0, <1>1, <1>2 DEF Open, Fresh, Attached
<1>10. CallOK'
  <2> SUFFICES ASSUME NEW u \in Threads, Calling(u)
               PROVE  /\ RequestFits(request[u].loop, request[u])'
                      /\ request'[u].type # ADD => request'[u].loop = u
    BY <1>7 DEF CallOK
  <2>1. request'[u] = request[u] /\ request[u].channel \in Channels /\ u # t
    BY <1>1, <1>7 DEF Calling, IInv, TypeInv, RequestOK, Request
  <2> QED BY <1>1, <1>9, <2>1 DEF CallOK, RequestFits, Open
<1>11. ListOK'
  <2> SUFFICES ASSUME NEW l \in Threads, NEW k \in Unwalked(l)
               PROVE  /\ RequestFits(l, pending[l][k])'
                      /\ pending'[l][k].type # ADD =>
                            /\ pc'[l] \in {"handle", "walk", "undefined"}
                            /\ \A j \in Unwalked(l) : pending'[l][j].type # ADD => j = k
    BY <1>8 DEF ListOK
  <2>1. pending[l][k].channel \in Channels
    BY ListedElement
  <2>2. pending[l][k].type # ADD => l # t
    BY <1>1 DEF ListOK
  <2>3. RequestFits(l, pending[l][k])'
    <3>1. RequestFits(l, pending[l][k]) /\ pending' = pending /\ ready' = ready
      BY <1>1 DEF ListOK
    <3>2. pending[l][k].type = ADD /\ Open(pending[l][k].channel) => Fresh(pending[l][k].channel)'
      BY <1>9, <2>1, <3>1 DEF RequestFits
    <3>3. pending[l][k].type # ADD => Attached(l, pending[l][k].channel)'
      BY <1>9, <2>1, <2>2, <3>1 DEF RequestFits
    <3> QED BY <3>1, <3>2, <3>3 DEF RequestFits, Open, Fresh, Attached
  <2> QED BY <1>1, <2>2, <2>3 DEF ListOK
<1>12. AddOnce'
  BY <1>1, <1>7, <1>8 DEF AddOnce, AddCalled, AddListed, Open
<1> QED BY <1>3, <1>4, <1>5, <1>6, <1>10, <1>11, <1>12

-----------------------------------------------------------------------------
(* do_channel_event, wakeup and the ends of the walk.                      *)

\* A step that makes and handles no request.
LEMMA ListsSame ==
    ASSUME IInv, ListsInv,
           UNCHANGED <<holder, epoll, channelMap, ready, pending>>,
           \A u \in Threads : Calling(u)' <=> Calling(u),
           \A u \in Threads : Calling(u) => request'[u] = request[u],
           \A l \in Threads : Unwalked(l)' = Unwalked(l),
           \A l \in Threads : pc[l] \in {"handle", "walk", "undefined"} =>
                                  pc'[l] \in {"handle", "walk", "undefined"}
    PROVE  ListsInv'
<1> USE DEF ListsInv
<1>1. WatchOK' /\ Confinement'
  BY DEF WatchOK, Confinement
<1>2. CallOK'
  BY DEF CallOK, RequestFits, Fresh, Attached
<1>3. ListOK'
  <2> SUFFICES ASSUME NEW l \in Threads, NEW k \in Unwalked(l)
               PROVE  /\ RequestFits(l, pending[l][k])'
                      /\ pending[l][k].type # ADD =>
                            /\ pc'[l] \in {"handle", "walk", "undefined"}
                            /\ \A j \in Unwalked(l) : pending[l][j].type # ADD => j = k
    BY DEF ListOK
  <2>1. RequestFits(l, pending[l][k])
    BY DEF ListOK
  <2>2. RequestFits(l, pending[l][k])'
    BY <2>1 DEF RequestFits, Open, Fresh, Attached
  <2> QED BY <2>2 DEF ListOK
<1>4. AddOnce'
  BY DEF AddOnce, AddCalled, AddListed
<1> QED BY <1>1, <1>2, <1>3, <1>4

LEMMA LockConn ==
    ASSUME IInv, ConnInv, NEW t \in Threads,
           do_channel_event(t) \/ wakeup(t) \/ handle_pending_channel(t)
    PROVE  ConnInv'
<1> USE DEF ConnInv, loopVars, kernelVars
<1>1. /\ pc[t] \in {"mutex", "wakeup", "handle"}
      /\ \A u \in Threads \ {t} : pc'[u] = pc[u] /\ request'[u] = request[u]
      /\ pc[t] # "wakeup" => request'[t] = request[t] /\ crashed' \in BOOLEAN
      /\ UNCHANGED <<holder, epoll, channelMap, ready, event, events, pending, after>>
      /\ \/ pc[t] = "mutex" /\ pc'[t] = "append"
         \/ pc[t] = "wakeup" /\ pc'[t] = after[t]
         \/ pc[t] = "handle" /\ pc'[t] = "walk"
      /\ after[t] \in {"epoll_wait", "dispatch", "event"}
  <2>1. CASE do_channel_event(t)
    BY <2>1 DEF do_channel_event, Goto, IInv, TypeInv, TypeOK, RequestOK, Request
  <2>2. CASE wakeup(t)
    BY <2>2 DEF wakeup, Goto, IInv, TypeInv, TypeOK
  <2>3. CASE handle_pending_channel(t)
    BY <2>3 DEF handle_pending_channel, Goto, IInv, TypeInv, TypeOK
  <2> QED BY <2>1, <2>2, <2>3
<1>2. channelElement' = channelElement
  BY DEF do_channel_event, wakeup, handle_pending_channel, IInv, PositionOK, TypeInv, TypeOK
<1>3. ~ crashed'
  <2>1. CASE do_channel_event(t)
    BY <2>1 DEF do_channel_event, IInv, TypeInv, RequestOK, Request, LockInv
  <2>2. CASE wakeup(t) \/ handle_pending_channel(t)
    BY <2>2 DEF wakeup, handle_pending_channel, NoCrash
  <2> QED BY <2>1, <2>2
<1>4. \A u \in Threads : (Calling(u)' <=> Calling(u)) /\ (Calling(u) => request'[u] = request[u])
  BY <1>1 DEF Calling
<1>5. \A l \in Threads : Unwalked(l)' = Unwalked(l)
  BY <1>1, <1>2 DEF Unwalked
<1>6. WatchOK' /\ Confinement' /\ CallOK' /\ ListOK' /\ AddOnce'
  BY <1>1, <1>4, <1>5, ListsSame DEF ListsInv
<1>7. HolderOK' /\ ReadyOK'
  BY <1>1 DEF HolderOK, ReadyOK
<1>8. EventOK' /\ PhaseOK'
  <2>1. EventOK'
    BY <1>1 DEF EventOK
  <2>2. PhaseOK'
    BY <1>1 DEF PhaseOK
  <2> QED BY <2>1, <2>2
<1> QED BY <1>3, <1>6, <1>7, <1>8 DEF NoCrash

\* The request goes to the end of the list.
LEMMA AppendConn ==
    ASSUME IInv, ConnInv, NEW t \in Threads, channel_buffer_nolock(t)
    PROVE  ConnInv'
<1>a. PICK r \in Request : r = request[t]
  BY DEF channel_buffer_nolock, IInv, TypeInv, RequestOK
<1>b. PICK L \in Threads : L = r.loop
  BY DEF Request
<1> DEFINE element == [type |-> r.type, channel |-> r.channel]
           n == Len(pending[L]) + 1
<1> USE DEF ConnInv, loopVars, kernelVars
<1>0. element \in Element /\ pending[L] \in Seq(Element)
  BY DEF IInv, TypeInv, TypeOK, Request, Element
<1>1. /\ pc[t] = "append" /\ pc'[t] \in {"handle", "wakeup"} /\ (L = t => pc'[t] = "handle")
      /\ \A u \in Threads \ {t} : pc'[u] = pc[u] /\ request'[u] = request[u]
      /\ UNCHANGED <<after, channelElement, channelMap, epoll, holder, ready, event,
                     events, crashed>>
  BY <1>a, <1>b DEF channel_buffer_nolock, Goto, IInv, TypeInv, TypeOK
<1>2. /\ pending'[L] = Append(pending[L], element)
      /\ \A l \in Threads \ {L} : pending'[l] = pending[l]
  BY <1>0, <1>a, <1>b DEF channel_buffer_nolock, IInv, TypeInv, TypeOK
<1>3. HolderOK' /\ WatchOK' /\ Confinement' /\ NoCrash'
  BY <1>1 DEF HolderOK, WatchOK, Confinement, NoCrash
<1>4. ReadyOK' /\ EventOK' /\ PhaseOK'
  <2>1. ReadyOK' /\ EventOK'
    BY <1>1 DEF ReadyOK, EventOK
  <2>2. PhaseOK'
    BY <1>1 DEF PhaseOK, IInv, AfterOK
  <2> QED BY <2>1, <2>2
<1>5. Calling(t) /\ ~ Calling(t)' /\ \A u \in Threads \ {t} : Calling(u)' <=> Calling(u)
  BY <1>1 DEF Calling
<1>6. \A l \in Threads \ {L} : Unwalked(l)' = Unwalked(l)
  BY <1>1, <1>2 DEF Unwalked
<1>7. /\ Unwalked(L)' = Unwalked(L) \cup {n} /\ n \notin Unwalked(L)
      /\ pending'[L][n] = element
      /\ \A k \in Unwalked(L) : pending'[L][k] = pending[L][k]
  <2>1. /\ Len(pending'[L]) = n /\ pending'[L][n] = element
        /\ \A k \in 1..Len(pending[L]) : pending'[L][k] = pending[L][k]
    BY <1>0, <1>2
  <2>2. channelElement[L] \in Nat \ {0} /\ channelElement[L] <= n /\ Len(pending[L]) \in Nat
    BY <1>0 DEF IInv, TypeInv, TypeOK, PositionOK
  <2>3. Unwalked(L) \subseteq 1..Len(pending[L])
    BY <2>2 DEF Unwalked
  <2>4. Unwalked(L)' = channelElement[L]..n
    BY <1>1, <2>1 DEF Unwalked
  <2>5. channelElement[L]..n = Unwalked(L) \cup {n} /\ n \notin Unwalked(L)
    BY <2>2 DEF Unwalked
  <2> QED BY <2>1, <2>3, <2>4, <2>5
<1>8. RequestFits(L, r) /\ (r.type # ADD => L = t)
  BY <1>5, <1>a, <1>b DEF CallOK
<1> HIDE DEF n, element
<1>9. element.type = r.type /\ element.channel = r.channel
  BY DEF element
<1>10. CallOK'
  <2> SUFFICES ASSUME NEW u \in Threads, u # t, Calling(u)
               PROVE  /\ RequestFits(request[u].loop, request[u])'
                      /\ request'[u].type # ADD => request'[u].loop = u
    BY <1>5 DEF CallOK
  <2> QED BY <1>1 DEF CallOK, RequestFits, Fresh, Attached
<1>11. ListOK'
  <2> SUFFICES ASSUME NEW l \in Threads, NEW k \in Unwalked(l)'
               PROVE  /\ RequestFits(l, pending[l][k])'
                      /\ pending'[l][k].type # ADD =>
                            /\ pc'[l] \in {"handle", "walk", "undefined"}
                            /\ \A j \in Unwalked(l)' : pending'[l][j].type # ADD => j = k
    BY DEF ListOK
  <2>1. ASSUME NEW j \in Unwalked(L), pending[L][j].type # ADD PROVE r.type = ADD /\ L # t
    BY <1>0, <1>1, <1>8, <2>1 DEF ListOK
  <2>2. CASE k \in Unwalked(l)
    <3>1. /\ pending'[l][k] = pending[l][k] /\ RequestFits(l, pending[l][k])
          /\ pending[l][k].type # ADD =>
                /\ pc[l] \in {"handle", "walk", "undefined"}
                /\ \A j \in Unwalked(l) : pending[l][j].type # ADD => j = k
      BY <1>2, <1>7, <2>2 DEF ListOK
    <3>2. RequestFits(l, pending[l][k])'
      BY <1>1, <3>1 DEF RequestFits, Open, Fresh, Attached
    <3>3. pending[l][k].type # ADD => pc'[l] = pc[l]
      BY <1>1, <3>1
    <3>4. ASSUME pending[l][k].type # ADD, NEW j \in Unwalked(l)', pending'[l][j].type # ADD
          PROVE  j = k
      <4>1. CASE j \in Unwalked(l)
        BY <1>2, <1>7, <2>2, <3>1, <3>4, <4>1
      <4>2. CASE j \notin Unwalked(l)
        BY <1>6, <1>7, <1>9, <2>1, <2>2, <3>4, <4>2
      <4> QED BY <4>1, <4>2
    <3> QED BY <3>1, <3>2, <3>3, <3>4
  <2>3. CASE k \notin Unwalked(l)
    <3>1. l = L /\ k = n
      BY <1>6, <1>7, <2>3
    <3>2. RequestFits(l, pending[l][k])'
      BY <1>1, <1>7, <1>8, <1>9, <3>1 DEF RequestFits, Open, Fresh, Attached
    <3>3. r.type # ADD => \A j \in Unwalked(L) : pending'[L][j].type = ADD
      BY <1>7, <2>1
    <3> QED BY <1>1, <1>7, <1>8, <1>9, <3>1, <3>2, <3>3
  <2> QED BY <2>2, <2>3
<1>12. AddOnce'
  <2> SUFFICES ASSUME NEW ch \in Channels, Open(ch) PROVE
        /\ \A u, v \in Threads : AddCalled(u, ch)' /\ AddCalled(v, ch)' => u = v
        /\ \A u, l \in Threads : \A k \in Unwalked(l)' : ~ (AddCalled(u, ch)' /\ AddListed(l, k, ch)')
        /\ \A l, m \in Threads : \A k \in Unwalked(l)', j \in Unwalked(m)' :
              AddListed(l, k, ch)' /\ AddListed(m, j, ch)' => l = m /\ k = j
    BY DEF AddOnce, Open
  <2>1. \A u \in Threads : AddCalled(u, ch)' => u # t /\ AddCalled(u, ch)
    BY <1>1, <1>5 DEF AddCalled
  <2>2. \A l \in Threads : \A k \in Unwalked(l)' : AddListed(l, k, ch)' =>
            AddListed(l, k, ch) \/ (l = L /\ k = n /\ AddCalled(t, ch))
    <3> SUFFICES ASSUME NEW l \in Threads, NEW k \in Unwalked(l)', AddListed(l, k, ch)'
                 PROVE  AddListed(l, k, ch) \/ (l = L /\ k = n /\ AddCalled(t, ch))
      OBVIOUS
    <3>1. CASE k \in Unwalked(l)
      BY <1>2, <1>7, <3>1 DEF AddListed
    <3>2. CASE k \notin Unwalked(l)
      BY <1>5, <1>6, <1>7, <1>9, <1>a, <3>2 DEF AddListed, AddCalled
    <3> QED BY <3>1, <3>2
  <2>3. \A l \in Threads : \A k : AddListed(l, k, ch) => k \in Unwalked(l)
    BY DEF AddListed
  <2> QED BY <2>1, <2>2, <2>3 DEF AddOnce
<1> QED BY <1>3, <1>4, <1>10, <1>11, <1>12

-----------------------------------------------------------------------------
(* The walk.                                                               *)

\* A request is handled: what holds of the others must be kept.
LEMMA WalkLists ==
    ASSUME IInv, ConnInv, NEW t \in Threads, Walking(t), Walk(t),
           \A ch \in Channels :
               Open(ch) /\ Fresh(ch) /\ ~ AddListed(t, channelElement[t], ch) => Fresh(ch)',
           \A l \in Threads, ch \in Channels :
               Attached(l, ch) /\ (l = t => Current(t).type = ADD) => Attached(l, ch)'
    PROVE  CallOK' /\ ListOK' /\ AddOnce'
<1> DEFINE n == channelElement[t]
<1> USE DEF ConnInv
<1>1. /\ pc[t] = "walk"
      /\ UNCHANGED <<pc, after, request, pending, ready, event, events, holder>>
      /\ channelElement'[t] = n + 1 /\ n \in Nat
      /\ \A l \in Threads \ {t} : channelElement'[l] = channelElement[l]
  BY DEF Walking, Walk, IInv, TypeInv, TypeOK
<1>2. /\ n \in Unwalked(t) /\ Unwalked(t)' = Unwalked(t) \ {n}
      /\ \A l \in Threads \ {t} : Unwalked(l)' = Unwalked(l)
  <2>1. Len(pending[t]) \in Nat /\ n <= Len(pending[t])
    BY DEF Walking, IInv, TypeInv, TypeOK
  <2>2. Unwalked(t) = n..Len(pending[t]) /\ Unwalked(t)' = (n + 1)..Len(pending[t])
    BY <1>1 DEF Unwalked
  <2>3. n \in n..Len(pending[t]) /\ (n + 1)..Len(pending[t]) = (n..Len(pending[t])) \ {n}
    BY <1>1, <2>1
  <2> QED BY <1>1, <2>2, <2>3 DEF Unwalked
<1> HIDE DEF n
<1>3. \A u \in Threads : (Calling(u)' <=> Calling(u)) /\ (Calling(u) => u # t)
  BY <1>1 DEF Calling
<1>4. CallOK'
  <2> SUFFICES ASSUME NEW u \in Threads, Calling(u)
               PROVE  /\ RequestFits(request[u].loop, request[u])'
                      /\ request'[u].type # ADD => request'[u].loop = u
    BY <1>3 DEF CallOK
  <2>0. PICK r \in Request : r = request[u] /\ request'[u] = r
    BY <1>1 DEF Calling, IInv, TypeInv, RequestOK
  <2>1. r.channel \in Channels /\ u # t
    BY <1>3 DEF Request
  <2>2. RequestFits(r.loop, r) /\ (r.type # ADD => r.loop = u)
    BY <2>0 DEF CallOK
  <2>3. r.type = ADD => ~ AddListed(t, n, r.channel) \/ ~ Open(r.channel)
    BY <1>2, <2>0, <2>1 DEF AddOnce, AddCalled
  <2>4. r.type = ADD /\ Open(r.channel) => Fresh(r.channel)'
    BY <2>1, <2>2, <2>3 DEF RequestFits, n
  <2>5. r.type # ADD => Attached(u, r.channel)'
    BY <2>1, <2>2 DEF RequestFits
  <2>6. RequestFits(r.loop, r)'
    BY <1>1, <2>2, <2>4, <2>5 DEF RequestFits, Open, Fresh, Attached
  <2> QED BY <2>0, <2>2, <2>6
<1>5. ListOK'
  <2> SUFFICES ASSUME NEW l \in Threads, NEW k \in Unwalked(l)'
               PROVE  /\ RequestFits(l, pending[l][k])'
                      /\ pending'[l][k].type # ADD =>
                            /\ pc'[l] \in {"handle", "walk", "undefined"}
                            /\ \A j \in Unwalked(l)' : pending'[l][j].type # ADD => j = k
    BY DEF ListOK
  <2>0. k \in Unwalked(l) /\ Unwalked(l)' \subseteq Unwalked(l) /\ (l = t => k # n)
    BY <1>2
  <2>1. PICK r \in Element : r = pending[l][k] /\ r.channel \in Channels
    BY <2>0, ListedElement
  <2>2. RequestFits(l, r) /\ (r.type # ADD => /\ pc[l] \in {"handle", "walk", "undefined"}
                                             /\ \A j \in Unwalked(l) : pending[l][j].type # ADD => j = k)
    BY <2>0, <2>1 DEF ListOK
  <2>3. r.type = ADD /\ Open(r.channel) => ~ AddListed(t, n, r.channel)
    <3>1. r.type = ADD => AddListed(l, k, r.channel)
      BY <2>0, <2>1 DEF AddListed
    <3> QED BY <1>2, <2>0, <2>1, <3>1 DEF AddOnce
  <2>4. r.type = ADD /\ Open(r.channel) => Fresh(r.channel)'
    BY <2>1, <2>2, <2>3 DEF RequestFits, n
  <2>5. r.type # ADD /\ l = t => Current(t).type = ADD
    BY <1>2, <2>0, <2>1, <2>2 DEF Current, n
  <2>6. r.type # ADD => Attached(l, r.channel)'
    BY <2>1, <2>2, <2>5 DEF RequestFits
  <2>7. RequestFits(l, r)'
    BY <1>1, <2>2, <2>4, <2>6 DEF RequestFits, Open, Fresh, Attached
  <2> QED BY <1>1, <2>0, <2>1, <2>2, <2>7
<1>6. AddOnce'
  <2>1. \A ch \in Channels : \A u \in Threads : AddCalled(u, ch)' <=> AddCalled(u, ch)
    BY <1>1, <1>3 DEF AddCalled
  <2>2. \A ch \in Channels : \A l \in Threads : \A k \in Unwalked(l)' :
            k \in Unwalked(l) /\ (AddListed(l, k, ch)' => AddListed(l, k, ch))
    BY <1>1, <1>2 DEF AddListed
  <2> QED BY <2>1, <2>2 DEF AddOnce, Open
<1> QED BY <1>4, <1>5, <1>6

LEMMA WalkedRequest ==
    ASSUME IInv, ConnInv, NEW t \in Threads, Walking(t)
    PROVE  /\ channelElement[t] \in Unwalked(t)
           /\ Current(t) \in Element /\ Current(t).channel \in Channels
           /\ RequestFits(t, Current(t))
<1>1. channelElement[t] \in Unwalked(t)
  BY DEF Walking, Unwalked, IInv, TypeInv, TypeOK
<1> QED BY <1>1, ListedElement DEF Current, ConnInv, ListOK

\* What a walk leaves alone.
LEMMA WalkConn ==
    ASSUME IInv, ConnInv, NEW t \in Threads, Walking(t), Walk(t)
    PROVE  HolderOK' /\ PhaseOK'
<1>1. UNCHANGED <<pc, after, event, events, holder>>
  BY DEF Walk
<1> QED BY <1>1 DEF ConnInv, HolderOK, PhaseOK

LEMMA AddConn ==
    ASSUME IInv, ConnInv, NEW t \in Threads, handle_pending_add(t)
    PROVE  ConnInv'
<1>0. /\ Walking(t) /\ Walk(t) /\ Current(t).type = ADD
      /\ UNCHANGED <<pc, after, event, ready, events, holder>>
  BY DEF handle_pending_add, Walk
<1>a. PICK ch \in Channels : ch = Current(t).channel
  BY <1>0, WalkedRequest
<1>b. PICK fd : fd = Fd[ch]
  OBVIOUS
<1>1. AddListed(t, channelElement[t], ch)
  BY <1>0, <1>a, WalkedRequest DEF AddListed, Current
<1>2. Open(ch) => Fresh(ch)
  BY <1>0, <1>a, WalkedRequest DEF RequestFits
<1> USE DEF ConnInv
<1>3. CASE fd = NoFd \/ channelMap[t][fd] # NULL
  <2>1. UNCHANGED <<channelMap, epoll, crashed>>
    BY <1>3, <1>a, <1>b DEF handle_pending_add
  <2>2. WatchOK' /\ Confinement' /\ ReadyOK' /\ EventOK' /\ NoCrash'
    BY <1>0, <2>1 DEF WatchOK, Confinement, ReadyOK, EventOK, NoCrash
  <2>3. \A c \in Channels : Fresh(c) => Fresh(c)'
    BY <1>0, <2>1 DEF Fresh
  <2>4. \A l \in Threads, c \in Channels : Attached(l, c) => Attached(l, c)'
    BY <1>0, <2>1 DEF Attached, Open
  <2> QED BY <1>0, <2>2, <2>3, <2>4, WalkLists, WalkConn
<1>4. CASE fd # NoFd /\ channelMap[t][fd] = NULL
  <2>0. fd \in Fds /\ Open(ch)
    BY <1>4, <1>b DEF Open
  <2>1. holder[fd] = ch /\ \A l \in Threads : epoll[l][fd] = {}
    BY <1>2, <1>b, <2>0 DEF Fresh
  <2>2. events[ch] # {} /\ ch # NULL
    BY <2>0, <2>1 DEF HolderOK
  <2>3. /\ channelMap' = [channelMap EXCEPT ![t][fd] = ch]
        /\ epoll' = [epoll EXCEPT ![t][fd] = events[ch]]
        /\ ~ crashed'
    BY <1>4, <1>a, <1>b, <2>0, <2>1, <2>2 DEF handle_pending_add, EpollAddFails
  <2>4. /\ channelMap'[t][fd] = ch /\ epoll'[t][fd] = events[ch]
        /\ \A l \in Threads, f \in Fds : l # t \/ f # fd =>
              channelMap'[l][f] = channelMap[l][f] /\ epoll'[l][f] = epoll[l][f]
    BY <2>0, <2>3 DEF IInv, TypeInv, TypeOK
  <2>5. WatchOK' /\ NoCrash'
    BY <1>0, <2>1, <2>2, <2>3, <2>4 DEF WatchOK, NoCrash
  <2>6. Confinement'
    BY <2>1, <2>4 DEF Confinement
  <2>7. ReadyOK'
    BY <1>0, <2>2, <2>4 DEF ReadyOK
  <2>8. EventOK'
    BY <1>0, <2>2, <2>4 DEF EventOK
  <2>9. ASSUME NEW c \in Channels, Open(c), Fresh(c), ~ AddListed(t, channelElement[t], c)
        PROVE  Fresh(c)'
    <3>1. Fd[c] # fd
      BY <1>1, <2>1, <2>9 DEF Fresh
    <3> QED BY <1>0, <2>4, <2>9, <3>1 DEF Fresh, Open
  <2>10. ASSUME NEW l \in Threads, NEW c \in Channels, Attached(l, c) PROVE Attached(l, c)'
    <3>1. Fd[c] # fd
      BY <2>1, <2>10 DEF Attached
    <3> QED BY <1>0, <2>4, <2>10, <3>1 DEF Attached, Open
  <2> QED BY <1>0, <2>5, <2>6, <2>7, <2>8, <2>9, <2>10, WalkLists, WalkConn
<1> QED BY <1>3, <1>4

LEMMA RemoveConn ==
    ASSUME IInv, ConnInv, NEW t \in Threads, handle_pending_remove(t)
    PROVE  ConnInv'
<1>0. /\ Walking(t) /\ Walk(t) /\ Current(t).type = REMOVE
      /\ UNCHANGED <<pc, after, event, ready, events, holder>>
  BY DEF handle_pending_remove, Walk
<1>a. PICK ch \in Channels : ch = Current(t).channel
  BY <1>0, WalkedRequest
<1>b. PICK fd : fd = Fd[ch]
  OBVIOUS
<1> USE DEF ConnInv
<1>1. /\ fd \in Fds /\ epoll[t][fd] # {} /\ channelMap[t][fd] = ch /\ holder[fd] = ch
      /\ \A e \in ready[t] : e.fd # fd
  BY <1>0, <1>a, <1>b, WalkedRequest DEF RequestFits, Attached, Open
<1>2. /\ channelMap' = [channelMap EXCEPT ![t][fd] = NULL]
      /\ epoll' = [epoll EXCEPT ![t][fd] = {}]
      /\ ~ crashed'
  BY <1>1, <1>a, <1>b DEF handle_pending_remove, EpollCtlFails
<1>3. /\ channelMap'[t][fd] = NULL /\ epoll'[t][fd] = {}
      /\ \A l \in Threads, f \in Fds : l # t \/ f # fd =>
            channelMap'[l][f] = channelMap[l][f] /\ epoll'[l][f] = epoll[l][f]
  BY <1>1, <1>2 DEF IInv, TypeInv, TypeOK
<1>4. WatchOK' /\ Confinement' /\ NoCrash'
  BY <1>0, <1>2, <1>3 DEF WatchOK, Confinement, NoCrash
<1>5. ReadyOK'
  BY <1>0, <1>1, <1>3 DEF ReadyOK
<1>6. EventOK'
  <2>1. ERR \notin event[t].on
    BY <1>0 DEF EventOK, Walking
  <2> QED BY <1>0, <1>3, <2>1 DEF EventOK
<1>7. \A c \in Channels : Open(c) /\ Fresh(c) => Fresh(c)'
  BY <1>0, <1>3 DEF Fresh, Open
<1>8. \A l \in Threads, c \in Channels : Attached(l, c) /\ l # t => Attached(l, c)'
  BY <1>0, <1>3 DEF Attached, Open
<1> QED BY <1>0, <1>4, <1>5, <1>6, <1>7, <1>8, WalkLists, WalkConn

LEMMA UpdateConn ==
    ASSUME IInv, ConnInv, NEW t \in Threads, handle_pending_update(t)
    PROVE  ConnInv'
<1>0. /\ Walking(t) /\ Walk(t) /\ Current(t).type = UPDATE
      /\ UNCHANGED <<pc, after, event, ready, events, holder>>
  BY DEF handle_pending_update, Walk
<1>a. PICK ch \in Channels : ch = Current(t).channel
  BY <1>0, WalkedRequest
<1>b. PICK fd : fd = Fd[ch]
  OBVIOUS
<1> USE DEF ConnInv
<1>1. fd \in Fds /\ epoll[t][fd] # {} /\ channelMap[t][fd] = ch /\ holder[fd] = ch
  BY <1>0, <1>a, <1>b, WalkedRequest DEF RequestFits, Attached, Open
<1>2. /\ channelMap' = channelMap
      /\ epoll' = [epoll EXCEPT ![t][fd] = events[ch]]
      /\ ~ crashed'
  BY <1>1, <1>a, <1>b DEF handle_pending_update, EpollCtlFails
<1>3. \A l \in Threads, f \in Fds : epoll'[l][f] = {} <=> epoll[l][f] = {}
  <2>1. events[ch] # {}
    BY <1>1 DEF HolderOK
  <2> QED BY <1>1, <1>2, <2>1 DEF IInv, TypeInv, TypeOK
<1>4. WatchOK' /\ Confinement' /\ NoCrash'
  BY <1>0, <1>2, <1>3 DEF WatchOK, Confinement, NoCrash
<1>5. ReadyOK' /\ EventOK'
  BY <1>0, <1>2, <1>3 DEF ReadyOK, EventOK
<1>6. \A c \in Channels : Open(c) /\ Fresh(c) => Fresh(c)'
  BY <1>0, <1>3 DEF Fresh, Open
<1>7. \A l \in Threads, c \in Channels : Attached(l, c) => Attached(l, c)'
  BY <1>0, <1>2, <1>3 DEF Attached, Open
<1> QED BY <1>0, <1>4, <1>5, <1>6, <1>7, WalkLists, WalkConn

\* Nothing is left to walk when the list is emptied.
LEMMA DoneConn ==
    ASSUME IInv, ConnInv, NEW t \in Threads, handle_pending_done(t)
    PROVE  ConnInv'
<1> USE DEF ConnInv, loopVars, kernelVars
<1>1. /\ pc[t] = "walk" /\ pc'[t] = after[t] /\ pending'[t] = <<>> /\ channelElement'[t] = 1
      /\ \A u \in Threads \ {t} : /\ pc'[u] = pc[u] /\ pending'[u] = pending[u]
                                  /\ channelElement'[u] = channelElement[u]
      /\ UNCHANGED <<after, request, channelMap, epoll, holder, ready, event, events, crashed>>
      /\ after[t] \in {"epoll_wait", "dispatch", "event"}
  BY DEF handle_pending_done, Goto, IInv, TypeInv, TypeOK
<1>2. Unwalked(t) = {} /\ Unwalked(t)' = {} /\ \A l \in Threads \ {t} : Unwalked(l)' = Unwalked(l)
  <2>1. channelElement[t] \in Nat /\ Len(pending[t]) \in Nat /\ channelElement[t] > Len(pending[t])
    BY DEF handle_pending_done, IInv, TypeInv, TypeOK
  <2>2. channelElement[t]..Len(pending[t]) = {}
    BY <2>1
  <2>3. Len(<<>>) = 0 /\ 1..0 = {}
    OBVIOUS
  <2> QED BY <1>1, <2>2, <2>3 DEF Unwalked
<1>3. \A u \in Threads : Calling(u)' <=> Calling(u)
  BY <1>1 DEF Calling
<1>4. HolderOK' /\ WatchOK' /\ Confinement' /\ NoCrash'
  BY <1>1 DEF HolderOK, WatchOK, Confinement, NoCrash
<1>5. ReadyOK' /\ EventOK' /\ PhaseOK'
  <2>1. ReadyOK' /\ EventOK'
    BY <1>1 DEF ReadyOK, EventOK
  <2>2. PhaseOK'
    BY <1>1 DEF PhaseOK
  <2> QED BY <2>1, <2>2
<1>6. CallOK'
  BY <1>1, <1>3 DEF CallOK, RequestFits, Fresh, Attached
<1>7. ListOK'
  <2> SUFFICES ASSUME NEW l \in Threads, NEW k \in Unwalked(l)'
               PROVE  /\ RequestFits(l, pending[l][k])'
                      /\ pending'[l][k].type # ADD =>
                            /\ pc'[l] \in {"handle", "walk", "undefined"}
                            /\ \A j \in Unwalked(l)' : pending'[l][j].type # ADD => j = k
    BY DEF ListOK
  <2>1. l # t /\ k \in Unwalked(l) /\ pending'[l] = pending[l]
    BY <1>1, <1>2
  <2>2. RequestFits(l, pending[l][k])
    BY <2>1 DEF ListOK
  <2>3. RequestFits(l, pending[l][k])'
    BY <1>1, <2>1, <2>2 DEF RequestFits, Open, Fresh, Attached
  <2> QED BY <1>1, <1>2, <2>1, <2>3 DEF ListOK
<1>8. AddOnce'
  BY <1>1, <1>2, <1>3 DEF AddOnce, AddCalled, AddListed, Open
<1> QED BY <1>4, <1>5, <1>6, <1>7, <1>8

LEMMA InductiveConn == IInv /\ ConnInv /\ [Next]_vars => ConnInv'
<1> SUFFICES ASSUME IInv, ConnInv, [Next]_vars PROVE ConnInv'
  OBVIOUS
<1>1. CASE UNCHANGED vars
  <2>1. /\ \A u \in Threads : Calling(u)' <=> Calling(u)
        /\ \A l \in Threads : Unwalked(l)' = Unwalked(l)
    BY <1>1 DEF vars, Calling, Unwalked
  <2>2. ListsInv'
    BY <1>1, <2>1, ListsSame DEF vars, ListsInv, ConnInv
  <2>3. HolderOK' /\ ReadyOK' /\ EventOK' /\ PhaseOK' /\ NoCrash'
    BY <1>1 DEF vars, ConnInv, HolderOK, ReadyOK, EventOK, PhaseOK, NoCrash
  <2> QED BY <2>2, <2>3 DEF ListsInv, ConnInv
<1>2. CASE Next
  <2>1. PICK t \in Threads : epoll_wait(t) \/ Run(t)
    BY <1>2 DEF Next
  <2> QED BY <2>1, WaitConn, DispatchConn, CloseConn, CallbackConn, LockConn, AppendConn,
             AddConn, RemoveConn, UpdateConn, DoneConn DEF Run, HandlePending
<1> QED BY <1>1, <1>2

LEMMA ConnInvariance == SafeSpec => []ConnInv
<1>1. Init => ConnInv
  BY InitConn
<1> QED BY <1>1, Invariance, InductiveConn, PTL DEF SafeSpec

\* No assert fails and no epoll_ctl is refused (event_loop.cpp:63,
\* event_dispatcher.cpp:22, 46, 70).
THEOREM NothingCrashes == SafeSpec => []NoCrash
<1>1. ConnInv => NoCrash
  BY DEF ConnInv
<1> QED BY <1>1, ConnInvariance, PTL

\* No descriptor is watched by two loops (tcp_server.cpp:146-154).
THEOREM Confined == SafeSpec => []Confinement
<1>1. ConnInv => Confinement
  BY DEF ConnInv
<1> QED BY <1>1, ConnInvariance, PTL

\* A watched or reported descriptor belongs to the connection in the map
\* (event_loop.cpp:156-166, event_dispatcher.cpp:83-99).
THEOREM WatchedCurrent == SafeSpec => []WatchedIsCurrent
<1>1. ConnInv => WatchedIsCurrent
  BY DEF ConnInv, WatchOK, ReadyOK, WatchedIsCurrent
<1> QED BY <1>1, ConnInvariance, PTL

-----------------------------------------------------------------------------
(* What is watched for is what the channel asks for.                       *)

\* The update of a channel stays due, or its loop is stopped.
DueKept ==
    \A l \in Threads, ch \in Channels :
        UpdateDue(l, ch) /\ pc'[l] # "undefined" => UpdateDue(l, ch)'

\* A watched descriptor has a channel.
LEMMA WatchedHasChannel ==
    ASSUME IInv, ConnInv, NEW l \in Threads, NEW fd \in Fds, epoll[l][fd] # {}
    PROVE  channelMap[l][fd] \in Channels
<1>1. channelMap[l][fd] \in Channels \cup {NULL}
  BY DEF IInv, TypeInv, TypeOK
<1>2. channelMap[l][fd] # NULL
  BY DEF ConnInv, WatchOK
<1> QED BY <1>1, <1>2

\* A step that changes no interest set, except that it may empty one.
LEMMA InterestKept ==
    ASSUME IInv, ConnInv, InterestInv, DueKept,
           \A l \in Threads : pc[l] = "undefined" => pc'[l] = "undefined",
           \A l \in Threads, fd \in Fds :
               epoll'[l][fd] # {} =>
                   epoll'[l][fd] = epoll[l][fd] /\ channelMap'[l][fd] = channelMap[l][fd],
           \A l \in Threads, fd \in Fds :
               epoll[l][fd] # {} =>
                   \/ events[channelMap[l][fd]] \subseteq events'[channelMap[l][fd]]
                   \/ UpdateDue(l, channelMap[l][fd])'
    PROVE  InterestInv'
<1> SUFFICES ASSUME NEW l \in Threads, NEW fd \in Fds, NEW ch \in Channels,
                    epoll'[l][fd] # {}, channelMap'[l][fd] = ch
             PROVE  /\ READ \in epoll'[l][fd]
                    /\ pc'[l] # "undefined" =>
                          epoll'[l][fd] \subseteq events'[ch] \/ UpdateDue(l, ch)'
  <2>1. \A l \in Threads, fd \in Fds : epoll'[l][fd] # {} => channelMap'[l][fd] \in Channels
    BY WatchedHasChannel
  <2> QED BY <2>1 DEF InterestInv, UpdateDue
<1>1. epoll[l][fd] # {} /\ epoll'[l][fd] = epoll[l][fd] /\ channelMap[l][fd] = ch
  OBVIOUS
<1>2. /\ READ \in epoll[l][fd]
      /\ pc[l] # "undefined" => epoll[l][fd] \subseteq events[ch] \/ UpdateDue(l, ch)
  BY <1>1 DEF InterestInv
<1>3. events[ch] \subseteq events'[ch] \/ UpdateDue(l, ch)'
  BY <1>1
<1> QED BY <1>1, <1>2, <1>3 DEF DueKept

\* Where a watched channel is.
LEMMA WatchedChannel ==
    ASSUME IInv, ConnInv, NEW l \in Threads, NEW fd \in Fds, NEW ch \in Channels,
           epoll[l][fd] # {}, channelMap[l][fd] = ch
    PROVE  /\ Fd[ch] = fd /\ holder[fd] = ch /\ READ \in events[ch]
           /\ \A m \in Threads : epoll[m][fd] # {} => m = l
BY DEF ConnInv, WatchOK, HolderOK, Confinement

LEMMA CallInterest ==
    ASSUME IInv, ConnInv, InterestInv, NEW t \in Threads, NEW fd \in AllFds, NEW l \in Threads,
           NEW type \in {ADD, REMOVE, UPDATE}, NEW ch \in Channels, NEW flag,
           Activating(t, fd, flag), Call(t, l, type, ch),
           UNCHANGED <<channelMap, epoll>>,
           \A c \in Channels : c # ch => events'[c] = events[c],
           type = ADD => ~ Created(ch),
           type = REMOVE => events' = events,
           type = UPDATE => l = t /\ Fd[ch] \in Fds /\ Attached(t, ch)
    PROVE  InterestInv'
<1>1. /\ pc[t] = "event" /\ pc'[t] = "mutex"
      /\ \A u \in Threads \ {t} : pc'[u] = pc[u] /\ request'[u] = request[u]
      /\ request'[t] = [loop |-> l, type |-> type, channel |-> ch]
      /\ UNCHANGED <<pending, channelElement>>
  BY DEF Activating, Call, Goto, IInv, TypeInv, TypeOK
<1>2. DueKept
  BY <1>1 DEF DueKept, UpdateDue, Calling, Unwalked
<1>3. ASSUME NEW m \in Threads, NEW f \in Fds, epoll[m][f] # {}, channelMap[m][f] = ch
      PROVE  events'[ch] = events[ch] \/ UpdateDue(m, ch)'
  <2>1. Fd[ch] = f /\ READ \in events[ch] /\ \A u \in Threads : epoll[u][f] # {} => u = m
    BY <1>3, WatchedChannel
  <2>2. type # ADD
    BY <2>1 DEF Created
  <2>3. type = UPDATE => m = t
    BY <2>1 DEF Attached
  <2>4. type = UPDATE => UpdateDue(t, ch)'
    BY <1>1 DEF UpdateDue, Calling
  <2> QED BY <2>2, <2>3, <2>4
<1>4. \A m \in Threads, f \in Fds :
          epoll[m][f] # {} =>
              \/ events[channelMap[m][f]] \subseteq events'[channelMap[m][f]]
              \/ UpdateDue(m, channelMap[m][f])'
  <2> SUFFICES ASSUME NEW m \in Threads, NEW f \in Fds, NEW c \in Channels,
                      epoll[m][f] # {}, channelMap[m][f] = c
               PROVE  events[c] \subseteq events'[c] \/ UpdateDue(m, c)'
    <3>1. \A m \in Threads, f \in Fds : epoll[m][f] # {} => channelMap[m][f] \in Channels
      BY WatchedHasChannel
    <3> QED BY <3>1
  <2> QED BY <1>3
<1> QED BY <1>1, <1>2, <1>4, InterestKept

LEMMA CallbackInterest ==
    ASSUME IInv, ConnInv, InterestInv, NEW t \in Threads, Callback(t)
    PROVE  InterestInv'
<1>1. ASSUME Consumed(t), pc[t] = "event",
             UNCHANGED <<request, pending, channelElement, channelMap, epoll>>,
             \A c \in Channels : events[c] \subseteq events'[c],
             pc'[t] \in {NextFlag(t), "undefined"},
             \A u \in Threads \ {t} : pc'[u] \in {pc[u], "undefined"}
      PROVE  InterestInv'
  <2>1. pc'[t] \in {"dispatch", "event", "undefined"}
    BY <1>1 DEF NextFlag
  <2>2. DueKept
    BY <1>1, <2>1 DEF DueKept, UpdateDue, Calling, Unwalked
  <2>3. \A l \in Threads, fd \in Fds :
            epoll[l][fd] # {} => events[channelMap[l][fd]] \subseteq events'[channelMap[l][fd]]
    BY <1>1, WatchedHasChannel
  <2>4. \A l \in Threads : pc[l] = "undefined" => pc'[l] = "undefined"
    BY <1>1
  <2> QED BY <1>1, <2>2, <2>3, <2>4, InterestKept
<1>2. CASE \/ activate_unknown(t) \/ handleWakeup(t)
           \/ \E ch \in Channels : handle_read(t, ch) \/ handle_write(t, ch)
  <2>1. Return(t) /\ pc[t] = "event" /\ UNCHANGED <<channelMap, epoll, events>>
    BY <1>2 DEF activate_unknown, handleWakeup, handle_read, handle_write, Activating, kernelVars
  <2>2. /\ Consumed(t) /\ UNCHANGED <<request, pending, channelElement>>
        /\ pc'[t] = NextFlag(t) /\ \A u \in Threads \ {t} : pc'[u] = pc[u]
    BY <2>1 DEF Return, Goto, IInv, TypeInv, TypeOK
  <2> QED BY <1>1, <2>1, <2>2
<1>3. ASSUME NEW ch \in Channels, NEW l \in IoLoops, handle_connection_established(t, ch, l)
      PROVE  InterestInv'
  <2>1. /\ Activating(t, Listen, READ) /\ Call(t, l, ADD, ch) /\ ~ Created(ch)
        /\ UNCHANGED <<channelMap, epoll>> /\ Listen \in AllFds /\ l \in Threads
    BY <1>3 DEF handle_connection_established, Connecting, AllFds, IoLoops
  <2>2. \A c \in Channels : c # ch => events'[c] = events[c]
    BY <1>3 DEF handle_connection_established, IInv, TypeInv, TypeOK
  <2>3. ADD \in {ADD, REMOVE, UPDATE} /\ ADD # REMOVE /\ ADD # UPDATE
    OBVIOUS
  <2> QED BY <2>1, <2>2, <2>3, CallInterest
<1>4. ASSUME NEW ch \in Channels, NEW type \in {REMOVE, UPDATE}, NEW flag \in Interest,
             Activating(t, Fd[ch], flag), channelMap[t][Fd[ch]] = ch, Call(t, t, type, ch),
             UNCHANGED <<channelMap, epoll>>,
             type = REMOVE => events' = events,
             \A c \in Channels : c # ch => events'[c] = events[c]
      PROVE  InterestInv'
  <2>1. Fd[ch] \in Fds /\ Attached(t, ch) /\ Fd[ch] \in AllFds
    BY <1>4, ActivatedAttached DEF AllFds
  <2> QED BY <1>4, <2>1, CallInterest
<1>5. ASSUME NEW ch \in Channels, handle_connection_closed(t, ch) PROVE InterestInv'
  BY <1>4, <1>5 DEF handle_connection_closed, kernelVars, Interest
<1>6. ASSUME NEW ch \in Channels, write_event_disable(t, ch) PROVE InterestInv'
  <2>1. \A c \in Channels : c # ch => events'[c] = events[c]
    BY <1>6 DEF write_event_disable, IInv, TypeInv, TypeOK
  <2> QED BY <1>4, <1>6, <2>1 DEF write_event_disable, kernelVars, Interest
<1>7. ASSUME NEW ch \in Channels, write_event_enable(t, ch) PROVE InterestInv'
  <2>1. \A c \in Channels : c # ch => events'[c] = events[c]
    BY <1>7 DEF write_event_enable, IInv, TypeInv, TypeOK
  <2>2. /\ Activating(t, Fd[ch], READ) /\ channelMap[t][Fd[ch]] = ch /\ READ \in Interest
        /\ pc[t] = "event" /\ UNCHANGED <<channelMap, epoll>>
    BY <1>7 DEF write_event_enable, kernelVars, Interest, Activating
  <2>3. CASE Call(t, t, UPDATE, ch)
    BY <1>4, <2>1, <2>2, <2>3
  <2>4. CASE ch \notin LoopData /\ UndefinedCall(t)
    <3>1. Consumed(t) /\ UNCHANGED <<request, pending, channelElement>>
      BY <2>4 DEF UndefinedCall
    <3>2. /\ pc'[t] \in {NextFlag(t), "undefined"}
          /\ \A u \in Threads \ {t} : pc'[u] \in {pc[u], "undefined"}
      BY <2>4 DEF UndefinedCall, Goto, IInv, TypeInv, TypeOK
    <3>3. \A c \in Channels : events[c] \subseteq events'[c]
      BY <1>7 DEF write_event_enable, IInv, TypeInv, TypeOK
    <3> QED BY <1>1, <2>2, <3>1, <3>2, <3>3
  <2> QED BY <1>7, <2>3, <2>4 DEF write_event_enable
<1> QED BY <1>2, <1>3, <1>5, <1>6, <1>7 DEF Callback

LEMMA PlainInterest ==
    ASSUME IInv, ConnInv, InterestInv, NEW t \in Threads,
           \/ epoll_wait(t) \/ next_event(t) \/ end_of_batch(t) \/ close_on_error(t)
           \/ do_channel_event(t) \/ wakeup(t) \/ handle_pending_channel(t)
    PROVE  InterestInv'
<1> USE DEF loopVars, kernelVars
<1>1. /\ \A u \in Threads \ {t} : pc'[u] = pc[u] /\ request'[u] = request[u]
      /\ pc[t] # "undefined" /\ pc[t] # "append"
      /\ pc[t] # "wakeup" => request'[t] = request[t]
      /\ pc[t] = "mutex" => pc'[t] = "append"
      /\ UNCHANGED <<pending, channelMap, events>>
  BY DEF epoll_wait, next_event, end_of_batch, close_on_error, do_channel_event, wakeup,
     handle_pending_channel, Goto, IInv, TypeInv, TypeOK
<1>2. channelElement' = channelElement
  BY DEF epoll_wait, next_event, end_of_batch, close_on_error, do_channel_event, wakeup,
     handle_pending_channel, IInv, PositionOK, TypeInv, TypeOK
<1>3. DueKept
  BY <1>1, <1>2 DEF DueKept, UpdateDue, Calling, Unwalked
<1>4. \A l \in Threads, fd \in Fds : epoll'[l][fd] # {} => epoll'[l][fd] = epoll[l][fd]
  <2>1. CASE close_on_error(t)
    <3>1. epoll' = [l \in Threads |-> [epoll[l] EXCEPT ![event[t].fd] = {}]]
      BY <2>1 DEF close_on_error
    <3> QED BY <3>1 DEF IInv, TypeInv, TypeOK
  <2>2. CASE ~ close_on_error(t)
    BY <2>2 DEF epoll_wait, next_event, end_of_batch, do_channel_event, wakeup,
       handle_pending_channel
  <2> QED BY <2>1, <2>2
<1> QED BY <1>1, <1>3, <1>4, InterestKept

LEMMA AppendInterest ==
    ASSUME IInv, ConnInv, InterestInv, NEW t \in Threads, channel_buffer_nolock(t)
    PROVE  InterestInv'
<1>a. PICK r \in Request : r = request[t]
  BY DEF channel_buffer_nolock, IInv, TypeInv, RequestOK
<1>b. PICK L \in Threads : L = r.loop
  BY DEF Request
<1>c. PICK element \in Element : element = [type |-> r.type, channel |-> r.channel]
  BY DEF Element, Request
<1> USE DEF loopVars, kernelVars
<1>1. /\ pc[t] = "append" /\ pc'[t] \in {"handle", "wakeup"}
      /\ \A u \in Threads \ {t} : pc'[u] = pc[u] /\ request'[u] = request[u]
      /\ UNCHANGED <<channelElement, channelMap, epoll, events>>
  BY DEF channel_buffer_nolock, Goto, IInv, TypeInv, TypeOK
<1>2. /\ pending'[L] = Append(pending[L], element)
      /\ \A l \in Threads \ {L} : pending'[l] = pending[l]
  BY <1>a, <1>b, <1>c DEF channel_buffer_nolock, IInv, TypeInv, TypeOK
<1>3. r.type = UPDATE => L = t
  BY <1>1, <1>a, <1>b DEF ConnInv, CallOK, Calling
<1>4. PICK n \in Nat : n = Len(pending[L]) + 1
  BY DEF IInv, TypeInv, TypeOK
<1>5. /\ n \in Unwalked(L)' /\ pending'[L][n] = element
      /\ \A k \in Unwalked(L) : k \in Unwalked(L)' /\ pending'[L][k] = pending[L][k]
  <2>1. /\ pending[L] \in Seq(Element) /\ channelElement[L] \in Nat \ {0}
        /\ channelElement[L] <= n
    BY <1>4 DEF IInv, TypeInv, TypeOK, PositionOK
  <2>2. Len(pending'[L]) = n /\ pending'[L][n] = element
    BY <1>2, <1>4, <2>1
  <2>3. \A k \in 1..Len(pending[L]) : pending'[L][k] = pending[L][k]
    BY <1>2, <2>1
  <2>4. Len(pending[L]) \in Nat
    BY <2>1
  <2>5. \A k \in Unwalked(L) : k \in 1..Len(pending[L]) /\ k \in channelElement[L]..n
    BY <1>4, <2>1, <2>4 DEF Unwalked
  <2>6. Unwalked(L)' = channelElement[L]..n
    BY <1>1, <2>2 DEF Unwalked
  <2>7. n \in channelElement[L]..n
    BY <1>4, <2>1
  <2> QED BY <2>2, <2>3, <2>5, <2>6, <2>7
<1>6. \A l \in Threads \ {L} : Unwalked(l)' = Unwalked(l)
  BY <1>1, <1>2 DEF Unwalked
<1>7. DueKept
  <2> SUFFICES ASSUME NEW l \in Threads, NEW ch \in Channels, UpdateDue(l, ch)
               PROVE  UpdateDue(l, ch)'
    BY DEF DueKept
  <2>1. CASE \E k \in Unwalked(l) : pending[l][k].type = UPDATE /\ pending[l][k].channel = ch
    <3>1. PICK k \in Unwalked(l) : pending[l][k].type = UPDATE /\ pending[l][k].channel = ch
      BY <2>1
    <3>2. k \in Unwalked(l)' /\ pending'[l][k] = pending[l][k]
      BY <1>2, <1>5, <1>6
    <3> QED BY <3>1, <3>2 DEF UpdateDue
  <2>2. CASE l = t /\ request[l].type = UPDATE /\ request[l].channel = ch
    BY <1>a, <1>c, <1>3, <1>5, <2>2 DEF UpdateDue
  <2>3. CASE l # t /\ Calling(l) /\ request[l].type = UPDATE /\ request[l].channel = ch
    BY <1>1, <2>3 DEF UpdateDue, Calling
  <2> QED BY <2>1, <2>2, <2>3 DEF UpdateDue
<1> QED BY <1>1, <1>7, InterestKept

LEMMA DoneInterest ==
    ASSUME IInv, ConnInv, InterestInv, NEW t \in Threads, handle_pending_done(t)
    PROVE  InterestInv'
<1> USE DEF loopVars, kernelVars
<1>1. /\ pc[t] = "walk"
      /\ \A u \in Threads \ {t} : /\ pc'[u] = pc[u] /\ pending'[u] = pending[u]
                                  /\ channelElement'[u] = channelElement[u]
      /\ UNCHANGED <<request, channelMap, epoll, events>>
  BY DEF handle_pending_done, Goto, IInv, TypeInv, TypeOK
<1>2. Unwalked(t) = {}
  BY DEF Unwalked, handle_pending_done, IInv, TypeInv, TypeOK
<1>3. DueKept
  BY <1>1, <1>2 DEF DueKept, UpdateDue, Calling, Unwalked
<1> QED BY <1>1, <1>3, InterestKept

\* A step of the walk sets the interest of one channel to what it asks for.
LEMMA WalkInterest ==
    ASSUME IInv, ConnInv, InterestInv, NEW t \in Threads,
           handle_pending_add(t) \/ handle_pending_remove(t) \/ handle_pending_update(t)
    PROVE  InterestInv'
<1>0. /\ Walking(t) /\ Walk(t) /\ pc[t] = "walk"
      /\ UNCHANGED <<pc, request, pending, events, holder>>
      /\ Current(t) = pending[t][channelElement[t]]
  BY DEF handle_pending_add, handle_pending_remove, handle_pending_update, Walk, Walking, Current
<1>a. PICK ch \in Channels : ch = Current(t).channel
  BY <1>0, WalkedRequest
<1>b. PICK fd : fd = Fd[ch]
  OBVIOUS
<1>1. \A l \in Threads, f \in Fds :
          /\ l # t \/ f # fd => epoll'[l][f] = epoll[l][f] /\ channelMap'[l][f] = channelMap[l][f]
  BY <1>a, <1>b DEF handle_pending_add, handle_pending_remove, handle_pending_update,
     IInv, TypeInv, TypeOK
<1>2. fd \in Fds => \/ epoll'[t][fd] = {}
                    \/ epoll'[t][fd] = events[ch] /\ channelMap'[t][fd] = ch
                    \/ /\ Current(t).type = ADD
                       /\ epoll'[t][fd] = epoll[t][fd] /\ channelMap'[t][fd] = channelMap[t][fd]
  <2>1. CASE handle_pending_add(t)
    BY <1>a, <1>b, <2>1 DEF handle_pending_add, IInv, TypeInv, TypeOK
  <2>2. CASE handle_pending_remove(t) \/ handle_pending_update(t)
    <3>1. Current(t).type # ADD
      BY <2>2 DEF handle_pending_remove, handle_pending_update
    <3>2. Attached(t, ch)
      BY <1>0, <1>a, <3>1, WalkedRequest DEF RequestFits
    <3>3. channelMap[t][fd] = ch /\ ch # NULL
      BY <1>b, <3>2 DEF Attached
    <3> QED BY <1>a, <1>b, <2>2, <3>3
            DEF handle_pending_remove, handle_pending_update, IInv, TypeInv, TypeOK
  <2> QED BY <2>1, <2>2
<1>3. \A l \in Threads : \A k \in Unwalked(l) : l # t \/ k # channelElement[t] => k \in Unwalked(l)'
  BY <1>0 DEF Unwalked, Walk, IInv, TypeInv, TypeOK
<1>4. \A l \in Threads, c \in Channels :
          UpdateDue(l, c) => UpdateDue(l, c)' \/ (l = t /\ c = ch /\ Current(t).type = UPDATE)
  BY <1>0, <1>3, <1>a DEF UpdateDue, Calling
<1>r. fd \in Fds /\ (epoll'[t][fd] = events[ch] \/ epoll'[t][fd] = epoll[t][fd])
          /\ epoll'[t][fd] # {} => READ \in epoll'[t][fd]
  <2>1. CASE epoll'[t][fd] = epoll[t][fd]
    BY <2>1 DEF InterestInv
  <2>2. CASE fd \in Fds /\ epoll'[t][fd] = events[ch]
    <3>1. holder[fd] = ch
      BY <1>0, <1>a, <1>b, <2>2, WalkedRequest DEF RequestFits, Fresh, Attached, Open, Walking,
         handle_pending_add, handle_pending_remove, handle_pending_update
    <3> QED BY <2>2, <3>1 DEF ConnInv, HolderOK
  <2> QED BY <2>1, <2>2
<1> SUFFICES ASSUME NEW l \in Threads, NEW f \in Fds, NEW c \in Channels,
                    epoll'[l][f] # {}, channelMap'[l][f] = c
             PROVE  /\ READ \in epoll'[l][f]
                    /\ pc[l] # "undefined" =>
                          epoll'[l][f] \subseteq events[c] \/ UpdateDue(l, c)'
  <2>1. \A m \in Threads, g \in Fds : epoll'[m][g] # {} => channelMap'[m][g] \in Channels
    <3> SUFFICES ASSUME NEW m \in Threads, NEW g \in Fds, epoll'[m][g] # {}
                 PROVE  channelMap'[m][g] \in Channels
      OBVIOUS
    <3>1. CASE epoll'[m][g] = epoll[m][g] /\ channelMap'[m][g] = channelMap[m][g]
      BY <3>1, WatchedHasChannel
    <3> QED BY <1>1, <1>2, <3>1
  <2> QED BY <1>0, <2>1 DEF InterestInv, UpdateDue
<1>5. CASE l = t /\ f = fd /\ epoll'[t][fd] = events[ch] /\ channelMap'[t][fd] = ch
  BY <1>5, <1>r
<1>6. ASSUME /\ epoll'[l][f] = epoll[l][f] /\ channelMap'[l][f] = channelMap[l][f]
             /\ l = t /\ c = ch => Current(t).type # UPDATE
      PROVE  /\ READ \in epoll'[l][f]
             /\ pc[l] # "undefined" => epoll'[l][f] \subseteq events[c] \/ UpdateDue(l, c)'
  BY <1>4, <1>6 DEF InterestInv
<1>7. CASE l # t \/ f # fd
  <2>1. epoll'[l][f] = epoll[l][f] /\ channelMap'[l][f] = channelMap[l][f]
    BY <1>1, <1>7
  <2>2. Fd[c] = f
    BY <2>1, WatchedChannel
  <2> QED BY <1>6, <1>7, <1>b, <2>1, <2>2
<1> QED BY <1>2, <1>5, <1>6, <1>7

LEMMA InductiveInterest == IInv /\ ConnInv /\ InterestInv /\ [Next]_vars => InterestInv'
<1> SUFFICES ASSUME IInv, ConnInv, InterestInv, [Next]_vars PROVE InterestInv'
  OBVIOUS
<1>1. CASE UNCHANGED vars
  <2>1. DueKept
    BY <1>1 DEF vars, DueKept, UpdateDue, Calling, Unwalked
  <2> QED BY <1>1, <2>1, InterestKept DEF vars
<1>2. CASE Next
  <2>1. PICK t \in Threads : epoll_wait(t) \/ Run(t)
    BY <1>2 DEF Next
  <2> QED BY <2>1, PlainInterest, CallbackInterest, AppendInterest, DoneInterest, WalkInterest
          DEF Run, HandlePending
<1> QED BY <1>1, <1>2

\* The kernel watches a connection for reading, and for writing only if the
\* holder of the descriptor asks for it, unless the owner is on its way to
\* handle the update or stopped (channel.cpp:7-21, event_loop.cpp:98-104).
THEOREM InterestAsked == SafeSpec => []InterestIsAsked
<1>1. IInv /\ ConnInv /\ InterestInv => InterestIsAsked
  <2> SUFFICES ASSUME IInv, ConnInv, InterestInv, NEW l \in Threads, NEW fd \in Fds,
                      epoll[l][fd] # {}
               PROVE  /\ READ \in epoll[l][fd]
                      /\ holder[fd] # NULL
                      /\ Updating(l) \/ epoll[l][fd] \subseteq events[holder[fd]]
    BY DEF InterestIsAsked
  <2>1. READ \in epoll[l][fd]
    BY DEF InterestInv
  <2>2. holder[fd] # NULL /\ channelMap[l][fd] = holder[fd]
    BY DEF ConnInv, WatchOK
  <2>3. ASSUME ~ Updating(l) PROVE epoll[l][fd] \subseteq events[holder[fd]]
    <3>1. ~ Calling(l) /\ pc[l] \notin {"handle", "walk", "undefined"}
      BY <2>3 DEF Updating, Calling
    <3>2. \A k \in Unwalked(l) : pending[l][k].type = ADD
      BY <3>1 DEF ConnInv, ListOK
    <3> QED BY <2>2, <3>1, <3>2 DEF InterestInv, UpdateDue
  <2> QED BY <2>1, <2>2, <2>3
<1>2. Init => InterestInv
  BY InitConn
<1> QED BY <1>1, <1>2, InductiveInterest, Invariance, ConnInvariance, PTL DEF SafeSpec
=============================================================================
