----------------------------- MODULE EventLoop -----------------------------
(***************************************************************************)
(* The reactor of the library: one event_loop per thread, its dispatcher   *)
(* (epoll), its channel map and the list of channel requests that other    *)
(* threads post to it.  Translated from yolandapp/event_loop.cpp,          *)
(* event_dispatcher.cpp, channel.cpp and the callbacks of tcp_server.cpp   *)
(* and tcp_connection.cpp that call into the loop.  lib/ is its C twin,    *)
(* without the checks for a descriptor that is not in the map when one is  *)
(* removed or activated (lib/event_loop.c:119-125, 159-162).               *)
(*                                                                         *)
(* A loop is identified with the thread that owns it.  The channel of a    *)
(* loop's own socketPair[1] and the listening channel are registered       *)
(* before the loops run and never removed, so they appear here only as     *)
(* the descriptors Wake and Listen.                                        *)
(***************************************************************************)
EXTENDS Naturals, Sequences

CONSTANTS
    Threads,        \* the threads, each the owner of one event_loop
    MainThread,     \* the thread that accepts connections
    Channels,       \* the channels of connections
    Fds,            \* the descriptors the kernel gives to connections
    Fd,             \* channel->fd, NoFd when accept failed
    LoopData,       \* the channels whose data field is the event_loop that
                    \* channel.cpp casts it to: in the code none
    SocketBuf,      \* bytes a socketPair holds before write() blocks
    Wake,           \* socketPair[1]
    Listen,         \* acceptor->listen_fd
    NoFd,           \* -1
    NULL

ASSUME ThreadsAssumption == MainThread \in Threads /\ NULL \notin Threads
ASSUME FdAssumption ==
    /\ Fd \in [Channels -> Fds \cup {NoFd}]
    /\ Wake # Listen
    /\ NoFd \notin {Wake, Listen, NULL}
    /\ {Wake, Listen, NoFd, NULL} \cap Fds = {}
    /\ NULL \notin Channels \cup {Wake, Listen}
ASSUME LoopDataAssumption == LoopData \subseteq Channels
ASSUME SocketBufAssumption == SocketBuf \in Nat \ {0}

VARIABLES
    pc,                 \* where each thread is
    after,              \* where it goes when the call it is in returns
    request,            \* the arguments of the do_channel_event it is in
    mutex,              \* event_loop.mutex: the thread that holds it
    is_handle_pending,  \* event_loop.is_handle_pending
    pending,            \* the list from pending_head to pending_tail
    channelElement,     \* how far handle_pending_channel is in that list
    channelMap,         \* event_loop.channelMap
    socketPair,         \* the bytes in the loop's socket pair
    epoll,              \* the interest set in the kernel, {} if none
    ready,              \* the rest of the batch epoll_wait returned
    event,              \* the event being dispatched, with the flags left
    events,             \* channel->events, {} before the channel exists
    holder,             \* the connection an open descriptor belongs to
    crashed             \* an assert or error(1, ...) ended the process

loopVars == <<mutex, is_handle_pending, pending, channelElement, channelMap>>
kernelVars == <<socketPair, epoll, holder>>
vars == <<pc, after, request, mutex, is_handle_pending, pending,
          channelElement, channelMap, socketPair, epoll, ready, event,
          events, holder, crashed>>

-----------------------------------------------------------------------------
ADD == "add"        \* channel_element.type 1
REMOVE == "remove"  \* 2
UPDATE == "update"  \* 3

READ == "read"      \* EVENT_READ, EPOLLIN
WRITE == "write"    \* EVENT_WRITE, EPOLLOUT
ERR == "err"        \* EPOLLERR or EPOLLHUP
Interest == {READ, WRITE}

AllFds == Fds \cup {Wake, Listen}
Request == [loop : Threads, type : {ADD, REMOVE, UPDATE}, channel : Channels]
Element == [type : {ADD, REMOVE, UPDATE}, channel : Channels]
Event == [fd : AllFds, on : SUBSET {READ, WRITE, ERR}]
NoEvent == [fd |-> NULL, on |-> {}]
PC == {"epoll_wait", "dispatch", "event", "mutex", "append", "wakeup",
       "handle", "walk", "undefined"}

TypeOK ==
    /\ pc \in [Threads -> PC]
    /\ after \in [Threads -> {"epoll_wait", "dispatch", "event"}]
    /\ request \in [Threads -> Request \cup {NULL}]
    /\ mutex \in [Threads -> Threads \cup {NULL}]
    /\ is_handle_pending \in [Threads -> BOOLEAN]
    /\ pending \in [Threads -> Seq(Element)]
    /\ channelElement \in [Threads -> Nat \ {0}]
    /\ channelMap \in [Threads -> [Fds -> Channels \cup {NULL}]]
    /\ socketPair \in [Threads -> 0..SocketBuf]
    /\ epoll \in [Threads -> [Fds -> SUBSET Interest]]
    /\ ready \in [Threads -> SUBSET Event]
    /\ event \in [Threads -> Event \cup {NoEvent}]
    /\ events \in [Channels -> SUBSET Interest]
    /\ holder \in [Fds -> Channels \cup {NULL}]
    /\ crashed \in BOOLEAN

\* Every loop has run its constructor and the server has started: the
\* threads are in epoll_wait and no connection exists.
Init ==
    /\ pc = [t \in Threads |-> "epoll_wait"]
    /\ after = [t \in Threads |-> "epoll_wait"]
    /\ request = [t \in Threads |-> NULL]
    /\ mutex = [t \in Threads |-> NULL]
    /\ is_handle_pending = [t \in Threads |-> FALSE]
    /\ pending = [t \in Threads |-> <<>>]
    /\ channelElement = [t \in Threads |-> 1]
    /\ channelMap = [t \in Threads |-> [fd \in Fds |-> NULL]]
    /\ socketPair = [t \in Threads |-> 0]
    /\ epoll = [t \in Threads |-> [fd \in Fds |-> {}]]
    /\ ready = [t \in Threads |-> {}]
    /\ event = [t \in Threads |-> NoEvent]
    /\ events = [ch \in Channels |-> {}]
    /\ holder = [fd \in Fds |-> NULL]
    /\ crashed = FALSE

-----------------------------------------------------------------------------
(* dispatch: epoll_wait and the loop over the events it returned.          *)

Created(ch) == events[ch] # {}
Goto(t, label) == pc' = [pc EXCEPT ![t] = label]

\* The events the kernel may report for a descriptor the loop watches.
Reportable(t, fd) ==
    IF epoll[t][fd] = {} THEN {}
    ELSE [fd : {fd}, on : {{ERR}} \cup (SUBSET epoll[t][fd] \ {{}})]

\* A batch: at most one event for a descriptor.  The socket pair is level
\* triggered: it is in the batch exactly when it holds a byte.
Batch(t, b) ==
    /\ b # {}
    /\ \A e1, e2 \in b : e1.fd = e2.fd => e1 = e2
    /\ [fd |-> Wake, on |-> {READ}] \in b <=> socketPair[t] > 0

Connecting == {ch \in Channels : ~ Created(ch) /\ (Fd[ch] = NoFd \/ holder[Fd[ch]] = NULL)}

Candidates(t) ==
    (UNION {Reportable(t, fd) : fd \in Fds})
    \cup [fd : {Wake}, on : {{READ}}]
    \cup (IF t = MainThread /\ Connecting # {} THEN [fd : {Listen}, on : {{READ}}]
          ELSE {})

epoll_wait(t) ==
    /\ pc[t] = "epoll_wait"
    /\ \E b \in SUBSET Candidates(t) :
          Batch(t, b) /\ ready' = [ready EXCEPT ![t] = b]
    /\ Goto(t, "dispatch")
    /\ UNCHANGED <<after, request, loopVars, kernelVars, event, events, crashed>>

next_event(t) ==
    /\ pc[t] = "dispatch"
    /\ \E e \in ready[t] :
          /\ event' = [event EXCEPT ![t] = e]
          /\ ready' = [ready EXCEPT ![t] = @ \ {e}]
    /\ Goto(t, "event")
    /\ UNCHANGED <<after, request, loopVars, kernelVars, events, crashed>>

\* The batch is done: run() calls handle_pending_channel and then waits.
end_of_batch(t) ==
    /\ pc[t] = "dispatch"
    /\ ready[t] = {}
    /\ Goto(t, "handle")
    /\ after' = [after EXCEPT ![t] = "epoll_wait"]
    /\ UNCHANGED <<request, loopVars, kernelVars, ready, event, events, crashed>>

\* Mutant: a duplicate of the descriptor keeps it in the interest sets.
close_on_error_kept(t) ==
    /\ pc[t] = "event"
    /\ ERR \in event[t].on
    /\ holder' = [holder EXCEPT ![event[t].fd] = NULL]
    /\ event' = [event EXCEPT ![t] = NoEvent]
    /\ Goto(t, "dispatch")
    /\ UNCHANGED <<after, request, loopVars, socketPair, epoll, ready, events, crashed>>

\* EPOLLERR or EPOLLHUP: the descriptor is closed, which also takes it out
\* of the kernel's interest sets; the channel map keeps its entry.
close_on_error(t) ==
    /\ pc[t] = "event"
    /\ ERR \in event[t].on
    /\ holder' = [holder EXCEPT ![event[t].fd] = NULL]
    /\ epoll' = [l \in Threads |-> [epoll[l] EXCEPT ![event[t].fd] = {}]]
    /\ event' = [event EXCEPT ![t] = NoEvent]
    /\ Goto(t, "dispatch")
    /\ UNCHANGED <<after, request, loopVars, socketPair, ready, events, crashed>>

-----------------------------------------------------------------------------
(* channel_event_activate and the callbacks it runs.  A callback posts at  *)
(* most one request, so it is one step up to that request.                 *)

\* The flag being activated: dispatch looks at EPOLLIN before EPOLLOUT.
Flag(t) == IF READ \in event[t].on THEN READ ELSE WRITE
Left(t) == event[t].on \ {Flag(t)}
Activating(t, fd, flag) ==
    /\ pc[t] = "event"
    /\ ERR \notin event[t].on
    /\ event[t].fd = fd
    /\ flag = Flag(t)

Consumed(t) ==
    event' = [event EXCEPT ![t] = IF Left(t) = {} THEN NoEvent ELSE [@ EXCEPT !.on = Left(t)]]
NextFlag(t) == IF Left(t) = {} THEN "dispatch" ELSE "event"

\* The callback returns without a request.
Return(t) ==
    /\ Consumed(t)
    /\ Goto(t, NextFlag(t))
    /\ UNCHANGED <<after, request, mutex, is_handle_pending, pending, channelElement>>

\* The callback calls do_channel_event on the loop l.
Call(t, l, type, ch) ==
    /\ Consumed(t)
    /\ request' = [request EXCEPT ![t] = [loop |-> l, type |-> type, channel |-> ch]]
    /\ after' = [after EXCEPT ![t] = NextFlag(t)]
    /\ Goto(t, "mutex")
    /\ UNCHANGED <<mutex, is_handle_pending, pending, channelElement>>

\* The descriptor is not in the map any more: channel_event_activate
\* returns -1 and runs nothing.
activate_unknown(t) ==
    /\ \E fd \in Fds, flag \in Interest :
          Activating(t, fd, flag) /\ channelMap[t][fd] = NULL
    /\ Return(t)
    /\ UNCHANGED <<channelMap, kernelVars, ready, events, crashed>>

\* One byte a time: several wakeups may be in the socket pair.
handleWakeup(t) ==
    /\ Activating(t, Wake, READ)
    /\ socketPair' = [socketPair EXCEPT ![t] = @ - 1]
    /\ Return(t)
    /\ UNCHANGED <<channelMap, epoll, holder, ready, events, crashed>>

\* The loops get_loop chooses from: the workers', or the main one if none.
IoLoops == IF Threads = {MainThread} THEN Threads ELSE Threads \ {MainThread}

\* accept and tcp_connection's constructor: the new channel, on the loop
\* that get_loop chooses.  The descriptor is one that is not open, or -1.
handle_connection_established(t, ch, l) ==
    /\ Activating(t, Listen, READ)
    /\ ch \in Connecting
    /\ holder' = IF Fd[ch] = NoFd THEN holder ELSE [holder EXCEPT ![Fd[ch]] = ch]
    /\ events' = [events EXCEPT ![ch] = {READ}]
    /\ Call(t, l, ADD, ch)
    /\ UNCHANGED <<channelMap, socketPair, epoll, ready, crashed>>

\* handle_read got data and the application neither closes nor overflows
\* the socket: nothing is posted.
handle_read(t, ch) ==
    /\ Activating(t, Fd[ch], READ)
    /\ channelMap[t][Fd[ch]] = ch
    /\ Return(t)
    /\ UNCHANGED <<channelMap, kernelVars, ready, events, crashed>>

\* handle_read got nothing: the channel is removed; its descriptor is not
\* closed.
handle_connection_closed(t, ch) ==
    /\ Activating(t, Fd[ch], READ)
    /\ channelMap[t][Fd[ch]] = ch
    /\ Call(t, t, REMOVE, ch)
    /\ UNCHANGED <<channelMap, kernelVars, ready, events, crashed>>

\* The cast of channel->data to event_loop when data is a tcp_connection:
\* pthread_mutex_lock never returns from the bytes it takes for a mutex, or
\* the process is gone (an assert, a bad pointer), or the call returns
\* having changed no loop.
UndefinedCall(t) ==
    /\ Consumed(t)
    /\ UNCHANGED <<after, request, mutex, is_handle_pending, pending, channelElement>>
    /\ \/ Goto(t, "undefined")
       \/ pc' = [thread \in Threads |-> "undefined"]
       \/ Goto(t, NextFlag(t))

\* channel::write_event_enable, called from send_data when the socket took
\* only a part of the data and the channel is not write-enabled yet.
write_event_enable(t, ch) ==
    /\ Activating(t, Fd[ch], READ)
    /\ channelMap[t][Fd[ch]] = ch
    /\ WRITE \notin events[ch]
    /\ events' = [events EXCEPT ![ch] = @ \cup {WRITE}]
    /\ \/ ch \in LoopData /\ Call(t, t, UPDATE, ch)
       \/ ch \notin LoopData /\ UndefinedCall(t)
    /\ UNCHANGED <<channelMap, kernelVars, ready, crashed>>

\* handle_write could not send everything: it is called again.
handle_write(t, ch) ==
    /\ Activating(t, Fd[ch], WRITE)
    /\ channelMap[t][Fd[ch]] = ch
    /\ Return(t)
    /\ UNCHANGED <<channelMap, kernelVars, ready, events, crashed>>

\* Mutant: the channel's events are changed, the loop is not told.
write_event_disable_silent(t, ch) ==
    /\ Activating(t, Fd[ch], WRITE)
    /\ channelMap[t][Fd[ch]] = ch
    /\ events' = [events EXCEPT ![ch] = @ \ {WRITE}]
    /\ Return(t)
    /\ UNCHANGED <<channelMap, kernelVars, ready, crashed>>

\* handle_write drained the output buffer.  It runs only on a channel whose
\* write interest reached epoll, so on one whose data is its loop.
write_event_disable(t, ch) ==
    /\ Activating(t, Fd[ch], WRITE)
    /\ channelMap[t][Fd[ch]] = ch
    /\ events' = [events EXCEPT ![ch] = @ \ {WRITE}]
    /\ Call(t, t, UPDATE, ch)
    /\ UNCHANGED <<channelMap, kernelVars, ready, crashed>>

-----------------------------------------------------------------------------
(* do_channel_event and wakeup.                                            *)

\* Mutant: the list is entered without the lock.
do_channel_event_unlocked(t) ==
    /\ pc[t] = "mutex"
    /\ Goto(t, "append")
    /\ crashed' = is_handle_pending[request[t].loop]
    /\ UNCHANGED <<after, request, loopVars, kernelVars, ready, event, events>>

\* lock and assert(is_handle_pending == 0)
do_channel_event(t) ==
    /\ pc[t] = "mutex"
    /\ mutex[request[t].loop] = NULL
    /\ mutex' = [mutex EXCEPT ![request[t].loop] = t]
    /\ Goto(t, "append")
    /\ crashed' = is_handle_pending[request[t].loop]
    /\ UNCHANGED <<after, request, is_handle_pending, pending, channelElement,
                   channelMap, kernelVars, ready, event, events>>

\* Mutant: the owner of another loop is not woken.
channel_buffer_silent(t) ==
    LET r == request[t] IN
    /\ pc[t] = "append"
    /\ pending' = [pending EXCEPT ![r.loop] =
                      Append(@, [type |-> r.type, channel |-> r.channel])]
    /\ mutex' = [mutex EXCEPT ![r.loop] = NULL]
    /\ request' = [request EXCEPT ![t] = NULL]
    /\ Goto(t, IF r.loop = t THEN "handle" ELSE after[t])
    /\ UNCHANGED <<after, is_handle_pending, channelElement, channelMap,
                   kernelVars, ready, event, events, crashed>>

\* Mutant: the request is linked in at pending_head.
channel_buffer_at_head(t) ==
    LET r == request[t] IN
    /\ pc[t] = "append"
    /\ pending' = [pending EXCEPT ![r.loop] =
                      <<[type |-> r.type, channel |-> r.channel]>> \o @]
    /\ mutex' = [mutex EXCEPT ![r.loop] = NULL]
    /\ IF r.loop = t
         THEN Goto(t, "handle") /\ request' = [request EXCEPT ![t] = NULL]
         ELSE Goto(t, "wakeup") /\ UNCHANGED request
    /\ UNCHANGED <<after, is_handle_pending, channelElement, channelMap,
                   kernelVars, ready, event, events, crashed>>

\* channel_buffer_nolock, unlock, and the choice between waking the owner
\* and handling the list at once.
channel_buffer_nolock(t) ==
    LET r == request[t] IN
    /\ pc[t] = "append"
    /\ pending' = [pending EXCEPT ![r.loop] =
                      Append(@, [type |-> r.type, channel |-> r.channel])]
    /\ mutex' = [mutex EXCEPT ![r.loop] = NULL]
    /\ IF r.loop = t
         THEN Goto(t, "handle") /\ request' = [request EXCEPT ![t] = NULL]
         ELSE Goto(t, "wakeup") /\ UNCHANGED request
    /\ UNCHANGED <<after, is_handle_pending, channelElement, channelMap,
                   kernelVars, ready, event, events, crashed>>

\* write() on the socket pair blocks while it is full.
wakeup(t) ==
    /\ pc[t] = "wakeup"
    /\ socketPair[request[t].loop] < SocketBuf
    /\ socketPair' = [socketPair EXCEPT ![request[t].loop] = @ + 1]
    /\ request' = [request EXCEPT ![t] = NULL]
    /\ Goto(t, after[t])
    /\ UNCHANGED <<after, loopVars, epoll, holder, ready, event, events, crashed>>

-----------------------------------------------------------------------------
(* handle_pending_channel, with the lock of the loop held from its first   *)
(* step to its last.                                                       *)

\* Mutant: the walk does not wait for the lock.
handle_pending_unlocked(t) ==
    /\ pc[t] = "handle"
    /\ is_handle_pending' = [is_handle_pending EXCEPT ![t] = TRUE]
    /\ channelElement' = [channelElement EXCEPT ![t] = 1]
    /\ Goto(t, "walk")
    /\ UNCHANGED <<after, request, mutex, pending, channelMap, kernelVars, ready,
                   event, events, crashed>>

handle_pending_channel(t) ==
    /\ pc[t] = "handle"
    /\ mutex[t] = NULL
    /\ mutex' = [mutex EXCEPT ![t] = t]
    /\ is_handle_pending' = [is_handle_pending EXCEPT ![t] = TRUE]
    /\ channelElement' = [channelElement EXCEPT ![t] = 1]
    /\ Goto(t, "walk")
    /\ UNCHANGED <<after, request, pending, channelMap, kernelVars, ready,
                   event, events, crashed>>

Walking(t) == pc[t] = "walk" /\ channelElement[t] <= Len(pending[t])
Current(t) == pending[t][channelElement[t]]

Walk(t) ==
    /\ channelElement' = [channelElement EXCEPT ![t] = @ + 1]
    /\ UNCHANGED <<pc, after, request, mutex, is_handle_pending, pending,
                   socketPair, ready, event, events, holder>>

\* epoll_ctl fails on a descriptor that is not open, when it adds one that
\* is there and when it modifies or deletes one that is not.
EpollAddFails(t, fd) == holder[fd] = NULL \/ epoll[t][fd] # {}
EpollCtlFails(t, fd) == holder[fd] = NULL \/ epoll[t][fd] = {}

\* Only an unknown descriptor is added; a failing epoll_ctl is fatal.
handle_pending_add(t) ==
    LET ch == Current(t).channel
        fd == Fd[ch]
    IN
    /\ Walking(t)
    /\ Current(t).type = ADD
    /\ IF fd = NoFd \/ channelMap[t][fd] # NULL
         THEN UNCHANGED <<channelMap, epoll, crashed>>
         ELSE /\ channelMap' = [channelMap EXCEPT ![t][fd] = ch]
              /\ crashed' = EpollAddFails(t, fd)
              /\ epoll' = [epoll EXCEPT ![t][fd] = events[ch]]
    /\ Walk(t)

\* Mutant: the entry is erased but the dispatcher is not told.
handle_pending_forget(t) ==
    LET fd == Fd[Current(t).channel] IN
    /\ Walking(t)
    /\ Current(t).type = REMOVE
    /\ channelMap' = IF fd = NoFd THEN channelMap ELSE [channelMap EXCEPT ![t][fd] = NULL]
    /\ UNCHANGED <<epoll, crashed>>
    /\ Walk(t)

handle_pending_remove(t) ==
    LET fd == Fd[Current(t).channel] IN
    /\ Walking(t)
    /\ Current(t).type = REMOVE
    /\ IF fd = NoFd \/ channelMap[t][fd] = NULL
         THEN UNCHANGED <<channelMap, epoll, crashed>>
         ELSE /\ channelMap' = [channelMap EXCEPT ![t][fd] = NULL]
              /\ crashed' = EpollCtlFails(t, fd)
              /\ epoll' = [epoll EXCEPT ![t][fd] = {}]
    /\ Walk(t)

handle_pending_update(t) ==
    LET ch == Current(t).channel
        fd == Fd[ch]
    IN
    /\ Walking(t)
    /\ Current(t).type = UPDATE
    /\ IF fd = NoFd \/ channelMap[t][fd] = NULL
         THEN UNCHANGED <<channelMap, epoll, crashed>>
         ELSE /\ crashed' = EpollCtlFails(t, fd)
              /\ epoll' = [epoll EXCEPT ![t][fd] = events[ch]]
              /\ UNCHANGED channelMap
    /\ Walk(t)

\* The list is emptied, the flag cleared and the lock released.
handle_pending_done(t) ==
    /\ pc[t] = "walk"
    /\ channelElement[t] > Len(pending[t])
    /\ pending' = [pending EXCEPT ![t] = <<>>]
    /\ is_handle_pending' = [is_handle_pending EXCEPT ![t] = FALSE]
    /\ channelElement' = [channelElement EXCEPT ![t] = 1]
    /\ mutex' = [mutex EXCEPT ![t] = NULL]
    /\ Goto(t, after[t])
    /\ UNCHANGED <<after, request, channelMap, kernelVars, ready, event,
                   events, crashed>>

-----------------------------------------------------------------------------
Callback(t) ==
    \/ activate_unknown(t)
    \/ handleWakeup(t)
    \/ \E ch \in Channels, l \in IoLoops : handle_connection_established(t, ch, l)
    \/ \E ch \in Channels :
          \/ handle_read(t, ch)
          \/ handle_connection_closed(t, ch)
          \/ write_event_enable(t, ch)
          \/ handle_write(t, ch)
          \/ write_event_disable(t, ch)

HandlePending(t) ==
    \/ handle_pending_channel(t)
    \/ handle_pending_add(t)
    \/ handle_pending_remove(t)
    \/ handle_pending_update(t)
    \/ handle_pending_done(t)

\* A step of the thread t that does not wait for a descriptor.
Run(t) ==
    \/ next_event(t) \/ end_of_batch(t) \/ close_on_error(t)
    \/ Callback(t)
    \/ do_channel_event(t) \/ channel_buffer_nolock(t) \/ wakeup(t)
    \/ HandlePending(t)

Next == ~ crashed /\ \E t \in Threads : epoll_wait(t) \/ Run(t)

\* A thread that can run runs, and gets a mutex that is free again and again;
\* epoll_wait returns when the socket pair is readable.  Nothing is assumed of
\* the clients.
Lock(t) == do_channel_event(t) \/ handle_pending_channel(t)
Fairness ==
    \A t \in Threads :
        /\ WF_vars(~ crashed /\ Run(t))
        /\ SF_vars(~ crashed /\ Lock(t))
        /\ WF_vars(~ crashed /\ socketPair[t] > 0 /\ epoll_wait(t))

SafeSpec == Init /\ [][Next]_vars
Spec == SafeSpec /\ Fairness

-----------------------------------------------------------------------------
(* Properties.                                                             *)

\* In the calls on a real event loop no assert fails and no epoll_ctl is
\* refused, whatever the order in which requests, peer resets and reused
\* descriptors meet (event_loop.cpp:63, event_dispatcher.cpp:22, 46, 70).
NoCrash == ~ crashed

\* A thread never sleeps in epoll_wait on requests nobody will wake it for:
\* there is a byte in its socket pair or the poster is about to write one
\* (event_loop.cpp:60-71 against 231-248).
WakerOf(l) == \E t \in Threads : pc[t] = "wakeup" /\ request[t].loop = l
NoLostWakeup ==
    \A l \in Threads :
        pc[l] = "epoll_wait" /\ pending[l] # <<>> => socketPair[l] > 0 \/ WakerOf(l)

\* Nobody appends to the list while its owner walks it, so no request falls
\* between the walk and pending_head = NULL (event_loop.cpp:15-37).
WalkIsStable ==
    [][\A l \in Threads :
          is_handle_pending[l] /\ is_handle_pending'[l] => pending'[l] = pending[l]]_vars

\* A connection is confined to one loop: no descriptor is watched by two
\* (tcp_server.cpp:146-154), even when its number is reused after a close.
Confinement ==
    \A l1, l2 \in Threads : \A fd \in Fds :
        epoll[l1][fd] # {} /\ epoll[l2][fd] # {} => l1 = l2

\* The channel map entry of a descriptor that is watched, or of which an
\* event was reported and not dispatched yet, is the connection that now
\* holds it: an event never reaches the callbacks of a dead connection, and
\* an earlier callback of the batch does not take the channel of a later one
\* away (event_loop.cpp:156-166, event_dispatcher.cpp:83-99).
WatchedIsCurrent ==
    \A l \in Threads, fd \in Fds :
        epoll[l][fd] # {} \/ (\E e \in ready[l] : e.fd = fd)
            => channelMap[l][fd] # NULL /\ channelMap[l][fd] = holder[fd]

\* Whatever a channel's data is, the kernel watches a connection for reading,
\* and for writing only if the connection that now holds the descriptor asks
\* for it, except while the owner is on its way to handle the update or the
\* undefined cast has stopped it: a loop does not spin on a socket that
\* nothing is to be written to, and does not watch a reused descriptor for
\* what its last connection asked for (channel.cpp:7-21,
\* event_loop.cpp:98-104).
Updating(t) == pc[t] \in {"mutex", "append", "handle", "walk", "undefined"}
InterestIsAsked ==
    \A l \in Threads, fd \in Fds :
        epoll[l][fd] # {} =>
            /\ READ \in epoll[l][fd]
            /\ holder[fd] # NULL
            /\ Updating(l) \/ epoll[l][fd] \subseteq events[holder[fd]]

\* tcp_connection.cpp:89, "add event read for the new connection": an add of
\* an open connection puts it in the map.
AddIsEffective ==
    [][\A t \in Threads :
          LET ch == Current(t).channel IN
          handle_pending_add(t) /\ Fd[ch] # NoFd => channelMap'[t][Fd[ch]] = ch]_vars

\* The loop implements the registry: the mailbox is what is left to walk of
\* the pending list, so no request is lost, handled twice or overtaken.
Unhandled(l) == SubSeq(pending[l], channelElement[l], Len(pending[l]))
Registry == INSTANCE ChannelRegistry WITH
    Loops <- Threads,
    mail <- [l \in Threads |-> Unhandled(l)],
    entry <- channelMap
ImplementsRegistry == Registry!Spec

\* Every request that is posted is handled: the list of a loop is emptied
\* again and again, though the owner may be asleep when it is filled, unless
\* the undefined cast of channel.cpp:9 stops the owner for good.
PendingIsHandled ==
    \A l \in Threads : pending[l] # <<>> ~> pending[l] = <<>> \/ pc[l] = "undefined"

\* An accepted connection is watched some time by the loop it was given to,
\* though the loop's owner may sleep or be busy with others when it is posted
\* and the poster may have to wait for the lock and for room in the socket
\* pair (tcp_connection.cpp:97, event_loop.cpp:60-104).  It is not if the
\* entry of an earlier connection is in its place (AddIsEffective), or if the
\* undefined cast has stopped the loop's owner.
Given(ch, l) ==
    \E t \in Threads :
        /\ pc[t] = "mutex"
        /\ request[t] = [loop |-> l, type |-> ADD, channel |-> ch]
AcceptedIsWatched ==
    \A ch \in {c \in Channels : Fd[c] # NoFd}, l \in Threads :
        Given(ch, l) ~>
            \/ channelMap[l][Fd[ch]] = ch /\ READ \in epoll[l][Fd[ch]]
            \/ channelMap[l][Fd[ch]] \notin {NULL, ch}
            \/ pc[l] = "undefined"
=============================================================================
