# Yolanda in TLA+

Yolanda is a small reactor network library. The repository has it twice: in C
(`src/lib`) and as a C++ port (`src/yolandapp`). Around it are the programs of a
network programming course (`src/chap-*`), from single socket calls to servers
with pools of threads. This directory holds TLA+ specifications of the parts
with state and concurrency, the TLC configurations that check them on small
instances, and TLAPS proofs of what matters most for instances of every size.

Run anything with `tlc -config <cfg> <MC module>` and `tlapm <module>` in this
directory. `PROJECT.json` lists the runs, for each definition the source lines it
was translated from, for each property a plausible bug that breaks it, the
hazards the properties are for, and the theorems.

## 1. The system

```
 main thread                          pool threads (0 .. n)
 +---------------------+  pending list  +---------------------+
 | event_loop          |  + wakeup byte | event_loop          |
 |  dispatcher (epoll, |--------------->|  dispatcher         |
 |  poll)              |                |  channel map        |
 |  channel map        |                +----------+----------+
 |  acceptor           |                           | read / write callbacks
 +----------+----------+                +----------v----------+
            | accept, get_loop          | tcp_connection      |
            +-------------------------> |  input/output buffer|
                                        |  http parser        |
                                        +---------------------+
```

| component | state | operations | made correct by |
|---|---|---|---|
| event loop (`event_loop`, `channel`) | pending list under a mutex, `is_handle_pending`, socket pair, channel map | `add/remove/update_channel_event`, `handle_pending_channel`, `wakeup`, `channel_event_activate`, `run` | no request lost, doubled or overtaken; no sleep on a non-empty list; a connection in one loop only; no event to a dead connection; no assertion and no fatal `epoll_ctl` |
| epoll dispatcher | the kernel's interest set, the batch of `epoll_wait` | add, del, update, dispatch, close on an error | interest set and channel map agree; a batch is not stale |
| poll dispatcher, channel map | a table of descriptors, an array of channels | add, del, dispatch, growing the map | one entry each; nothing lost by growth; every ready entry visited |
| thread pool, loop threads | the threads' loops, a mutex and condition variable each, the round robin's position | start, `get_loop`, run | no missed signal; no loop handed out before it exists; even sharing |
| tcp connection | channel, two buffers, the descriptor | `send_data`, `send_buffer`, `shutdown`, read, write, closed callbacks | bytes intact and in order; write event on exactly while bytes wait; nothing after the closed callback |
| buffer | an array and two indices | append, append_char, append_string, socket_read, read_char, find_CRLF, make_room | a queue of bytes |
| tcp server, acceptor | the listening socket | accept, hand over to a loop | the order of making the connection, adding the channel and setting its data |
| http server, request, response | parser state, headers, input buffer | onMessage, parse, reset, close decision | one answer per request in order; nothing consumed too much; closing as asked |
| blocking queue (`chap-26/thread02.c`) | a ring, a mutex, a condition variable | push, pop, workers | order; no worker idle while connections wait |
| echo servers of chapters 11, 21, 22, 23, 25, 26 | a table of connections, a buffer each or none, child processes, threads | accept, read, answer, close, wait for children | bytes come back once and in order; every line answered; every end noticed |
| heartbeat (`chap-12`) | probe counter, timeout, the server's sleep | probe, answer, give up | given up if and only if silent |
| readers (`lib/read.c`), `chap-16` | a read-ahead buffer, what is missing of a record | readn, readline, read_line, read_message | the records do not depend on how the stream arrives |
| datagrams (`chap-6`, `chap-14`) | the line that waits for its answer, the peer of a connected socket, one message array | send, receive, refuse | an answer is for the line it is shown for |

What interacts. The accepting thread calls into another thread's loop through
the pending list, the only state threads share, apart from two exceptions that
the models keep: fields of a connection that are set after its channel was handed
over, and the thread pool's start-up. Everything else of a connection runs in the
callbacks of its loop's thread. What is hard: the order of append, unlock, wakeup,
walk and reset; events that were reported before a callback changed the world;
descriptors whose numbers are reused; sockets that take a part; messages that
hold a part of a request or several; handshakes with condition variables; tables
that fill up.

## 2. The modules

### EventLoop and ChannelRegistry

`EventLoop.tla` is the reactor of all threads, after `yolandapp/event_loop.cpp`,
`event_dispatcher.cpp`, `channel.cpp` and the callbacks that call into them.
A loop is identified with the thread that owns it (`isInSameThread` is `r.loop =
t`). `pc` holds the point a thread is at: waiting, dispatching, in a callback, at
the lock, inside it, before the wakeup, in the walk. So every lock, append,
unlock, wakeup and applied request is a step that others may interleave with:

* `epoll_wait`, `next_event`, `end_of_batch`, `close_on_error`: dispatch. A batch is
  any set of events the kernel may report for what the loop watches. The socket
  pair is level triggered and in the batch exactly when it holds a byte. EPOLLERR
  and EPOLLHUP close the descriptor, which leaves the interest set but not the map.
* `handle_connection_established`, `handle_read`, `handle_connection_closed`,
  `write_event_enable`, `handle_write`, `write_event_disable`, `handleWakeup`,
  `activate_unknown`: what `channel_event_activate` may run. A callback makes at most
  one call into a loop, so it is one step up to that call.
* `do_channel_event`, `channel_buffer_nolock`, `wakeup`: the poster. `wakeup` blocks
  while the pair is full (`SocketBuf`).
* `handle_pending_channel`, `_add`, `_remove`, `_update`, `_done`: the owner's walk,
  with the lock held from first to last. A refused `epoll_ctl`, or the assertion of
  `event_loop.cpp:63`, sets `crashed`.

A connection's channel has a fixed descriptor `Fd[ch]`. Two channels may have the
same one, and the second exists only after the first's was closed. `NoFd` is the -1 of
a failed accept, which the code does not look at. `LoopData` are the channels whose
`data` field really is their event loop. In the code there are none: the `data` of a
connection's channel is the `tcp_connection` (`yolandapp/tcp_connection.cpp:90`,
`lib/tcp_connection.c:77`), the cast of `channel.cpp:9` and `:17` is undefined, and the
step may hang the thread, end the process or do nothing (`UndefinedCall`). The run of the
safety properties puts two channels in `LoopData` nevertheless, so that the UPDATE
requests, which otherwise nobody makes, meet the others; one is left out of it. The
runs of the liveness properties and of `AddIsEffective` have `LoopData = {}`.

`InterestIsAsked` is about all channels: what epoll watches is what the connection asks
for or less, with the reading always in it. The other direction, that what a connection
asks for is watched, is what the cast breaks (`tcp_connection_cast`). The property
leaves out an owner on its way to an update (`Updating`), and one that the cast has
stopped. `AcceptedIsWatched` and `PendingIsHandled` leave out an owner that the cast has
stopped, and nothing else of what the code does with its connections.

The C twin `lib/event_loop.c` is the same protocol without three checks of the port: a
REMOVE or UPDATE of a descriptor that is not in the map (`:119-125`, `:143`) and an event of one
(`:159-162`). The last one is in `TcpConnection`, under `Signed = FALSE`.

`ChannelRegistry.tla` is what the loops promise: a mailbox and a table for each loop,
requests applied once, in the order of posting. `ImplementsRegistry` maps the
mailbox to the part of the pending list not walked yet.

### ThreadPool

After `lib/thread_pool.c` and `lib/event_loop_thread.c`, each lock, test, wait, signal
and unlock of the start-up a step, with spurious wakeups; `thread_pool_get_loop` is
the round robin, and a NULL loop handed out ends in `crashed`.

### TcpConnection

One connection in its loop's thread, after `lib/tcp_connection.c`: `send_data`
(called from `message`; `tcp_connection_send_buffer` is the same call on the
contents of a buffer), `handle_read`, `handle_write`, `handle_connection_closed`, the channel's
write event, the socket's send buffer, and a peer that asks, reads, finishes or
resets. The application's bytes are numbered, so that the stream can be compared
with 1, 2, 3, ... A `write` after the connection's reset was reported, or after
its shutdown, raises SIGPIPE, which nobody ignores: `thread = "killed"`. Two
constants stand for differences between the C and the C++ code:

| constant | `src/lib` | `src/yolandapp` |
|---|---|---|
| `Signed` | FALSE: `nwrited` is a `size_t` (`tcp_connection.c:92`), and an event for a channel that an earlier callback of the batch removed follows a NULL (`event_loop.c:161-162`; `thread = "killed"`) | TRUE: `ssize_t`, and the event is dropped (`event_loop.cpp:153-156`) |
| `DataKinds` | FALSE: `channel->data` is the connection | FALSE too; TRUE is what the cast expects |

### Buffer and ByteQueue

`Buffer.tla` is `lib/buffer.c` with the array as a sequence: the three ways of making
room, the move byte by byte, the copy at the write index (past the end it is
lost), the read into two arrays. `ByteQueue.tla` is the queue it implements. The port's
`find_CRLF` (`yolandapp/buffer.hpp:45`) searches past the write index; this is the
mutant of `FindsReadable`.

### HttpServer

One HTTP connection: the main thread makes it, adds its channel and then sets
`tcpConnection->data`; the loop's thread reads messages and runs `parse_http_request`
one turn of its loop a step; `http_onMessage` answers one request and decides to
shut down. A request is the sequence of its lines, and of them the url (its number), the
version and the Connection header are kept. `Partial` says whether a message may
end inside a request, `ThreadNums` how many I/O threads there may be: with none the
main thread runs the loop after it has set `data`, with some another thread may
use `data` before. `http_onMessage` reads `data` where it is entered (`http_server.c:93`),
before the parse: `httpServer` is what it read.

Of the response only that it was sent is kept. `http_request_close_connection` is
modelled with what its comparisons do: `strncmp(...) == 0` for "close", and a NULL
string for an HTTP/1.0 request without a header. Its second test, `strncmp(...) == 1`,
is false for "Keep-Alive", which compares equal; other values of the header are
left out.

### PollDispatcher

`lib/poll_dispatcher.c` and `lib/channel_map.c`: the table with its free entries, the map
that doubles, and the walk, one entry a step, whose callbacks accept and
remove connections in the table it walks. The loop is either one with the listening
descriptor, or a pool thread's; each has the descriptor that wakes it (`WAKE`) in its table
and map. Other threads' connections enter a pool thread's table between two walks, and
in the middle of one: a callback that closes its connection posts the REMOVE and goes
through the pending list at once (`lib/event_loop.c:61-64`), with the adds that are before and
behind the REMOVE (`handling`).

### BlockQueue

The queue of `chap-26/thread02.c`. Critical sections are one step each; waiting and
returning from the wait are two. A worker serves a connection for as long as the
client likes, and `error(1, ...)` in any thread (`echo.c:26`) ends them all. `push` does not look whether the ring is full:
`overrun` records that it happened, and the properties are about runs in which it
has not.

The properties: a connection is popped in the order of the pushes and by one worker
(`InOrder`), no worker waits beside a connection that nobody was woken for
(`NoIdleWorker`), and every connection is taken by a worker, unless from some time on
all workers serve clients that stay, or the process ends, or the ring is overrun
(`ConnectionIsServed`).

### Sockets and the echo servers

`Sockets.tla` is what the servers of the course share: each client's connection
(in the backlog, accepted, closed), the bytes it has written, how many of them the
server has read, what the server has for it (`outbuf`) and what it has seen. A client
writes its letter or a line feed, one byte at a time; it shuts down its side, closes
or resets. A slow client reads late, and its socket takes `SendBuf` bytes. Messages are
divided as the reads and writes divide them. `spoiled` and `stale` are history: bytes of
the client were dropped by design of the server (a line longer than its array), and
what an earlier connection left in the array this one uses.

| module | program | what it keeps |
|---|---|---|
| `NonblockingServer` | `chap-22/nonblockingserver.c` | the three sets of `select`, buffers that belong to descriptors and outlive connections, the write that continues where it stopped, the comparison `fd > FD_INIT_SIZE` that is off by one |
| `PollServer` | `chap-21/pollserver.c` | the table of entries, the walk that ends when the reported ones are used up, a blocking `accept` and a blocking `write` |
| `EpollServer` | `chap-23/epoll01.c` | edges, each reported once; the loop that uses `n` and `i` a second time and forgets the batch; one accept for each edge |
| `LineEcho`, `ForkServer`, `ThreadServer` | `chap-25/fork01.c`, `chap-26/thread01.c` | the loop over the bytes of a line, run by children with SIGCHLD and `waitpid`, or by detached threads; an error in one ends them all |
| `GraceServer` | `chap-11/graceserver.c`, `graceclient.c` | one connection, a sleep before each answer, SIGPIPE |

### Heartbeat, Readers, Datagrams, ConnectedDatagrams

`Heartbeat.tla` counts seconds in ticks that pass when neither side can go on. What
happens in one second happens in any order, so a late answer may meet its timeout.
`tv` is what Linux's `select` leaves of the timeout; what is typed at the client is never
read, so `select` returns at once and the timeouts are not seen any more. A ping may
arrive in two pieces, divided at one place. The server reads up to the size of a message: one
piece, both, or a second piece with the beginning of the next ping, whose rest is then
the second piece (`read_joined`).

`Readers.tla` runs one reading function over one stream, which arrives in any pieces, up
to its end or to an error. `ahead` records that `readline` read behind its line: its
counter is local, its pointer static, and what was read ahead is lost.

`Datagrams.tla` is the stop-and-wait of chapter 6 over a network that loses, delays and
copies. `ConnectedDatagrams.tla` is chapter 14: the socket connected to its first client,
datagrams of others that were in it already, refusals, and the array `message` byte by
byte, each byte by the line it is of, since `recv` puts no 0 behind what it writes.

### CoursePrograms

One module runs any of these programs, chosen by `program`, each by its own module
through `INSTANCE`, and the blocking queue with them. The properties that are the same
for all servers (`RepliesInOrder`, `LineIsAnswered`, `EndIsHandled`) are stated once over
the clients of `Sockets`. Each server's `Excused` and `Forgotten` name what the code does
give up: a client that resets, a process that has ended, an edge that was lost, a
line that chapter 22 drops when the end is read before the answer is written. Each of these
is a state that the models reach, and where it is a weakness of the code it is among
the hazards of `PROJECT.json`.

## 3. The runs

| run | instance | shows |
|---|---|---|
| `event_loop` | 3 threads, 3 connections on 2 descriptors: `c3` reuses `c1`'s; `c2` has the `data` of the code, `c1` and `c3` an event loop; socket pairs of one byte | no assertion fails, no wakeup is lost, a descriptor is in one loop, map, batch and interest set agree with the connection that holds the descriptor, the list is stable under the walk, and the registry is implemented |
| `event_loop_liveness` | 2 threads, 4 connections on 2 descriptors: `c3` reuses `c1`'s, `c4`'s accept failed; `LoopData` is empty, as in the code | posted requests are handled, and an accepted connection is watched, unless the cast has stopped the owner or a closed connection's entry is in the way |
| `event_loop_reuse` | 2 threads, 2 connections, one descriptor, `LoopData` empty | violates `AddIsEffective` |
| `thread_pool` | 0 to 4 threads, 4 connections a loop, spurious wakeups | the start-up misses no signal and ends; the round robin is even and safe |
| `tcp_connection` | socket of 2 bytes, replies of up to 3, 6 in all; both kinds of `data` | bytes intact, write event exact, callbacks in order, end noticed |
| `tcp_connection_size_t` | the same with `Signed = FALSE` | violates `StreamIntact` |
| `tcp_connection_cast` | the same with `DataKinds = {FALSE}` | violates `BufferedIsSent` |
| `buffer` | array of 2 growing to 5, chunks of up to 3, CR, LF and one other byte | a queue of bytes; lines found are received lines; growth only when needed |
| `http` | 3 requests of 6 kinds, clients that wait or pipeline, with and without I/O threads | answers in order, nothing consumed too much, closing as asked, waiting clients answered |
| `http_partial` | 1 request in pieces | violates `PartialIsHandled` |
| `poll_dispatcher` | table of 4, map of 2 growing to 8, 4 connections besides the wakeup and the listening descriptor | map and table agree, every ready connection is read |
| `course_programs` | eleven programs one by one: 3 clients that write 2, 1 and no bytes (3, 1 and none to the servers of lines), one of them slow; a ring of 3 slots, 3 workers, 5 connections, 2 spurious wakeups; streams of up to 4 bytes and records of up to 3; probes after 10 and 3 seconds, 3 of them, answers after 0, 4, 8 or 9; datagrams of 0, 1 and 2 bytes, one lost and one copied | section 2: the bytes come back, lines are answered, ends are noticed, the queue keeps its order and wakes enough workers, a server is given up if and only if it is silent, records are whole |

Why the bounds are enough. The event loop's protocol is between pairs of threads and
about one descriptor at a time. Two threads give every interleaving of a poster
with an owner, a third adds a second owner for a reused descriptor and a second
place for a connection to be. The connections cover a reuse and a neighbour, and a failed accept
in the run of liveness. There the owner of two open connections may loop for ever beside a
poster that waits for its lock. A socket of two bytes with replies of three has a reply that fits, one
that fits in part and one that does not fit at all, and a second reply behind the
rest of a first. A buffer of two with chunks of three needs each way of making
room. Three requests make the parser start in the middle of a buffer twice. The
table of four is full with two connections beside the two descriptors of the loop, or with three, and the
map grows at slots 2 and 4. The ring of three slots holds two connections, is overrun
by the third that finds no worker, and wraps within five. The tables of
the servers have room for two clients, so a third meets the full table, and a descriptor
is used again after a close. A line array for `LINE_SIZE` 1 and the line feed is full at the third byte. `SendBuf` and `PieceSize` 1 divide every answer. The slow answers of 8 and 9
seconds fall on both sides of, and on, the third probe's timeout. Streams of four bytes with
records of three end, at each place, inside, at and behind a record; a datagram of two
bytes overruns the array with its greeting, one of one byte just does not. Where a theorem covers a
property (section 6), it holds without the bounds.

`CHECK_DEADLOCK FALSE` is set in every run: a server that waits for clients who are
done, or a process that has ended, is a legal stop. That nothing stops wrongly is
said by the liveness properties instead.

## 4. Fairness

* EventLoop: a thread that can take a step takes one (`WF` of `Run(t)`), and `epoll_wait`
  returns when the socket pair is readable. `SF` of `Lock(t)`: a loop whose connections
  always have something to read takes and releases its mutex for ever after each batch, and with
  `WF` alone a poster would never get it; with a mutex that serves waiting threads some time
  this does not happen. Nothing is assumed of clients: a batch may hold the wakeup alone.
* ThreadPool: threads run. `SF` of `ThreadLock` is there because spurious wakeups may take
  and release the mutex for ever in front of a new thread; with a scheduler
  that serves waiting threads this does not happen.
* TcpConnection: the loop runs, a peer that has neither reset nor vanished receives.
* HttpServer: both threads run. Clients need not send.
* PollDispatcher: the loop runs.
* CoursePrograms: the process, thread, child or worker that can go on does, each with
  its own `WF`; a slow client reads at last; a datagram that is not lost arrives or is
  refused. Nothing is assumed of clients that write, reset, lose or interrupt. Of the
  workers of the queue only `block_queue_pop` is fair: `loop_echo` returns when the client ends
  the connection, which nothing makes it do.

Safety runs and theorems use `SafeSpec`, without fairness, where a module has both.

## 5. What the violations show

* `event_loop_reuse`: `event_dispatcher.cpp:86` closes a descriptor on an error and leaves
  its channel map entry. When the kernel hands out the number again and the
  connection goes to the same loop, `handle_pending_add` finds the entry and does
  nothing. The new connection is never watched.
* `tcp_connection_size_t`: `lib/tcp_connection.c:102` tests an unsigned `nwrited >= 0`. A write
  that would block is taken for one that wrote SIZE_MAX bytes. The byte before the data
  goes out as well.
* `tcp_connection_cast`: `lib/channel.c:21` (`yolandapp/channel.cpp:17`) casts `channel->data`, which is the
  connection, to an event loop. The write event is not registered, and what is left
  in the output buffer stays there.
* `http_partial`: `lib/http_server.c:43` loops until a request is complete and reads
  nothing meanwhile. A request in two messages never returns.

The passing runs are stated around these. `event_loop_liveness` has no channel in `LoopData`, and
its properties leave out an owner that the undefined cast has stopped (`pc = "undefined"`);
`AcceptedIsWatched` also leaves out what `AddIsEffective` is violated by. `NoCrash` is about the
calls on a real event loop: an assertion that fails inside the undefined cast is the outcome
"undefined", not "crashed". `tcp_connection` has `Signed = TRUE`, `http` has whole requests
in its messages. `StreamIntact` and `WriteEventIffBuffered` hold even
for the undefined outcomes of the cast, as far as the process is still there.

## 6. What is proved

The proof modules extend the module they are about. Each theorem is of the whole
specification and for all constants that satisfy the module's assumptions
(`ThreadsAssumption`, `FdAssumption`, ... in the modules: types, and that the special
values differ). TLC evaluates them in every run.

* `EventLoopProofs`, for any set of threads, connections and descriptors, in three parts.
  * `TypeCorrect`, `WakeupNotLost`, `StableWalk`, `HandlePendingAssert`. `NoLostWakeup` alone
    is not inductive: that a byte is drained only by a thread that then walks its list, and
    that a walk sees everything appended before it, needs to know who holds the lock.
    `IInv` is the type invariant (with what `request` and `event` may be at each point of
    the program), `LockInv` (inside a critical section the thread has the mutex;
    `is_handle_pending` only while the owner walks), `AfterOK` (a call returns into
    the dispatching of a batch, which ends in a walk), `PositionOK` (the walk's
    position) and `NoLostWakeup`. `HandlePendingAssert` is the assertion part of `NoCrash`.
  * `RegistryImplemented`. Under `IInv` an append is a `Post`, an applied request an
    `Apply`, and all other steps, the reset of a walked list among them, leave the
    mailbox and the table as they are.
  * `NothingCrashes`, `Confined`, `WatchedCurrent`, `InterestAsked`: what the loops know of a
    connection. The requests carry it (`ConnInv`). An ADD that is not handled yet is the
    only one for its connection, whose descriptor nobody watches, so that nobody can
    close it (`AddOnce`, `RequestFits`). An UPDATE or REMOVE is made by the owner for a
    channel that it watches (`Attached`) and is handled before the owner dispatches the
    next event, so it is the only one in its list; no `epoll_ctl` it leads to is refused.
    What is left of a batch is about other descriptors, which are watched too (`ReadyOK`).
    `InterestInv` on top says, for channels in `LoopData` or not, that a descriptor is watched
    for no more than its channel asks for and always for reading, or the channel's UPDATE is on
    its way in that thread.
* `ThreadPoolProofs`: `TypeCorrect`, `LoopRuns`, `NoMissedSignal` and `RoundRobin` for pools of any size. `IInv` adds where the main
  thread and each pool thread may be together (`MainInv`, `ThreadInv`): below `i` threads have
  started, above it none exists, and a waiting main thread has its signal ahead.
* `TcpConnectionProofs`: `TypeCorrect`, `BytesInOrder`, `WriteEventRight` under the hypothesis `Signed`, for sockets and
  replies of any size. With FALSE they do not hold, as the run shows. The three
  properties are inductive together: a direct write needs an empty buffer, which
  `WriteEventIffBuffered` ties to the write event. `ClosedIsLast` (`NothingAfterClose`) needs no
  hypothesis; its invariant `CloseInv` says that a connection whose closed callback has
  run is out of the channel map and has no read event left in the batch.
* `BufferProofs`: `TypeCorrect`, `QueueImplemented`, `LineFound`, `GrowthNeeded` for arrays and chunks of
  any size. The invariant `Valid` says that the indices are ordered, inside the array, and
  that every byte between them was written. The lemmas say what moving, enlarging and
  copying do to the readable bytes. `LineFound` follows from `Valid` alone, as the search
  goes over the readable bytes; `GrowthNeeded` is about the step.
* `HttpServerProofs`: `TypeCorrect`, `Ordered`, `Buffered`, `ClosesRight`, for any number of requests and every
  way of cutting them into messages. The invariant `HttpInv` is about the stream: what is
  buffered followed by what is on the wire, which no read changes. At each state of the
  parser it is the part of the current request that was not consumed, followed by the
  requests not reached (`StreamOK`); a turn takes one line with its CRLF from the front, and
  `http_onMessage` leaves exactly the requests without an answer. `PhaseOK` says
  where the parser may be while the main thread still makes the connection, waits in the loop
  or runs; `ShutOK` that the connection was shut down exactly if an answered request asked for it.
* `PollDispatcherProofs`: `TypeCorrect`, `SlotEach`, `AdditionsWatched`, for tables and maps of any size.
  `DispatcherInv` has the types and `TableOK` together: an entry of the table has its channel in the
  map, and no descriptor has two. A removal needs besides that the closed connection still has
  its entry at the place of the walk, whatever was added since (`RemovedHasEntry`). The map grows to a power of two times its first size that is
  above the descriptor: that there is a least one needs `PowerOfTwo` and `MinNatural`.
* `CourseProgramsProofs`: the steps of one program leave the others' variables alone, so each part
  has an invariant of its own.
  * The queue, for rings and crews of workers of any size: `QueueInOrder` and `QueueSignals`.
    `RingInv` says that, counted from the front, the entries up to the rear are the
    connections that are due. `IdleInv` is inductive together with the types, from
    facts on the cardinality of `Waiting` and `Awake`: a push that adds an entry also
    wakes one worker, if any waits.
  * The heartbeat, for all times and numbers of probes: `ServerKept` and `SilenceNoticed`.
    While the server is silent and the client waits, the seconds since the silence, those
    left of the timeout and those of the probes not sent yet add up to no more than
    `Patience` (`QuietInv`). While a round of probes goes unanswered by a server that is
    not silent, it is asleep, and fell asleep no earlier than the round began, or has
    its first ping still to read in the round's first instant (`RoundInv`). That the ping is
    read from its beginning, though pings may be joined, is because a server that is awake
    when the client's time is over has read everything (`AlignedInv`).
  * The readers, for buffers of any length and streams and messages of any kind: `RecordsWhole`
    (`RecordsIntact`). While a call may still come, the records, what the call under way
    has put into its buffer and what is still to be read make up the stream again
    (`LineInv`; each end of a line counts as one line feed for `read_line`, which is
    sure not to have parted a CR from its LF). For `read_message`, what the call
    has and what is still to be read are the rest of the present message, from its length,
    its type or its text on, and all messages behind it (`MessageInv`). The assumptions are
    that a buffer holds a byte and the 0 behind it (`LimitAssumption`) and that no text is
    empty (`TextsAssumption`): `streamclient.c:32-33` sends what `fgets` returned, up to
    its first 0, and a line of text has at least its line feed. `read_message` takes a
    length of 0 for the end of the stream.
  * The servers and the datagram programs, for any number of clients and any sizes of the
    tables and buffers: `EchoedInOrder` (`RepliesInOrder`) and `CourseTypes` (`TypeOK`), both from
    `CourseInv`. It consists of the types of the sockets (`SocketsType`), what all servers have in
    common (`EchoInv`), and one part for each program.
    * `InStep` is the heart of it. A client's reply is a prefix of what the server makes of the bytes it
      has read, behind what was stale; and unless the client has reset, the reply followed by what is
      held for it is all of that. A read adds to the second part what it adds to the bytes read
      (`InStepRead`), a write moves bytes from what is held to the reply (`InStepSend`), and a client
      that writes more changes neither (`InStepWrite`). `ReadStep`, `SendStep` and `DropStep` are these
      facts for the servers that keep `outbuf`; each of those servers then only has to show that its
      action is one of the three. That `GraceServer` holds something for its one connection only
      (`GraceInv`), that `EpollServer` holds nothing (`EpollInv`), and that a worker's line fits its array
      (`WorkerInv`) is what they need besides.
    * `NonblockingServer` keeps bytes by descriptor. `HolderInv` says that a descriptor in the table
      has at most one client, whose connection is open, and that each entry `select` reported still has
      one. `PendingInv` ties `InStep` to the buffer of the descriptor that the client holds; what is
      pending in a used buffer when a connection is accepted into it is `stale` for the new client.
    * Chapter 6 (`DatagramInv`): a client whose datagrams were not copied has one under way at most, of
      its last line, and waits for it. Chapter 14 (`ConnectedInv`): as long as the server heard one
      client, a client's datagram is in one place, on its way, in the socket, in the array or
      in an answer (`OnePlace`); and the array holds that client's bytes, of lines before the
      last one while the last one is still on its way (`OwnText`), so that what a shorter line leaves
      behind itself is of earlier lines.
    * `CourseTypes` bounds what has a bound in the code: the indices of tables and rings, chapter
      22's read index by its array, a line of `fork01.c` and `thread01.c` by its array, the lines
      of `read.c` by the caller's. It does not say that no array is overrun. `damaged` and
      `spoiled` are states of the models (`udpserver.c`, `graceserver.c:56`), `graceserver.c`'s
      answer has no bound, a descriptor equal to `FD_INIT_SIZE` is behind chapter 22's table,
      and the 0 that `readline_2` may put behind its buffer is not modelled.
    * For `TypeOK` the readers add `ReaderSizes`: what a call has put into the caller's buffer fits it,
      and for `readline_2` and `read_line` is shorter by the byte that the next step adds.
      `ProgramsAssumption` says that there is no program besides the eleven.
* `LibraryLemmas`: what the library's theorem modules lack. Their induction theorems take an operator
  as parameter; `Induction` here is about a set of natural numbers instead, and comes from
  `LeastNatural`, the least element of a set, which the well-foundedness of finite sets under
  inclusion gives. With it `PowerOfTwo` and the facts on `FlattenSeq` (which is a recursive
  function) are proved for all inputs. `PrefixGrows` and what follows are about parts of
  sequences and about a sequence without one of its elements.

The type invariants of EventLoop, ThreadPool, TcpConnection and Buffer are proved and not part of a run. Every safety property that a passing run checks is proved. Only
liveness (`PendingIsHandled`,
`AcceptedIsWatched`, `ComesUp`, `InboundIsRead`, `EndIsNoticed`, `WaitingClientIsAnswered`, `ReadyIsRead`,
`ConnectionIsServed`, `LineIsAnswered`, `EndIsHandled`) stays with
TLC: the prover has no reasoning about ENABLED and fairness.

## 7. Not modelled, and the plan

Left out, with the reason:

* Malformed HTTP requests (a status line without spaces fails an assertion), the table
  of headers other than Connection, the text of responses. Two oddities seen on the
  way and not stated as properties: `http_server.c:21`, `:29`, `:35` put a terminator one
  byte past the copy's end, and `http_response.c:31` writes "Connection: close" for a
  response whose connection the server may keep.
* A failing `realloc` (`buffer.c:50`): the copy that follows is undefined.
* Descriptors running out because a connection that its peer closed is never
  closed by the server: the models give each connection its descriptor.
* `clear` of the dispatchers and `map_clear`, which nothing calls; `poll_update`, which only
  the cast reaches.
* Logging, address formatting, the demonstrations of single socket calls, the
  applications' main functions, the telnet pair of `mid-homework`.
* `chap-20/select01.c`, a client; `chap-21/pollserver02.c`, which does not compile;
  `chap-23/epoll02.c` and `epoll03.c`, which never read what epoll reports;
  `chap-26/thread-helloworld.c`, two threads that add to a number without a lock.
* In `read.c:33`, `readline_2` puts a 0 one past its buffer, and so does
  `chap-16/streamserver.c` for a text of 128 bytes. In `udpconnectserver.c` bytes of an old
  message may complete the word "goodbye". The models leave these out.

Modules that could follow: the port's `find_CRLF` as a constant of Buffer, with HttpServer
on top of it; the telnet server, whose commands coalesce and whose working directory
outlives a session.
