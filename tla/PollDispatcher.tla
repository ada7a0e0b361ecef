--------------------------- MODULE PollDispatcher ---------------------------
(***************************************************************************)
(* The poll dispatcher of an event loop and the loop's channel map: the    *)
(* table of descriptors that poll(2) is given, the array that finds a      *)
(* descriptor's channel, and the walk over the ready entries, whose        *)
(* callbacks change both.  Translated from lib/poll_dispatcher.c,          *)
(* lib/channel_map.c and the C event loop that uses them.                  *)
(* A loop has the listening descriptor, whose callback accepts and adds    *)
(* connections during the walk, or is a pool thread's, to which another    *)
(* thread adds them (EventLoop.tla says how): between two walks, or in the *)
(* middle of one, when a callback closes its connection and the loop goes  *)
(* through the requests of all threads.  All channels are registered for   *)
(* reading: what enables writing goes through the cast that                *)
(* TcpConnection.tla is about.                                             *)
(***************************************************************************)
EXTENDS Integers, FiniteSets, FiniteSetsExt

CONSTANTS
    Fds,                \* the descriptors of connections
    LISTEN,             \* the listening descriptor
    WAKE,               \* socketPair[1], which wakes the loop
    INIT_POLL_SIZE,     \* 1024 entries
    InitEntries         \* the map's first size, 32

ASSUME FdsAssumption ==
    /\ Fds \subseteq Nat /\ IsFiniteSet(Fds)
    /\ LISTEN \in Nat \ Fds /\ WAKE \in Nat \ (Fds \cup {LISTEN})
ASSUME SizeAssumption == INIT_POLL_SIZE \in Nat \ {0} /\ InitEntries \in Nat \ {0}

VARIABLES
    listening,      \* this loop has the listening descriptor
    event_set,      \* the descriptor of each entry, -1 if it is free
    revents,        \* the entries poll(2) reported
    entries,        \* the channel map: which descriptors have a channel
    i,              \* the entry the walk is at, 0 outside a walk
    ready_number,   \* reported entries the walk has not come to
    handling,       \* the closed connection's REMOVE is in the pending list
                    \* the loop goes through, or was ("rest"), or "none"
    readable,       \* descriptors with something to read
    accepted        \* descriptors that were handed out; none is ever closed

table == <<event_set, entries>>
walk == <<i, ready_number, revents, handling>>
vars == <<listening, table, walk, readable, accepted>>

Slots == 1..INIT_POLL_SIZE
Free == -1
All == Fds \cup {LISTEN, WAKE}
Watched == {event_set[k] : k \in Slots} \ {Free}
nentries == Cardinality(DOMAIN entries)
Mapped == {fd \in DOMAIN entries : entries[fd]}

TypeOK ==
    /\ listening \in BOOLEAN
    /\ event_set \in [Slots -> All \cup {Free}]
    /\ revents \in SUBSET Slots
    /\ DOMAIN entries = 0..nentries - 1 /\ entries \in [DOMAIN entries -> BOOLEAN]
    /\ i \in 0..INIT_POLL_SIZE /\ ready_number \in 0..INIT_POLL_SIZE
    /\ i # 0 => ready_number > 0
    /\ handling \in {"none", "remove", "rest"}
    /\ readable \subseteq All /\ accepted \subseteq Fds

-----------------------------------------------------------------------------
(* The map and the table, as functions of what they were.                  *)

\* Mutant: the new memory is cleared from its beginning.
map_make_space_cleared(map, slot) ==
    LET size == Min({InitEntries * 2^k : k \in 0..slot + 1} \ (0..slot))
    IN  IF slot \in DOMAIN map THEN map ELSE [fd \in 0..size - 1 |-> FALSE]

\* Doubled until it has the slot; what was there is kept.
map_make_space(map, slot) ==
    LET size == Min({InitEntries * 2^k : k \in 0..slot + 1} \ (0..slot))
    IN  IF slot \in DOMAIN map THEN map
        ELSE [fd \in 0..size - 1 |-> fd \in DOMAIN map /\ map[fd]]

\* Mutant: every free entry is taken.
poll_add_all(set, fd) == [k \in Slots |-> IF set[k] < 0 THEN fd ELSE set[k]]

\* The first free entry; a full table is only logged.
poll_add(set, fd) ==
    [k \in Slots |-> IF set[k] < 0 /\ \A j \in 1..k - 1 : set[j] >= 0 THEN fd ELSE set[k]]

poll_del(set, fd) ==
    [k \in Slots |-> IF set[k] = fd /\ \A j \in 1..k - 1 : set[j] # fd THEN Free ELSE set[k]]

\* event_loop_init registers the descriptor that wakes the loop, and
\* tcp_server_start the one that listens.
Init ==
    /\ listening \in BOOLEAN
    /\ LET awake == poll_add([k \in Slots |-> Free], WAKE)
           map == [map_make_space([fd \in {} |-> FALSE], WAKE) EXCEPT ![WAKE] = TRUE]
       IN  IF listening
           THEN /\ event_set = poll_add(awake, LISTEN)
                /\ entries = [map_make_space(map, LISTEN) EXCEPT ![LISTEN] = TRUE]
           ELSE event_set = awake /\ entries = map
    /\ revents = {} /\ i = 0 /\ ready_number = 0 /\ handling = "none"
    /\ readable = {} /\ accepted = {}

handle_pending_add(fd) ==
    LET map == map_make_space(entries, fd)
    IN  /\ entries' = [map EXCEPT ![fd] = TRUE]
        /\ event_set' = IF map[fd] THEN event_set ELSE poll_add(event_set, fd)

handle_pending_remove(fd) ==
    /\ event_set' = poll_del(event_set, fd)
    /\ entries' = [entries EXCEPT ![fd] = FALSE]

-----------------------------------------------------------------------------
(* Peers, and the thread that accepts for a pool's loop and wakes it.      *)

Arrive(fd) ==
    /\ \/ fd = LISTEN /\ accepted # Fds
       \/ fd = WAKE /\ ~listening
       \/ fd \in accepted
    /\ readable' = readable \cup {fd}
    /\ UNCHANGED <<listening, table, walk, accepted>>

add_pending(fd) ==
    /\ ~listening /\ (i = 0 \/ handling # "none")
    /\ fd \notin accepted
    /\ accepted' = accepted \cup {fd}
    /\ handle_pending_add(fd)
    /\ UNCHANGED <<listening, walk, readable>>

-----------------------------------------------------------------------------
(* poll_dispatch: poll(2), then one step for each entry.                   *)

poll ==
    /\ i = 0
    /\ revents' = {k \in Slots : event_set[k] \in readable}
    /\ revents' # {}
    /\ ready_number' = Cardinality(revents')
    /\ i' = 1
    /\ UNCHANGED <<listening, table, handling, readable, accepted>>

after(k) == IF k = INIT_POLL_SIZE THEN 0 ELSE k + 1

skip ==
    /\ i # 0 /\ handling = "none"
    /\ event_set[i] = Free \/ i \notin revents
    /\ i' = after(i)
    /\ UNCHANGED <<listening, table, revents, ready_number, handling, readable, accepted>>

\* handle_connection_established; there may be more connections to accept,
\* up to the bound Fds.
accept_callback(fd) ==
    /\ fd = LISTEN
    /\ \E new \in Fds \ accepted :
          /\ accepted' = accepted \cup {new}
          /\ handle_pending_add(new)
    /\ \/ accepted' # Fds /\ UNCHANGED readable
       \/ readable' = readable \ {LISTEN}

\* A byte of one wakeup; there may be those of others.
handleWakeup(fd) ==
    /\ fd = WAKE
    /\ readable' \in {readable, readable \ {WAKE}}
    /\ UNCHANGED <<table, accepted>>

\* handle_read of a message.
read_callback(fd) ==
    /\ fd \in Fds
    /\ readable' = readable \ {fd}
    /\ UNCHANGED <<table, accepted>>

\* Mutants: the walk ends one entry early, or late.
last_early == ready_number <= 2
last_late == ready_number = 0

last == ready_number = 1

\* To the next entry, unless this was the last reported one.
walk_on ==
    /\ ready_number' = ready_number - 1
    /\ i' = IF last THEN 0 ELSE after(i)
    /\ handling' = "none"
    /\ UNCHANGED revents

reported == i # 0 /\ handling = "none" /\ event_set[i] # Free /\ i \in revents

activate ==
    /\ reported
    /\ \E fd \in {event_set[i]} : accept_callback(fd) \/ handleWakeup(fd) \/ read_callback(fd)
    /\ walk_on
    /\ UNCHANGED listening

\* handle_read of the end of the connection, which stays to be read: its
\* REMOVE joins the pending list, and the loop's own thread goes through
\* that list at once.
close_callback ==
    /\ reported
    /\ event_set[i] \in Fds
    /\ handling' = "remove"
    /\ UNCHANGED <<listening, table, i, ready_number, revents, readable, accepted>>

remove_pending ==
    /\ handling = "remove"
    /\ handle_pending_remove(event_set[i])
    /\ handling' = "rest"
    /\ UNCHANGED <<listening, i, ready_number, revents, readable, accepted>>

handled ==
    /\ handling = "rest"
    /\ walk_on
    /\ UNCHANGED <<listening, table, readable, accepted>>

dispatch == poll \/ skip \/ activate \/ close_callback \/ remove_pending \/ handled

Next ==
    \/ \E fd \in All : Arrive(fd)
    \/ \E fd \in Fds : add_pending(fd)
    \/ dispatch

\* The loop runs.
Spec == Init /\ [][Next]_vars /\ WF_vars(dispatch)

-----------------------------------------------------------------------------
\* No descriptor has two entries, and each has its channel: what the walk
\* activates is never NULL (event_loop.c:161-162).
OneSlotEach ==
    /\ \A j, k \in Slots : event_set[j] = event_set[k] /\ event_set[j] # Free => j = k
    /\ Watched \subseteq Mapped

\* A channel that enters the map is watched, unless the table is full, and
\* as long as it is in the map it stays watched: growing the map loses no
\* channel (channel_map.c:5-25, poll_dispatcher.c:58-110).
AddedIsWatched ==
    [][/\ Mapped' \ Mapped # {} /\ Free \in {event_set[k] : k \in Slots}
            => Mapped' \ Mapped \subseteq Watched'
       /\ Mapped \ Mapped' \subseteq Watched \ Watched'
       /\ Watched \cap Mapped' \subseteq Watched']_vars

\* A connection that has an entry is read when there is something to read,
\* or its end is seen: the count of reported entries ends no walk before
\* the last of them (poll_dispatcher.c:159-179).
ReadyIsRead ==
    \A fd \in Fds : fd \in readable \cap Watched ~> fd \notin readable \cap Watched
=============================================================================
