------------------------ MODULE PollDispatcherProofs ------------------------
(***************************************************************************)
(* Theorems about PollDispatcher, for a table and a map of any size: no    *)
(* descriptor has two entries, an entry has its channel, and a channel     *)
(* that is added is watched.                                               *)
(***************************************************************************)
EXTENDS PollDispatcher, LibraryLemmas

-----------------------------------------------------------------------------
(* The map and the table.                                                  *)

Doubled(slot) == {InitEntries * 2^k : k \in 0..slot + 1} \ (0..slot)

LEMMA DoubledEnough ==
    ASSUME SizeAssumption, NEW slot \in Nat
    PROVE  Min(Doubled(slot)) \in Nat /\ Min(Doubled(slot)) > slot
<1>1. \A k \in 0..slot + 1 : InitEntries * 2^k \in Nat
  BY PowerOfTwo DEF SizeAssumption
<1>2. InitEntries * 2^(slot + 1) \in Nat /\ InitEntries * 2^(slot + 1) > slot
  <2>1. 2^(slot + 1) \in Nat /\ slot + 1 < 2^(slot + 1)
    BY PowerOfTwo
  <2>2. \A m \in Nat, n \in Nat \ {0} : n * m \in Nat /\ n * m >= m
    OBVIOUS
  <2> QED BY <2>1, <2>2 DEF SizeAssumption
<1>3. Doubled(slot) \subseteq Nat /\ InitEntries * 2^(slot + 1) \in Doubled(slot)
  BY <1>1, <1>2 DEF Doubled
<1>4. Min(Doubled(slot)) \in Doubled(slot)
  BY <1>3, MinNatural
<1> QED BY <1>3, <1>4 DEF Doubled

\* The map that is made to hold a slot: it has what the old one had, and the
\* slot.
MapType(map) ==
    \E n \in Nat : DOMAIN map = 0..n - 1 /\ map \in [0..n - 1 -> BOOLEAN]
MappedIn(map) == {fd \in DOMAIN map : map[fd]}

LEMMA Grown ==
    ASSUME SizeAssumption, NEW map, MapType(map), NEW slot \in Nat
    PROVE  /\ MapType(map_make_space(map, slot))
           /\ slot \in DOMAIN map_make_space(map, slot)
           /\ MappedIn(map_make_space(map, slot)) = MappedIn(map)
<1> DEFINE new == map_make_space(map, slot)
<1>1. PICK n \in Nat : DOMAIN map = 0..n - 1 /\ map \in [0..n - 1 -> BOOLEAN]
  BY DEF MapType
<1>2. CASE slot \in DOMAIN map
  <2>1. new = map
    BY <1>2 DEF map_make_space
  <2> QED BY <1>2, <2>1
<1>3. CASE slot \notin DOMAIN map
  <2>1. PICK size \in Nat : size = Min(Doubled(slot)) /\ size > slot
    BY DoubledEnough
  <2>2. new = [fd \in 0..size - 1 |-> fd \in DOMAIN map /\ map[fd]]
    BY <1>3, <2>1 DEF map_make_space, Doubled
  <2>3. DOMAIN map \subseteq 0..size - 1 /\ slot \in 0..size - 1
    BY <1>1, <1>3, <2>1
  <2>4. new \in [0..size - 1 -> BOOLEAN] /\ DOMAIN new = 0..size - 1
    <3>1. \A fd \in 0..size - 1 : (fd \in DOMAIN map /\ map[fd]) \in BOOLEAN
      OBVIOUS
    <3> QED BY <2>2, <3>1, Zenon
  <2>5. \A fd \in 0..size - 1 : new[fd] <=> fd \in DOMAIN map /\ map[fd]
    BY <2>2, Zenon
  <2>6. MapType(new)
    BY <2>4 DEF MapType
  <2>7. MappedIn(new) = MappedIn(map)
    BY <2>3, <2>4, <2>5 DEF MappedIn
  <2> QED BY <2>3, <2>4, <2>6, <2>7
<1> QED BY <1>2, <1>3

WatchedIn(set) == {set[k] : k \in Slots} \ {Free}
OneEach(set) == \A j, k \in Slots : set[j] = set[k] /\ set[j] # Free => j = k
TableType(set) == set \in [Slots -> All \cup {Free}]

\* An added descriptor gets one entry, if one is free.
LEMMA Added ==
    ASSUME FdsAssumption, SizeAssumption, NEW set, TableType(set), OneEach(set),
           NEW fd \in All, fd \notin WatchedIn(set)
    PROVE  /\ TableType(poll_add(set, fd)) /\ OneEach(poll_add(set, fd))
           /\ WatchedIn(set) \subseteq WatchedIn(poll_add(set, fd))
           /\ WatchedIn(poll_add(set, fd)) \subseteq WatchedIn(set) \cup {fd}
           /\ \A k \in Slots : set[k] # Free => poll_add(set, fd)[k] = set[k]
           /\ Free \in {set[k] : k \in Slots} => fd \in WatchedIn(poll_add(set, fd))
<1> DEFINE new == poll_add(set, fd)
           First(k) == set[k] < 0 /\ \A j \in 1..k - 1 : set[j] >= 0
<1> USE DEF FdsAssumption, SizeAssumption, TableType, Slots, Free, All
<1>1. \A k \in Slots : (set[k] < 0 <=> set[k] = Free) /\ (set[k] >= 0 <=> set[k] # Free)
  <2> SUFFICES ASSUME NEW k \in Slots
               PROVE  (set[k] < 0 <=> set[k] = Free) /\ (set[k] >= 0 <=> set[k] # Free)
    OBVIOUS
  <2>1. set[k] \in Nat \/ set[k] = -1
    OBVIOUS
  <2> QED BY <2>1
<1>2. \A k \in Slots : new[k] = IF First(k) THEN fd ELSE set[k]
  BY DEF poll_add
<1>3. TableType(new)
  BY DEF poll_add
<1>4. \A j, k \in Slots : First(j) /\ First(k) => j = k
  <2> SUFFICES ASSUME NEW j \in Slots, NEW k \in Slots, First(j), First(k), j < k
               PROVE  FALSE
    OBVIOUS
  <2>1. j \in 1..k - 1
    OBVIOUS
  <2> QED BY <1>1, <2>1
<1>5. fd # Free /\ \A k \in Slots : set[k] # fd
  BY DEF WatchedIn
<1>6. OneEach(new)
  <2> SUFFICES ASSUME NEW j \in Slots, NEW k \in Slots, new[j] = new[k], new[j] # Free
               PROVE  j = k
    BY DEF OneEach
  <2> QED BY <1>2, <1>4, <1>5 DEF OneEach
<1>7. \A k \in Slots : set[k] # Free => new[k] = set[k]
  BY <1>1, <1>2
<1>8. WatchedIn(set) \subseteq WatchedIn(new) /\ WatchedIn(new) \subseteq WatchedIn(set) \cup {fd}
  <2> HIDE DEF First, new
  <2> QED BY <1>2, <1>7 DEF WatchedIn
<1>9. ASSUME Free \in {set[k] : k \in Slots} PROVE fd \in WatchedIn(new)
  <2> DEFINE frees == {k \in Slots : set[k] = Free}
  <2>1. frees \subseteq Nat /\ frees # {}
    BY <1>9
  <2>2. PICK k \in frees : \A j \in frees : k <= j
    BY <2>1, LeastNatural
  <2>3. First(k)
    <3>1. \A j \in 1..k - 1 : j \in Slots /\ j \notin frees
      BY <2>2
    <3> QED BY <1>1, <2>2, <3>1
  <2>4. k \in Slots /\ new[k] = fd
    BY <1>2, <2>2, <2>3
  <2> QED BY <1>5, <2>4 DEF WatchedIn
<1> QED BY <1>3, <1>6, <1>7, <1>8, <1>9

\* A removed descriptor loses its only entry.
LEMMA Removed ==
    ASSUME FdsAssumption, SizeAssumption, NEW set, TableType(set), OneEach(set),
           NEW fd \in WatchedIn(set)
    PROVE  /\ TableType(poll_del(set, fd)) /\ OneEach(poll_del(set, fd))
           /\ WatchedIn(poll_del(set, fd)) = WatchedIn(set) \ {fd}
<1> DEFINE new == poll_del(set, fd)
<1> USE DEF FdsAssumption, SizeAssumption, TableType, Slots, Free, All
<1>1. \A k \in Slots : new[k] = IF set[k] = fd THEN Free ELSE set[k]
  <2> SUFFICES ASSUME NEW k \in Slots PROVE new[k] = IF set[k] = fd THEN Free ELSE set[k]
    OBVIOUS
  <2>1. set[k] = fd => \A j \in 1..k - 1 : set[j] # fd
    BY DEF OneEach, WatchedIn
  <2> QED BY <2>1 DEF poll_del
<1>2. TableType(new)
  BY DEF poll_del
<1> HIDE DEF new
<1>3. OneEach(new)
  BY <1>1 DEF OneEach
<1>4. WatchedIn(new) = WatchedIn(set) \ {fd}
  BY <1>1 DEF WatchedIn
<1> QED BY <1>2, <1>3, <1>4 DEF new

-----------------------------------------------------------------------------
(* The invariant: the types and OneSlotEach are inductive together.  A      *)
(* step that adds a channel needs that a descriptor without one has no      *)
(* entry; a step that removes one, that it has no other, and that it is the *)
(* descriptor the walk is at, whatever was added since it was closed.       *)

TableOK(set, map) ==
    /\ TableType(set) /\ OneEach(set)
    /\ MapType(map)
    /\ WatchedIn(set) \subseteq MappedIn(map)

WalkType ==
    /\ listening \in BOOLEAN
    /\ revents \in SUBSET Slots
    /\ i \in 0..INIT_POLL_SIZE /\ ready_number \in 0..INIT_POLL_SIZE
    /\ i # 0 => ready_number > 0
    /\ handling \in {"none", "remove", "rest"}
    /\ readable \subseteq All /\ accepted \subseteq Fds

\* The connection whose REMOVE is pending has its entry.
RemovedHasEntry == handling = "remove" => i # 0 /\ event_set[i] \in Fds
RestIsInWalk == handling = "rest" => i # 0

DispatcherInv ==
    /\ WalkType /\ RemovedHasEntry /\ RestIsInWalk
    /\ TableOK(event_set, entries)

LEMMA InvImpliesTypes == DispatcherInv => TypeOK /\ OneSlotEach
<1> SUFFICES ASSUME DispatcherInv PROVE TypeOK /\ OneSlotEach
  OBVIOUS
<1>1. DOMAIN entries = 0..nentries - 1 /\ entries \in [DOMAIN entries -> BOOLEAN]
  <2>1. PICK n \in Nat : DOMAIN entries = 0..n - 1 /\ entries \in [0..n - 1 -> BOOLEAN]
    BY DEF DispatcherInv, TableOK, MapType
  <2>2. Cardinality(0..n - 1) = n
    <3>1. n - 1 \in Int /\ 0 \in Int
      OBVIOUS
    <3>2. Cardinality(0..n - 1) = IF 0 > n - 1 THEN 0 ELSE (n - 1) - 0 + 1
      BY <3>1, FS_Interval
    <3> QED BY <3>2
  <2> QED BY <2>1, <2>2 DEF nentries
<1>2. OneSlotEach
  BY DEF OneSlotEach, OneEach, WatchedIn, MappedIn, Watched, Mapped, DispatcherInv, TableOK
<1> QED BY <1>1, <1>2 DEF DispatcherInv, TypeOK, WalkType, TableOK, TableType

\* What the action that adds a channel promises, whichever step takes it.
AddedWatched ==
    /\ Mapped' \ Mapped # {} /\ Free \in {event_set[k] : k \in Slots}
            => Mapped' \ Mapped \subseteq Watched'
    /\ Mapped \ Mapped' \subseteq Watched \ Watched'
    /\ Watched \cap Mapped' \subseteq Watched'

LEMMA PendingAdd ==
    ASSUME FdsAssumption, SizeAssumption, TableOK(event_set, entries),
           NEW fd \in All, handle_pending_add(fd)
    PROVE  /\ TableOK(event_set, entries)' /\ AddedWatched
           /\ \A k \in Slots : event_set[k] # Free => event_set'[k] = event_set[k]
<1> DEFINE map == map_make_space(entries, fd)
<1>1. /\ entries' = [map EXCEPT ![fd] = TRUE]
      /\ event_set' = IF map[fd] THEN event_set ELSE poll_add(event_set, fd)
  BY DEF handle_pending_add
<1>2. MapType(map) /\ fd \in DOMAIN map /\ MappedIn(map) = MappedIn(entries)
  BY Grown DEF FdsAssumption, TableOK, All
<1> HIDE DEF map
<1>3. PICK n \in Nat : DOMAIN map = 0..n - 1 /\ map \in [0..n - 1 -> BOOLEAN]
  BY <1>2 DEF MapType
<1>4. entries' \in [0..n - 1 -> BOOLEAN] /\ DOMAIN entries' = 0..n - 1
  BY <1>1, <1>3
<1>5. MapType(entries') /\ MappedIn(entries') = MappedIn(entries) \cup {fd}
  <2>1. \A k \in 0..n - 1 : entries'[k] = IF k = fd THEN TRUE ELSE map[k]
    BY <1>1, <1>3
  <2>2. MappedIn(entries') = MappedIn(map) \cup {fd}
    BY <1>2, <1>3, <1>4, <2>1 DEF MappedIn
  <2> QED BY <1>2, <1>4, <2>2 DEF MapType
<1>6. Mapped = MappedIn(entries) /\ Mapped' = MappedIn(entries')
  BY DEF Mapped, MappedIn
<1>7. Watched = WatchedIn(event_set) /\ Watched' = WatchedIn(event_set')
  BY DEF Watched, WatchedIn
<1>8. CASE map[fd]
  <2>1. event_set' = event_set
    BY <1>1, <1>8
  <2>2. fd \in MappedIn(entries)
    BY <1>2, <1>8 DEF MappedIn
  <2> QED BY <1>5, <1>6, <1>7, <2>1, <2>2 DEF TableOK, AddedWatched
<1>9. CASE ~ map[fd]
  <2>1. event_set' = poll_add(event_set, fd)
    BY <1>1, <1>9
  <2>2. fd \notin MappedIn(map)
    BY <1>9 DEF MappedIn
  <2>3. fd \notin WatchedIn(event_set)
    BY <1>2, <2>2 DEF TableOK
  <2>4. /\ TableType(event_set') /\ OneEach(event_set')
        /\ WatchedIn(event_set) \subseteq WatchedIn(event_set')
        /\ WatchedIn(event_set') \subseteq WatchedIn(event_set) \cup {fd}
        /\ \A k \in Slots : event_set[k] # Free => event_set'[k] = event_set[k]
        /\ Free \in {event_set[k] : k \in Slots} => fd \in WatchedIn(event_set')
    BY <2>1, <2>3, Added DEF TableOK
  <2> QED BY <1>5, <1>6, <1>7, <2>4 DEF TableOK, AddedWatched
<1> QED BY <1>8, <1>9

LEMMA PendingRemove ==
    ASSUME FdsAssumption, SizeAssumption, TableOK(event_set, entries),
           NEW fd \in Watched, handle_pending_remove(fd)
    PROVE  TableOK(event_set, entries)' /\ AddedWatched
<1>1. event_set' = poll_del(event_set, fd) /\ entries' = [entries EXCEPT ![fd] = FALSE]
  BY DEF handle_pending_remove
<1>2. PICK n \in Nat : DOMAIN entries = 0..n - 1 /\ entries \in [0..n - 1 -> BOOLEAN]
  BY DEF TableOK, MapType
<1>3. fd \in WatchedIn(event_set) /\ fd \in MappedIn(entries)
  BY DEF TableOK, Watched, WatchedIn
<1>4. entries' \in [0..n - 1 -> BOOLEAN] /\ DOMAIN entries' = 0..n - 1
  BY <1>1, <1>2
<1>5. MapType(entries') /\ MappedIn(entries') = MappedIn(entries) \ {fd}
  <2>1. \A k \in 0..n - 1 : entries'[k] = IF k = fd THEN FALSE ELSE entries[k]
    BY <1>1, <1>2
  <2>2. MappedIn(entries') = MappedIn(entries) \ {fd}
    BY <1>2, <1>4, <2>1 DEF MappedIn
  <2> QED BY <1>4, <2>2 DEF MapType
<1>6. /\ TableType(event_set') /\ OneEach(event_set')
      /\ WatchedIn(event_set') = WatchedIn(event_set) \ {fd}
  BY <1>1, <1>3, Removed DEF TableOK
<1>7. Mapped = MappedIn(entries) /\ Mapped' = MappedIn(entries')
  BY DEF Mapped, MappedIn
<1>8. Watched = WatchedIn(event_set) /\ Watched' = WatchedIn(event_set')
  BY DEF Watched, WatchedIn
<1> QED BY <1>3, <1>5, <1>6, <1>7, <1>8 DEF TableOK, AddedWatched

LEMMA TableUnchanged ==
    ASSUME TableOK(event_set, entries), UNCHANGED table
    PROVE  TableOK(event_set, entries)' /\ AddedWatched
BY DEF TableOK, AddedWatched, TableType, OneEach, MapType, WatchedIn, MappedIn, table,
       Mapped, Watched

\* A channel of a descriptor that has none joins the map and the table.
LEMMA Registered ==
    ASSUME FdsAssumption, SizeAssumption, NEW set, NEW map, TableOK(set, map),
           NEW fd \in All, fd \notin WatchedIn(set)
    PROVE  TableOK(poll_add(set, fd), [map_make_space(map, fd) EXCEPT ![fd] = TRUE])
<1> DEFINE grown == map_make_space(map, fd)
           new == [grown EXCEPT ![fd] = TRUE]
<1>1. MapType(grown) /\ fd \in DOMAIN grown /\ MappedIn(grown) = MappedIn(map)
  BY Grown DEF FdsAssumption, TableOK, All
<1>2. /\ TableType(poll_add(set, fd)) /\ OneEach(poll_add(set, fd))
      /\ WatchedIn(poll_add(set, fd)) \subseteq WatchedIn(set) \cup {fd}
  BY Added DEF TableOK
<1> HIDE DEF grown
<1>3. PICK n \in Nat : DOMAIN grown = 0..n - 1 /\ grown \in [0..n - 1 -> BOOLEAN]
  BY <1>1 DEF MapType
<1>4. new \in [0..n - 1 -> BOOLEAN] /\ DOMAIN new = 0..n - 1
  BY <1>3
<1>5. \A k \in 0..n - 1 : new[k] = IF k = fd THEN TRUE ELSE grown[k]
  BY <1>3
<1>6. MappedIn(new) = MappedIn(map) \cup {fd}
  BY <1>1, <1>3, <1>4, <1>5 DEF MappedIn
<1> QED BY <1>2, <1>4, <1>6 DEF TableOK, MapType, grown

LEMMA InvInit == ASSUME FdsAssumption, SizeAssumption, Init PROVE DispatcherInv
<1> DEFINE empty == [k \in Slots |-> Free]
           none == [fd \in {} |-> FALSE]
           awake == poll_add(empty, WAKE)
           map == [map_make_space(none, WAKE) EXCEPT ![WAKE] = TRUE]
<1>1. WalkType /\ RemovedHasEntry /\ RestIsInWalk
  BY DEF Init, WalkType, SizeAssumption, RemovedHasEntry, RestIsInWalk
<1>2. TableOK(empty, none) /\ WatchedIn(empty) = {}
  <2>1. TableType(empty) /\ OneEach(empty) /\ WatchedIn(empty) = {}
    BY DEF TableType, OneEach, WatchedIn
  <2>2. MapType(none)
    <3>1. 0 \in Nat /\ 0..0 - 1 = {}
      OBVIOUS
    <3>2. DOMAIN none = {} /\ none \in [{} -> BOOLEAN]
      OBVIOUS
    <3> QED BY <3>1, <3>2 DEF MapType
  <2> QED BY <2>1, <2>2 DEF TableOK
<1>3. TableOK(awake, map)
  BY <1>2, Registered DEF All
<1>4. LISTEN \notin WatchedIn(awake)
  <2>1. WatchedIn(awake) \subseteq WatchedIn(empty) \cup {WAKE}
    BY <1>2, Added DEF All, TableOK
  <2> QED BY <1>2, <2>1 DEF FdsAssumption
<1>5. CASE listening
  <2>1. /\ event_set = poll_add(awake, LISTEN)
        /\ entries = [map_make_space(map, LISTEN) EXCEPT ![LISTEN] = TRUE]
    BY <1>5 DEF Init
  <2> HIDE DEF awake, map
  <2> QED BY <1>1, <1>3, <1>4, <2>1, Registered DEF All, DispatcherInv
<1>6. CASE ~ listening
  <2>1. event_set = awake /\ entries = map
    BY <1>6 DEF Init
  <2> QED BY <1>1, <1>3, <2>1 DEF DispatcherInv
<1> QED BY <1>5, <1>6

LEMMA InvStep ==
    ASSUME FdsAssumption, SizeAssumption, DispatcherInv, [Next]_vars
    PROVE  DispatcherInv' /\ AddedWatched
<1> USE DEF FdsAssumption, SizeAssumption
<1>1. ASSUME NEW fd \in All, Arrive(fd)
      PROVE  DispatcherInv' /\ AddedWatched
  <2>1. WalkType' /\ RemovedHasEntry' /\ RestIsInWalk'
    BY <1>1 DEF Arrive, DispatcherInv, WalkType, RemovedHasEntry, RestIsInWalk, walk, table,
                Slots
  <2> QED BY <1>1, <2>1, TableUnchanged DEF Arrive, DispatcherInv
<1>2. ASSUME NEW fd \in Fds, add_pending(fd)
      PROVE  DispatcherInv' /\ AddedWatched
  <2>1. WalkType' /\ RestIsInWalk'
    BY <1>2 DEF add_pending, DispatcherInv, WalkType, RestIsInWalk, walk, Slots
  <2>2. /\ TableOK(event_set, entries)' /\ AddedWatched
        /\ \A k \in Slots : event_set[k] # Free => event_set'[k] = event_set[k]
    BY <1>2, PendingAdd DEF add_pending, DispatcherInv, All
  <2>3. RemovedHasEntry'
    <3> SUFFICES ASSUME handling' = "remove" PROVE i' # 0 /\ event_set'[i'] \in Fds
      BY DEF RemovedHasEntry
    <3>1. i' = i /\ i # 0 /\ event_set[i] \in Fds
      BY <1>2 DEF add_pending, walk, DispatcherInv, RemovedHasEntry
    <3>2. i \in Slots /\ event_set[i] # Free
      BY <3>1 DEF DispatcherInv, WalkType, Slots, Free
    <3> QED BY <2>2, <3>1, <3>2
  <2> QED BY <2>1, <2>2, <2>3 DEF DispatcherInv
<1>3. ASSUME poll
      PROVE  DispatcherInv' /\ AddedWatched
  <2>1. IsFiniteSet(Slots) /\ Cardinality(Slots) = INIT_POLL_SIZE
    <3>1. Cardinality(1..INIT_POLL_SIZE)
            = IF 1 > INIT_POLL_SIZE THEN 0 ELSE INIT_POLL_SIZE - 1 + 1
      BY FS_Interval
    <3>2. IsFiniteSet(1..INIT_POLL_SIZE) /\ Cardinality(1..INIT_POLL_SIZE) = INIT_POLL_SIZE
      BY <3>1, FS_Interval
    <3> QED BY <3>2 DEF Slots
  <2>2. revents' \subseteq Slots /\ revents' # {}
    BY <1>3 DEF poll
  <2>3. IsFiniteSet(revents') /\ Cardinality(revents') <= INIT_POLL_SIZE
    BY <2>1, <2>2, FS_Subset
  <2>4. Cardinality(revents') \in Nat /\ Cardinality(revents') # 0
    BY <2>2, <2>3, FS_CardinalityType, FS_EmptySet
  <2>5. ready_number' \in 1..INIT_POLL_SIZE /\ i' = 1
    BY <1>3, <2>3, <2>4 DEF poll
  <2>6. WalkType' /\ RemovedHasEntry' /\ RestIsInWalk'
    BY <1>3, <2>2, <2>5 DEF poll, DispatcherInv, WalkType, RemovedHasEntry, RestIsInWalk,
                            Slots
  <2> QED BY <1>3, <2>6, TableUnchanged DEF poll, DispatcherInv
<1>4. ASSUME skip
      PROVE  DispatcherInv' /\ AddedWatched
  <2>1. WalkType' /\ RemovedHasEntry' /\ RestIsInWalk'
    BY <1>4 DEF skip, after, DispatcherInv, WalkType, RemovedHasEntry, RestIsInWalk, Slots
  <2> QED BY <1>4, <2>1, TableUnchanged DEF skip, DispatcherInv
<1>5. ASSUME activate
      PROVE  DispatcherInv' /\ AddedWatched
  <2>1. /\ i' \in 0..INIT_POLL_SIZE /\ ready_number' \in 0..INIT_POLL_SIZE
        /\ (i' # 0 => ready_number' > 0)
        /\ handling' = "none" /\ revents' = revents /\ listening' = listening
    BY <1>5 DEF activate, reported, walk_on, last, after, DispatcherInv, WalkType
  <2>2. CASE accept_callback(event_set[i])
    <3>1. PICK new \in Fds : accepted' = accepted \cup {new} /\ handle_pending_add(new)
      BY <2>2 DEF accept_callback
    <3>2. readable' \subseteq All /\ accepted' \subseteq Fds
      BY <2>2, <3>1 DEF accept_callback, DispatcherInv, WalkType
    <3>3. WalkType' /\ RemovedHasEntry' /\ RestIsInWalk'
      BY <2>1, <3>2 DEF DispatcherInv, WalkType, RemovedHasEntry, RestIsInWalk, Slots
    <3>4. TableOK(event_set, entries)' /\ AddedWatched
      BY <3>1, PendingAdd DEF DispatcherInv, All
    <3> QED BY <3>3, <3>4 DEF DispatcherInv
  <2>3. CASE handleWakeup(event_set[i]) \/ read_callback(event_set[i])
    <3>1. readable' \subseteq All /\ accepted' \subseteq Fds /\ UNCHANGED table
      BY <2>3 DEF handleWakeup, read_callback, DispatcherInv, WalkType
    <3>2. WalkType' /\ RemovedHasEntry' /\ RestIsInWalk'
      BY <2>1, <3>1 DEF DispatcherInv, WalkType, RemovedHasEntry, RestIsInWalk, Slots
    <3> QED BY <3>1, <3>2, TableUnchanged DEF DispatcherInv
  <2> QED BY <1>5, <2>2, <2>3 DEF activate
<1>6. ASSUME close_callback
      PROVE  DispatcherInv' /\ AddedWatched
  <2>1. WalkType' /\ RemovedHasEntry' /\ RestIsInWalk'
    BY <1>6 DEF close_callback, reported, table, DispatcherInv, WalkType, RemovedHasEntry,
                RestIsInWalk, Slots
  <2> QED BY <1>6, <2>1, TableUnchanged DEF close_callback, DispatcherInv
<1>7. ASSUME remove_pending
      PROVE  DispatcherInv' /\ AddedWatched
  <2>1. i # 0 /\ event_set[i] \in Fds
    BY <1>7 DEF remove_pending, DispatcherInv, RemovedHasEntry
  <2>2. event_set[i] \in Watched
    <3>1. i \in Slots /\ event_set[i] # Free
      BY <2>1 DEF DispatcherInv, WalkType, Slots, Free
    <3> QED BY <3>1 DEF Watched
  <2>3. TableOK(event_set, entries)' /\ AddedWatched
    BY <1>7, <2>2, PendingRemove DEF remove_pending, DispatcherInv
  <2>4. WalkType' /\ RemovedHasEntry' /\ RestIsInWalk'
    BY <1>7, <2>1 DEF remove_pending, DispatcherInv, WalkType, RemovedHasEntry, RestIsInWalk,
                      Slots
  <2> QED BY <2>3, <2>4 DEF DispatcherInv
<1>8. ASSUME handled
      PROVE  DispatcherInv' /\ AddedWatched
  <2>1. i # 0
    BY <1>8 DEF handled, DispatcherInv, RestIsInWalk
  <2>2. WalkType' /\ RemovedHasEntry' /\ RestIsInWalk'
    BY <1>8, <2>1 DEF handled, walk_on, last, after, DispatcherInv, WalkType,
                      RemovedHasEntry, RestIsInWalk, Slots
  <2> QED BY <1>8, <2>2, TableUnchanged DEF handled, DispatcherInv
<1>9. ASSUME UNCHANGED vars
      PROVE  DispatcherInv' /\ AddedWatched
  <2>1. WalkType' /\ RemovedHasEntry' /\ RestIsInWalk'
    BY <1>9 DEF vars, walk, table, DispatcherInv, WalkType, RemovedHasEntry, RestIsInWalk,
                Slots
  <2> QED BY <1>9, <2>1, TableUnchanged DEF vars, DispatcherInv
<1> QED BY <1>1, <1>2, <1>3, <1>4, <1>5, <1>6, <1>7, <1>8, <1>9 DEF Next, dispatch

-----------------------------------------------------------------------------

LEMMA InvHolds == Spec => []DispatcherInv
<1>1. Init => DispatcherInv
  BY InvInit, FdsAssumption, SizeAssumption
<1>2. DispatcherInv /\ [Next]_vars => DispatcherInv'
  BY InvStep, FdsAssumption, SizeAssumption
<1> QED BY <1>1, <1>2, PTL DEF Spec

\* The table holds descriptors or -1, the channel map is an array of the
\* size it says, and a walk that is under way has a reported entry before it
\* (poll_dispatcher.c:58-179, channel_map.c:5-25).
THEOREM TypeCorrect == Spec => []TypeOK
<1>1. DispatcherInv => TypeOK
  BY InvImpliesTypes
<1> QED BY <1>1, InvHolds, PTL

\* No descriptor has two entries, and each has its channel, so that the walk
\* never activates a channel that is NULL (event_loop.c:161-162).
THEOREM SlotEach == Spec => []OneSlotEach
<1>1. DispatcherInv => OneSlotEach
  BY InvImpliesTypes
<1> QED BY <1>1, InvHolds, PTL

\* A channel that enters the map is watched unless the table is full, and as
\* long as it is in the map it stays watched: neither growing the map, for
\* any descriptor, nor an addition or a removal loses another channel
\* (channel_map.c:5-25, poll_dispatcher.c:58-110).
THEOREM AdditionsWatched == Spec => AddedIsWatched
<1>1. DispatcherInv /\ [Next]_vars => [AddedWatched]_vars
  BY InvStep, FdsAssumption, SizeAssumption
<1>2. AddedIsWatched <=> [][AddedWatched]_vars
  BY DEF AddedIsWatched, AddedWatched
<1> QED BY <1>1, <1>2, InvHolds, PTL DEF Spec
=============================================================================
