-------------------------- MODULE ChannelRegistry --------------------------
(***************************************************************************)
(* What an event loop promises to the threads that use it, without locks,  *)
(* wakeups or dispatchers: every loop has a mailbox of channel requests    *)
(* and a table of channels; a request that anyone posts is applied by the  *)
(* loop exactly once, in the order of posting, and nothing else changes    *)
(* the table.  EventLoop implements it.                                    *)
(***************************************************************************)
EXTENDS Naturals, Sequences

CONSTANTS Loops, Channels, Fds, Fd, NoFd, NULL

VARIABLES
    mail,       \* the requests posted to a loop and not applied yet
    entry       \* the channel a loop has for a descriptor

Requests == [type : {"add", "remove", "update"}, channel : Channels]

Init ==
    /\ mail = [l \in Loops |-> <<>>]
    /\ entry = [l \in Loops |-> [fd \in Fds |-> NULL]]

Post(l, r) ==
    /\ mail' = [mail EXCEPT ![l] = Append(@, r)]
    /\ UNCHANGED entry

\* The table after a request: the first add of a descriptor wins until it
\* is removed, and an update changes no entry.
Applied(table, r) ==
    LET fd == Fd[r.channel] IN
    CASE fd = NoFd -> table
      [] fd # NoFd /\ r.type = "add" /\ table[fd] = NULL -> [table EXCEPT ![fd] = r.channel]
      [] fd # NoFd /\ r.type = "remove" -> [table EXCEPT ![fd] = NULL]
      [] OTHER -> table

Apply(l) ==
    /\ mail[l] # <<>>
    /\ entry' = [entry EXCEPT ![l] = Applied(@, Head(mail[l]))]
    /\ mail' = [mail EXCEPT ![l] = Tail(@)]

Next == \E l \in Loops : Apply(l) \/ \E r \in Requests : Post(l, r)

Spec == Init /\ [][Next]_<<mail, entry>>
=============================================================================
