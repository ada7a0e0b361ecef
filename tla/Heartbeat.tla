----------------------------- MODULE Heartbeat -----------------------------
(***************************************************************************)
(* The heartbeat of chapter 12.  pingclient.c pings a connection on which  *)
(* nothing came for KEEP_ALIVE_TIME, repeats it every KEEP_ALIVE_INTERVAL, *)
(* and gives up when KEEP_ALIVE_PROBETIMES pings have brought no answer;   *)
(* pingserver.c sleeps before each answer.  Time passes in ticks of a      *)
(* second, when neither of the two can go on; what happens in the same     *)
(* second happens in any order.                                            *)
(***************************************************************************)
EXTENDS Integers, Sequences

CONSTANTS
    KEEP_ALIVE_TIME,
    KEEP_ALIVE_INTERVAL,
    KEEP_ALIVE_PROBETIMES,
    SleepingTimes       \* what the server may be started with

TimesAssumption ==
    /\ {KEEP_ALIVE_TIME, KEEP_ALIVE_INTERVAL, KEEP_ALIVE_PROBETIMES} \subseteq Nat \ {0}
    /\ SleepingTimes \subseteq Nat

VARIABLES
    client,         \* "run", "dead" ("connection dead") or "terminated"
    heartbeats,
    tv,             \* what is left of the timeout; Linux counts it down
    typed,          \* something was typed: descriptor 0 is never read
    server,         \* "read", "sleep" or "exited"
    sleepingTime,
    nap,            \* what is left of the server's sleep
    pings, pongs,   \* the messages that are under way, pings perhaps in two pieces
    silent,         \* the network is cut
    quiet           \* history: how many ticks ago

clientVars == <<client, heartbeats, tv, typed>>
serverVars == <<server, sleepingTime, nap>>
vars == <<clientVars, serverVars, pings, pongs, silent, quiet>>

\* How long the client waits at most for a sign of life.
Patience == KEEP_ALIVE_TIME + KEEP_ALIVE_PROBETIMES * KEEP_ALIVE_INTERVAL

TypeOK ==
    /\ client \in {"run", "dead", "terminated"}
    /\ heartbeats \in 0..KEEP_ALIVE_PROBETIMES + 1
    /\ tv \in 0..KEEP_ALIVE_TIME \cup 0..KEEP_ALIVE_INTERVAL
    /\ server \in {"read", "sleep", "exited"}
    /\ sleepingTime \in SleepingTimes /\ nap \in 0..sleepingTime
    /\ pings \in Seq({"ping", "head", "tail"}) /\ pongs \in Nat
    /\ quiet \in Nat
    /\ typed \in BOOLEAN /\ silent \in BOOLEAN

ClientInit ==
    /\ client = "run"
    /\ heartbeats = 0 /\ tv = KEEP_ALIVE_TIME
    /\ typed = FALSE

ServerInit ==
    /\ server = "read"
    /\ sleepingTime \in SleepingTimes /\ nap = 0
    /\ pings = <<>> /\ pongs = 0

Init ==
    /\ ClientInit /\ ServerInit
    /\ silent = FALSE /\ quiet = 0

-----------------------------------------------------------------------------
(* The client: select returns when the socket or descriptor 0 is ready, or *)
(* with the timeout; what was typed ends each select, and the timeout is   *)
(* not seen any more.                                                      *)

Heard == pongs > 0 \/ (server = "exited" /\ ~ silent)

\* Mutant: the counter is tested before it is incremented.
GiveUp_before(n) == n - 1 > KEEP_ALIVE_PROBETIMES

GiveUp(n) == n > KEEP_ALIVE_PROBETIMES

\* Bound: only the first ping of a round may arrive in two pieces.
timeout ==
    /\ client = "run" /\ tv = 0 /\ ~ typed /\ ~ Heard
    /\ heartbeats' = heartbeats + 1
    /\ IF GiveUp(heartbeats')
       THEN client' = "dead" /\ UNCHANGED <<tv, pings>>
       ELSE /\ tv' = KEEP_ALIVE_INTERVAL
            /\ \/ pings' = Append(pings, "ping")
               \/ heartbeats' = 1 /\ pings' = pings \o <<"head", "tail">>
            /\ UNCHANGED client
    /\ UNCHANGED <<typed, serverVars, pongs, silent, quiet>>

\* Mutant: the counter is not reset by what is received.
Reset_never == heartbeats

Reset == 0

received ==
    /\ client = "run" /\ Heard
    /\ IF pongs > 0
       THEN /\ heartbeats' = Reset
            /\ tv' = KEEP_ALIVE_TIME
            /\ UNCHANGED client
       ELSE client' = "terminated" /\ UNCHANGED <<heartbeats, tv>>
    /\ pongs' = 0
    /\ UNCHANGED <<typed, serverVars, pings, silent, quiet>>

type_line ==
    /\ client = "run" /\ ~ typed
    /\ typed' = TRUE
    /\ UNCHANGED <<client, heartbeats, tv, serverVars, pings, pongs, silent, quiet>>

-----------------------------------------------------------------------------
(* The server: a read takes up to the size of a message.                   *)

\* Both pieces of a ping; or a second piece that was left, and the beginning
\* of the next ping, whose rest is then the second piece that is left.
read_joined ==
    /\ Len(pings) > 1
    /\ \/ {pings[1], pings[2]} = {"head", "tail"} /\ pings' = Tail(Tail(pings))
       \/ pings[1] = "tail" /\ pings[2] = "ping" /\ pings' = [Tail(pings) EXCEPT ![1] = "tail"]

\* The type is in the first bytes of a ping.  A second piece is taken for a
\* message: its bytes were never set, and may look like any.
read ==
    /\ server = "read" /\ ~ silent /\ pings # <<>>
    /\ pings' = Tail(pings) \/ read_joined
    /\ \/ server' = "sleep" /\ nap' = sleepingTime
       \/ Head(pings) = "tail" /\ server' \in {"read", "exited"} /\ UNCHANGED nap
    /\ UNCHANGED <<clientVars, sleepingTime, pongs, silent, quiet>>

pong ==
    /\ server = "sleep" /\ nap = 0 /\ ~ silent
    /\ pongs' = pongs + 1
    /\ server' = "read"
    /\ UNCHANGED <<clientVars, sleepingTime, nap, pings, silent, quiet>>

\* What is under way to the client is lost.
cut ==
    /\ client = "run" /\ ~ silent
    /\ silent' = TRUE
    /\ pongs' = 0
    /\ UNCHANGED <<clientVars, serverVars, pings, quiet>>

-----------------------------------------------------------------------------
\* Nobody waits for a time that has come, or for a message that is there.
Waiting ==
    /\ client = "run" /\ ~ Heard /\ (tv > 0 \/ typed)
    /\ \/ silent
       \/ server = "exited"
       \/ server = "read" /\ pings = <<>>
       \/ server = "sleep" /\ nap > 0

Left(t) == IF t > 0 THEN t - 1 ELSE 0

\* Bound: quiet stops one past Patience.
tick ==
    /\ Waiting
    /\ tv' = Left(tv)
    /\ nap' = Left(nap)
    /\ quiet' = IF silent /\ quiet <= Patience THEN quiet + 1 ELSE quiet
    /\ UNCHANGED <<client, heartbeats, typed, server, sleepingTime, pings, pongs, silent>>

Next ==
    \/ timeout \/ received \/ type_line
    \/ read \/ pong
    \/ cut
    \/ tick

-----------------------------------------------------------------------------
\* The client calls a connection dead only if it is, or if the server takes
\* longer for an answer than the probes last (pingclient.c:54-64).
LiveServerIsKept ==
    client = "dead" => silent \/ sleepingTime >= KEEP_ALIVE_PROBETIMES * KEEP_ALIVE_INTERVAL

\* A server that is silent is noticed in time, answers to old probes or not,
\* as long as nobody types (pingclient.c:50-77).
SilenceIsNoticed ==
    silent /\ client = "run" => quiet <= Patience \/ typed
=============================================================================
