---------------------------- MODULE MCEventLoop ----------------------------
(* A small server for TLC: a main thread and io threads, connections that  *)
(* reuse a descriptor and one whose accept failed.                         *)
EXTENDS EventLoop, TLC

CONSTANTS m, io, io2, c1, c2, c3, c4, f1, f2

\* c3 gets the descriptor of c1 once c1's is closed; accept fails for c4.
MCFdTwo == (c1 :> f1) @@ (c2 :> f2) @@ (c3 :> f1)
MCFd == MCFdTwo @@ (c4 :> NoFd)
MCFdSame == (c1 :> f1) @@ (c3 :> f1)
=============================================================================
