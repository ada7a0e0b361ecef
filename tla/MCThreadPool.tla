---------------------------- MODULE MCThreadPool ----------------------------
(* Pools of none to MaxThreads threads; every loop is handed up to         *)
(* MaxConnections connections, so that the round robin wraps.              *)
EXTENDS ThreadPool
=============================================================================
