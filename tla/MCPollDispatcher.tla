-------------------------- MODULE MCPollDispatcher --------------------------
(* A table of four entries for the wakeup descriptor, the listening one    *)
(* and four connections, so that it fills up, and a map of two entries     *)
(* that grows twice.                                                       *)
EXTENDS PollDispatcher
=============================================================================
