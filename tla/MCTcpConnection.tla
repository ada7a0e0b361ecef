-------------------------- MODULE MCTcpConnection --------------------------
(* A socket that takes two bytes and replies of up to three: a reply may   *)
(* fit, fit in part or not at all, and a second one may find bytes of the  *)
(* first still buffered.                                                   *)
EXTENDS TcpConnection
=============================================================================
