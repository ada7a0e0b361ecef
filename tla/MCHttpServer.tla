---------------------------- MODULE MCHttpServer ----------------------------
(***************************************************************************)
(* HttpServer for TLC: every request a client can make of the two versions *)
(* and the two values of the Connection header.                            *)
(***************************************************************************)
EXTENDS HttpServer

AllKinds == [version : Versions, connection : {"none", "close", "keep"}]
=============================================================================
