------------------------------ MODULE MCBuffer ------------------------------
(* A buffer of two bytes that may grow to five, and chunks of up to three: *)
(* a chunk may fit, need the readable bytes moved, overflow the array in   *)
(* socket_read, or need more room.                                         *)
EXTENDS Buffer
=============================================================================
