----------------------------- MODULE ByteQueue -----------------------------
(***************************************************************************)
(* What a buffer promises: a queue of bytes that grows without limit; bytes *)
(* are appended at one end and leave at the other.                         *)
(***************************************************************************)
EXTENDS Integers, Sequences

CONSTANT Byte

VARIABLES
    queue,      \* the bytes
    passed      \* the bytes that were put or read last

Init == queue = <<>> /\ passed = <<>>

Put == passed' \in Seq(Byte) /\ queue' = queue \o passed'

Read ==
    /\ queue # <<>>
    /\ passed' = <<Head(queue)>>
    /\ queue' = Tail(queue)

Skip ==
    \E n \in 1..Len(queue) :
        queue' = SubSeq(queue, n + 1, Len(queue)) /\ UNCHANGED passed

Next == Put \/ Read \/ Skip

Spec == Init /\ [][Next]_<<queue, passed>>
=============================================================================
