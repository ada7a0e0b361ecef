-------------------------- MODULE MCCoursePrograms --------------------------
(* Two clients that write, one of them late to read its replies, and a     *)
(* third that takes an entry of every table; streams of up to four bytes.  *)
EXTENDS CoursePrograms

CONSTANTS c1, c2, c3

MCLetter == (c1 :> "a") @@ (c2 :> "n") @@ (c3 :> "n")
MCMaxSent == (c1 :> 2) @@ (c2 :> 1) @@ (c3 :> 0)
MCLineSent == (c1 :> 3) @@ (c2 :> 1) @@ (c3 :> 0)

MCStreams == UNION {[1..n -> {"x", NL, "\r"}] : n \in 0..4}
\* Texts are between numbers in their stream: 120 is x, 10 a line feed.
MCTexts == {<<120>>, <<120, 10>>, <<120, 120, 10>>, <<120, 120, 120, 10>>}
MCMessages == UNION {[1..n -> MCTexts] : n \in 0..2}
=============================================================================
