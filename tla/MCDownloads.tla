----------------------------- MODULE MCDownloads -----------------------------
(* Instances of Downloads for TLC. *)
EXTENDS Downloads

MCLast == <<1, 0>>   \* two attempts, whose seeds order the questions both ways

\* A new Source quiz, and a drill played on another device.
MCStarts == {[source |-> TRUE, graded |-> {}], [source |-> FALSE, graded |-> {0}]}

\* A drill nobody has played.
MCUnplayed == {[source |-> FALSE, graded |-> {}]}
=============================================================================
