------------------------------- MODULE OnceLog -------------------------------
(***************************************************************************)
(* What the push promises a device, whatever happens to its requests: each *)
(* operation it queues is decided once, the ones it does not replace are   *)
(* decided in the order it made them, and what it is told of an operation  *)
(* still in its queue is what was decided.                                 *)
(***************************************************************************)
EXTENDS Integers

VARIABLES
  made,      \* the operations made so far, 1 .. made
  replaced,  \* those that a later one may stand in for (cursor moves)
  verdict    \* the operations decided, each with its verdict

lvars == <<made, replaced, verdict>>

Decided == DOMAIN verdict

Init ==
  /\ made = 0
  /\ replaced = {}
  /\ verdict = [o \in {} |-> "none"]

Make ==
  /\ made' = made + 1
  /\ replaced' \in {replaced, replaced \cup {made + 1}}
  /\ UNCHANGED verdict

\* A whole batch at a time: nothing decided is decided again, and an operation
\* that is not replaced comes after all that were decided before.
Decide ==
  /\ \E B \in SUBSET ((1 .. made) \ Decided), v \in [1 .. made -> {"applied", "rejected"}] :
       /\ \A o \in B \ replaced, p \in Decided : p < o
       /\ verdict' = [o \in Decided \cup B |-> IF o \in B THEN v[o] ELSE verdict[o]]
  /\ UNCHANGED <<made, replaced>>

Next == Make \/ Decide

Spec == Init /\ [][Next]_lvars
=============================================================================
