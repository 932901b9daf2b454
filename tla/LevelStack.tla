----------------------------- MODULE LevelStack -----------------------------
(***************************************************************************)
(* What a cascade is to the person studying: a stack of question sets with *)
(* the whole set at the bottom.  Only the top is played.  Playing it puts  *)
(* fewer questions on top of it, or puts it in the Trash and leaves fewer  *)
(* questions, or none, in its place; and anything from the Trash can be    *)
(* put back on top.                                                        *)
(***************************************************************************)
EXTENDS Integers, Sequences, SequencesExt

CONSTANT Questions

VARIABLES
  stack,   \* the question sets of levels 1 to depth
  trash,   \* the question sets put away
  open     \* FALSE while the whole cascade is in the Trash

svars == <<stack, trash, open>>

Fewer(S) == {T \in SUBSET S : T # {} /\ T # S}

Init ==
  /\ stack = <<Questions>>
  /\ trash = {}
  /\ open = TRUE

Descend ==
  /\ open
  /\ \E T \in Fewer(Last(stack)) : stack' = Append(stack, T)
  /\ UNCHANGED <<trash, open>>

\* Never the bottom.
PutAway ==
  /\ open
  /\ Len(stack) > 1
  /\ \/ stack' = Front(stack)
     \/ \E T \in Fewer(Last(stack)) : stack' = Append(Front(stack), T)
  /\ trash' = trash \cup {Last(stack)}
  /\ UNCHANGED open

\* Two quizzes put away may have the same questions, so the set may stay.
\* A quiz restored brings a trashed cascade back with it.
Restore ==
  /\ \E T \in trash :
       /\ stack' = Append(stack, T)
       /\ trash' \in {trash, trash \ {T}}
  /\ open' = TRUE

Purge ==
  /\ open
  /\ \E T \in trash : trash' = trash \ {T}
  /\ UNCHANGED <<stack, open>>

Toggle ==
  /\ stack # <<>>
  /\ open' = ~open
  /\ UNCHANGED <<stack, trash>>

End ==
  /\ ~open
  /\ stack' = <<>>
  /\ trash' = {}
  /\ UNCHANGED open

Next == Descend \/ PutAway \/ Restore \/ Purge \/ Toggle \/ End

Spec == Init /\ [][Next]_svars
=============================================================================
