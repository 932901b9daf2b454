------------------------------ MODULE MCCascade ------------------------------
(* Small instances of Cascade. *)
EXTENDS Cascade, SequencesExt, TLC

CONSTANTS s1, s2   \* two seeds: questions in ascending and descending order

MCOneSeed == {s1}
MCResetSeed == [s \in Seeds |-> IF s = s1 /\ s2 \in Seeds THEN s2 ELSE s1]
MCShuffle(S, s) ==
  LET up == SetToSortSeq(S, <)
  IN [p \in Positions(S) |-> (IF s = s1 THEN up ELSE Reverse(up))[p + 1]]

MCThree == 0 .. 2
MCSizeChanges == {{"segment_size"}}
MCSymmetry == Permutations(QuizIds \ {Source})
=============================================================================
