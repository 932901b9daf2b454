---------------------------- MODULE MCConflicts ----------------------------
(* Instances of Conflicts for TLC. *)
EXTENDS Conflicts, TLC

MCSymmetry == Permutations(Devices)

=============================================================================
