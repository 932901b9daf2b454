------------------------------ MODULE MCSlots ------------------------------
(* Instances of Slots for TLC. *)
EXTENDS Slots, TLC

CONSTANTS c1, c2

\* Creations and the Trash; the Trash and the purge task; saved searches; exports.
MCScenarios ==
  {[held |-> {c1}, asked |-> {"create", "start_over", "trash"}],
   [held |-> {c1, c2}, asked |-> {"trash", "clear", "purge"}],
   [held |-> {}, asked |-> {"save"}],
   [held |-> {}, asked |-> {"export", "purge"}]}
=============================================================================
