----------------------------- MODULE MCCatalog -----------------------------
(* Instances of Catalog for TLC. *)
EXTENDS Catalog, TLC

CONSTANT n

MCOneDistribution ==
  <<[kind |-> "distribution", name |-> n, parent |-> NoParent, deleted |-> FALSE]>>
=============================================================================
