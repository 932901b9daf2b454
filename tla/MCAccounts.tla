----------------------------- MODULE MCAccounts -----------------------------
(* Instances of Accounts for TLC. *)
EXTENDS Accounts, TLC

CONSTANTS ann, e1, p1

\* Nobody has registered; or one account is there and used.
MCStarts ==
  {[users |-> << >>, asked |-> {"register", "login"}],
   [users |-> <<[username |-> ann, email |-> e1, password |-> p1,
                 confirmed |-> TRUE, generation |-> 0, deleted |-> FALSE]>>,
    asked |-> {"login", "renew", "sign_out", "change", "delete", "reset"}]}
=============================================================================
