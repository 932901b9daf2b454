----------------------------- MODULE MCSyncPull -----------------------------
(* Small instances of SyncPull: one cascade with its quizzes. *)
EXTENDS SyncPull

MCHome == [q \in Quizzes |-> 1]
=============================================================================
