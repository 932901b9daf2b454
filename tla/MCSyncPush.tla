----------------------------- MODULE MCSyncPush -----------------------------
(* Small instances of SyncPush. *)
EXTENDS SyncPush
=============================================================================
