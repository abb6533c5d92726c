-------------------------- MODULE MCSyncCancelScope --------------------------
(* Small instances of SyncCancelScope for TLC. *)
EXTENDS SyncCancelScope

ApiOnly == {"api"}
=============================================================================
