----------------------------- MODULE MCChatTurn ------------------------------
(* Constants for TLC: one request, one session that is created before it or *)
(* by it, one source. *)
EXTENDS ChatTurn

CONSTANTS t1, c1, d1
=============================================================================
