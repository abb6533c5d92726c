---------------------------- MODULE MCSourceText -----------------------------
(* Constants for TLC. *)
EXTENDS SourceText

CONSTANTS m1, m2
=============================================================================
