--------------------------- MODULE MCModelServing ---------------------------
(* Small instances of ModelServing for TLC. *)
EXTENDS ModelServing, TLC

\* A deployment without embedders, and one without models.
Halves == {Models, Embedders}
Alike == Permutations(Embedders) \cup Permutations(Calls) \cup Permutations(Admins)
=============================================================================
