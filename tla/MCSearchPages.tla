--------------------------- MODULE MCSearchPages ----------------------------
(* Model-checking instances of SearchPages. *)
EXTENDS SearchPages, TLC

Symmetry == Permutations(Readers)
=============================================================================
