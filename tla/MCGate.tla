------------------------------- MODULE MCGate -------------------------------
(* Model-checking instances of Gate. *)
EXTENDS Gate
=============================================================================
