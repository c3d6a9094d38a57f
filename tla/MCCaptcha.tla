----------------------------- MODULE MCCaptcha ------------------------------
(* Model-checking instances of Captcha. *)
EXTENDS Captcha, TLC

Symmetry == Permutations(Requests) \cup Permutations(Inserts) \cup Permutations(Keys)
=============================================================================
