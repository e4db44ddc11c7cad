----------------------------- MODULE MCHHToken -----------------------------
(* HHToken for TLC: the processes and the logins are interchangeable.       *)
EXTENDS HHToken, TLC

Symmetry == Permutations(Proc) \cup Permutations(Login)
=============================================================================
