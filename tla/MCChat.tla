------------------------------- MODULE MCChat ------------------------------
(* Chat for TLC: processes, sessions and dashboards are interchangeable. *)
EXTENDS Chat, TLC

Symmetry == Permutations(Proc) \cup Permutations(Session) \cup Permutations(Dash)
=============================================================================
