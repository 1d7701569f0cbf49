------------------------------- MODULE MCRunner -------------------------------
(* Runner on a small instance: its users and its requests are alike. *)
EXTENDS Runner, TLC

Symmetry == Permutations(Users) \cup Permutations(Reqs)
===============================================================================
