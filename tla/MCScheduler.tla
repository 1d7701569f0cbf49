----------------------------- MODULE MCScheduler ------------------------------
(* Scheduler on small instances: users, processes and operations are alike. *)
EXTENDS Scheduler, TLC

Symmetry == Permutations(Users) \cup Permutations(Ops) \cup Permutations(Procs)
===============================================================================
