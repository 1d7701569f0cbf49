---------------------------- MODULE MCControlLease ----------------------------
(* Symmetry for the safety runs of ControlLease: logins, takeovers, streams  *)
(* and requests are interchangeable.                                         *)
EXTENDS ControlLease, TLC

Symmetry == Permutations(Auths) \cup Permutations(Takeovers)
              \cup Permutations(Conns)
===============================================================================
