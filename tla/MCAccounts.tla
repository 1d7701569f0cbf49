------------------------------- MODULE MCAccounts -------------------------------
(* Symmetry for the run of Accounts: requests of one kind, invitations and     *)
(* emails are interchangeable.                                                 *)
EXTENDS Accounts, TLC

Symmetry == Permutations(Acts) \cup Permutations(Logins) \cup Permutations(Changes)
              \cup Permutations(Invites) \cup Permutations(Emails)
===============================================================================
