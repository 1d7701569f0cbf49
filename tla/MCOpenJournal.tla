----------------------------- MODULE MCOpenJournal ------------------------------
(* The journal of one operation is checked as it stands: its run has liveness   *)
(* properties, so that no symmetry is used.                                     *)
EXTENDS OpenJournal
================================================================================
