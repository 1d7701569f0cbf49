--------------------------- MODULE MCInstallation ----------------------------
(* Two requests at a time, two administrators, an internal and an external    *)
(* database.  Liveness is checked too, so nothing is declared symmetric.      *)
EXTENDS Installation
================================================================================
