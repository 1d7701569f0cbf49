--------------------------- MODULE ExclusiveControl ---------------------------
(***************************************************************************)
(* What taking over a browser promises, whatever the code does to keep the *)
(* promise: at any time the live view and audio streams all belong to one  *)
(* control token, and a token that a later takeover has displaced never    *)
(* carries a stream again.                                                 *)
(***************************************************************************)
CONSTANT Tokens

VARIABLES
  active,   \* the tokens that carry a live stream
  barred    \* the tokens a later takeover has displaced

controlVars == <<active, barred>>

ControlInit == active = {} /\ barred = {}

\* A stream of token k goes live: k is not displaced and nobody else is live.
Connect(k) ==
  /\ k \notin barred
  /\ active \subseteq {k}
  /\ active' = {k}
  /\ UNCHANGED barred

\* Streams end, for whatever reason.
Disconnect(S) ==
  /\ active' = active \ S
  /\ UNCHANGED barred

\* A takeover displaces the tokens of S: their streams are cut in the same step.
Displace(S) ==
  /\ barred' = barred \cup S
  /\ active' = {}

ControlNext ==
  \/ \E k \in Tokens : Connect(k)
  \/ \E S \in SUBSET Tokens : Disconnect(S) \/ Displace(S)

ControlSpec == ControlInit /\ [][ControlNext]_controlVars
===============================================================================
