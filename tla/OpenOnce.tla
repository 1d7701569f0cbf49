-------------------------------- MODULE OpenOnce --------------------------------
(***************************************************************************)
(* What opening a link promises: Chrome is made to act on the address of   *)
(* an operation at most once, whatever is retried, and the operation       *)
(* succeeds only when a tab has been at its address or Chrome has refused  *)
(* to go there.  It may end as UNKNOWN at any time, and a navigation       *)
(* already under way may still happen afterwards.                          *)
(***************************************************************************)
CONSTANT Ops

VARIABLES
  navs,     \* navs[o]: navigations to the address of operation o
  reached,  \* operations whose tab has been at their address
  refused,  \* operations whose navigation Chrome has refused
  row       \* row[o]: RUNNING until the operation ends

onceVars == <<navs, reached, refused, row>>

OnceInit ==
  /\ navs = [o \in Ops |-> 0]
  /\ reached = {}
  /\ refused = {}
  /\ row = [o \in Ops |-> "RUNNING"]

\* The one navigation: it takes place, or Chrome refuses it.
NavigateOnce(o) ==
  /\ navs[o] = 0 /\ o \notin refused
  /\ \/ /\ navs' = [navs EXCEPT ![o] = 1]
        /\ reached' = reached \cup {o}
        /\ UNCHANGED refused
     \/ refused' = refused \cup {o} /\ UNCHANGED <<navs, reached>>
  /\ UNCHANGED row

\* The user brings the operation's own tab to the address.
ReachByHand(o) ==
  /\ reached' = reached \cup {o}
  /\ UNCHANGED <<navs, refused, row>>

\* Two API processes may end it, the second one over the first (module Scheduler).
End(o) ==
  /\ \E s \in {"SUCCEEDED", "UNKNOWN"} :
       /\ s = "SUCCEEDED" => o \in reached \cup refused
       /\ row' = [row EXCEPT ![o] = s]
  /\ UNCHANGED <<navs, reached, refused>>

OnceNext == \E o \in Ops : NavigateOnce(o) \/ ReachByHand(o) \/ End(o)

OnceSpec == OnceInit /\ [][OnceNext]_onceVars
================================================================================
