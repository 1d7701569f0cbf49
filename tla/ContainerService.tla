--------------------------- MODULE ContainerService ---------------------------
(***************************************************************************)
(* What the runner promises to its clients, without Docker's commands: a   *)
(* start launches its user's container unless MAX_SESSIONS containers run, *)
(* an answer is true when it is given, and a request whose client has hung *)
(* up does nothing any more that could not happen by itself.  Containers   *)
(* may stop at any time; one whose start was interrupted may still come to *)
(* life (a stray).  Module Runner implements this one; module Scheduler is *)
(* built on it.                                                            *)
(***************************************************************************)
EXTENDS Naturals, FiniteSets

CONSTANTS Users, Reqs, Max, Faults  \* as in module Runner

VARIABLES
  up,      \* users whose container is running
  late,    \* users whose interrupted start may still take effect
  strays,  \* running containers that came to life late
  call     \* call[r]: slot r is "free", or holds a request "pending" or "replied"

serviceVars == <<up, late, strays, call>>

Free == [at |-> "free"]
Is(r, at) == call[r].at = at

ServiceInit ==
  /\ up = {}
  /\ late = {}
  /\ strays = {}
  /\ call = [r \in Reqs |-> Free]

Ask(r, kind, u) ==
  /\ Is(r, "free")
  /\ call' = [call EXCEPT ![r] = [at |-> "pending", kind |-> kind, user |-> u,
                                  reply |-> "none"]]
  /\ UNCHANGED <<up, late, strays>>

\* The client takes the answer, or hangs up.
Leave(r) ==
  /\ call' = [call EXCEPT ![r] = Free]
  /\ UNCHANGED <<up, late, strays>>

\* u's container stops running.
Quits(u) == up' = up \ {u} /\ strays' = strays \ {u}

Launch(r) ==
  LET u == call[r].user IN
  /\ Is(r, "pending") /\ call[r].kind = "start"
  /\ u \notin up
  /\ "inspect" \in Faults \/ Cardinality(up \ strays) < Max
  /\ up' = up \cup {u}
  /\ late' = late \ {u}
  /\ UNCHANGED <<strays, call>>

\* An error may come with any of the request's effects on its own container.
Reply(r, a) ==
  LET u == call[r].user IN
  /\ Is(r, "pending")
  /\ call' = [call EXCEPT ![r].at = "replied", ![r].reply = a]
  /\ \/ /\ a = "RUNNING" /\ call[r].kind = "start"
        /\ u \in up
        /\ UNCHANGED <<up, late, strays>>
     \/ /\ a = "STOPPED" /\ call[r].kind = "stop"
        /\ u \notin up \/ "inspect" \in Faults
        /\ late' \in {late, late \ {u}}
        /\ UNCHANGED <<up, strays>>
     \/ /\ a = "ERROR"
        /\ UNCHANGED <<up, strays>> \/ Quits(u)
        /\ \/ late' \in {late, late \ {u}}
           \/ "kill" \in Faults /\ call[r].kind = "start" /\ late' = late \cup {u}

Stop(u) == u \in up /\ Quits(u) /\ UNCHANGED <<late, call>>

\* The old container of u, and what may have become of it, is removed.
Forget(u) == u \in late /\ late' = late \ {u} /\ UNCHANGED <<up, strays, call>>

ComeToLife(u) ==
  /\ u \in late \ up
  /\ late' = late \ {u}
  /\ up' = up \cup {u}
  /\ strays' = strays \cup {u}
  /\ UNCHANGED call

\* What a client that lists the containers may see running.
Seen == IF "inspect" \in Faults THEN SUBSET up ELSE {up}

ServiceNext ==
  \/ \E r \in Reqs : \/ \E u \in Users, k \in {"start", "stop"} : Ask(r, k, u)
                     \/ Leave(r) \/ Launch(r)
                     \/ \E a \in {"RUNNING", "STOPPED", "ERROR"} : Reply(r, a)
  \/ \E u \in Users : Stop(u) \/ Forget(u) \/ ComeToLife(u)

ServiceSpec == ServiceInit /\ [][ServiceNext]_serviceVars
===============================================================================
