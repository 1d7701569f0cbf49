--------------------------- MODULE BrowserCommands ----------------------------
(***************************************************************************)
(* What the scheduler promises to the users of the HTTP interface: a       *)
(* session comes to run only while a start or open command for it is       *)
(* pending, it may stop running at any time, and a command ends exactly    *)
(* once, successfully only if the session is then as the command wanted or *)
(* the last write to the session was lost.                                 *)
(***************************************************************************)
CONSTANTS Users, Ops

VARIABLES
  on,   \* users whose session runs
  lost, \* users whose session's last write was lost
  cmd   \* cmd[o]: status, and user and kind once the command is accepted

CommandsInit ==
  /\ on = {}
  /\ lost = {}
  /\ cmd = [o \in Ops |-> [status |-> "none"]]

AcceptCommand(o) ==
  /\ cmd[o].status = "none"
  /\ \E u \in Users, k \in {"start", "open", "stop"} :
       cmd' = [cmd EXCEPT ![o] = [status |-> "pending", user |-> u, kind |-> k]]
  /\ UNCHANGED <<on, lost>>

TurnOn(u) ==
  /\ u \notin on
  /\ \E o \in Ops : /\ cmd[o].status = "pending"
                    /\ cmd[o].user = u
                    /\ cmd[o].kind \in {"start", "open"}
  /\ on' = on \cup {u}
  /\ lost' = lost \ {u}
  /\ UNCHANGED cmd

TurnOff(u) ==
  /\ u \in on
  /\ on' = on \ {u}
  /\ lost' = lost \ {u}
  /\ UNCHANGED cmd

\* A write to the session is lost, or one is made that leaves it as it was.
Write(u) ==
  /\ lost' \in {lost \cup {u}, lost \ {u}}
  /\ UNCHANGED <<on, cmd>>

Fulfilled(o) == (cmd[o].user \in on) = (cmd[o].kind # "stop")

Resolve(o) ==
  /\ cmd[o].status = "pending"
  /\ \E s \in {"SUCCEEDED", "FAILED", "UNKNOWN"} :
       /\ cmd' = [cmd EXCEPT ![o].status = s]
       /\ s = "SUCCEEDED" => Fulfilled(o) \/ cmd[o].user \in lost
  /\ UNCHANGED <<on, lost>>

CommandsNext ==
  \/ \E o \in Ops : AcceptCommand(o) \/ Resolve(o)
  \/ \E u \in Users : TurnOn(u) \/ TurnOff(u) \/ Write(u)

CommandsSpec == CommandsInit /\ [][CommandsNext]_<<on, lost, cmd>>
===============================================================================
