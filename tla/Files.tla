--------------------------------- MODULE Files ---------------------------------
(***************************************************************************)
(* The file handlers of the runner (internal/files/files.go) on the home   *)
(* of one user: uploads, one at a time behind uploadMu, each written to a  *)
(* hidden temporary file that is renamed when it is whole; deletions; and  *)
(* the browser, which writes to the same home whenever it likes.  The      *)
(* runner may die between any two steps.  A client that hangs up shows in  *)
(* a read that fails or not at all: what has arrived by then is uploaded   *)
(* all the same.  One that stalls keeps its upload, and uploadMu, as long  *)
(* as it likes: neither server has a deadline for reading a body.          *)
(* Listing and downloading change nothing and are left out, and so is a    *)
(* request that fails before it has any effect.                            *)
(***************************************************************************)
EXTENDS Integers

CONSTANTS
  Ups,        \* upload requests, also the files that they make in Uploads
  Sizes,      \* how many bytes an upload may send
  SoftLimit,  \* bytes a home may hold
  MaxUpload,  \* bytes a file may hold
  MaxBrowser, \* bound on the bytes of the browser's own files
  MaxCrashes  \* bound on the deaths of the runner

ASSUME SizesAssumption == Sizes \subseteq Nat
ASSUME LimitsAssumption == SoftLimit \in Nat /\ MaxUpload \in Nat
ASSUME BoundsAssumption == MaxBrowser \in Nat /\ MaxCrashes \in Nat

VARIABLES
  stored,   \* bytes of all regular files of the home: what a walk adds up
  browser,  \* the browser's share of them
  written,  \* bytes the browser wrote since the upload under way began to walk,
            \* or moved while it walked
  shrunk,   \* bytes removed or moved while it walks
  up,       \* up[u]: where upload u is in its handler
  size,     \* size[u]: bytes of the file its client sends
  used,     \* used[u]: what its walk has found
  file,     \* file[u]: its file, "none", "temp", "visible" or "removed"
  bytes,    \* bytes[u]: how much of it has been written
  chowned,  \* the files that have been given to the browser's user
  reply,    \* reply[u]: the answer
  crashes

upVars == <<up, size, used, chowned, reply>>
walkVars == <<written, shrunk>>
filesVars == <<stored, browser, walkVars, upVars, file, bytes, crashes>>

\* uploadMu is held from UploadLock to Close.
Holding(u) == up[u] \notin {"free", "waiting", "answered", "dead"}
UnderWay == \E u \in Ups : Holding(u)
Walking == \E u \in Ups : up[u] = "walking"

Goto(u, pc) == /\ up' = [up EXCEPT ![u] = pc]
               /\ UNCHANGED reply

\* An early return: the answer is written and the deferred calls are to come.
Refuse(u) ==
  /\ up' = [up EXCEPT ![u] = "closing"]
  /\ reply' = [reply EXCEPT ![u] = "refused"]
  /\ UNCHANGED <<size, used, chowned, file, bytes, stored, browser, walkVars,
                 crashes>>

FilesInit ==
  /\ stored = 0 /\ browser = 0 /\ written = 0 /\ shrunk = 0
  /\ up = [u \in Ups |-> "free"]
  /\ size = [u \in Ups |-> 0]
  /\ used = [u \in Ups |-> 0]
  /\ file = [u \in Ups |-> "none"]
  /\ bytes = [u \in Ups |-> 0]
  /\ chowned = {}
  /\ reply = [u \in Ups |-> "none"]
  /\ crashes = 0

-----------------------------------------------------------------------------
(* Uploads *)

\* Which of those that have not arrived yet comes first makes no difference.
IsNewUpload(u) == up[u] = "free" /\ u = CHOOSE v \in Ups : up[v] = "free"

UploadArrives(u, n) ==
  /\ IsNewUpload(u)
  /\ Goto(u, "waiting")
  /\ size' = [size EXCEPT ![u] = n]
  /\ UNCHANGED <<used, chowned, file, bytes, stored, browser, walkVars,
                 crashes>>

\* Fault: no mutual exclusion.
UploadLockNothing(u) ==
  /\ up[u] = "waiting"
  /\ \/ Refuse(u)
     \/ /\ Goto(u, "walking")
        /\ written' = 0 /\ shrunk' = 0
        /\ UNCHANGED <<size, used, chowned, file, bytes, stored, browser,
                       crashes>>

\* Takes uploadMu and looks at the free disk space, which is low or not.
UploadLock(u) ==
  /\ up[u] = "waiting"
  /\ ~UnderWay
  /\ \/ Refuse(u)
     \/ /\ Goto(u, "walking")
        /\ written' = 0 /\ shrunk' = 0
        /\ UNCHANGED <<size, used, chowned, file, bytes, stored, browser,
                 crashes>>

\* Usage walks the home while others write and remove.  What it adds up lies
\* between all that was there throughout and all that was there at some time;
\* a file that vanishes after its directory was read is an error.
Walk(u) ==
  /\ up[u] = "walking"
  /\ \/ \E n \in 0..(stored + shrunk) :
          /\ n >= stored - written
          /\ IF n >= SoftLimit
             THEN Refuse(u)
             ELSE /\ Goto(u, "parsing")
                  /\ used' = [used EXCEPT ![u] = n]
                  /\ UNCHANGED <<size, chowned, file, bytes, stored, browser,
                                 walkVars, crashes>>
     \/ shrunk > 0 /\ Refuse(u)

\* Reads the head of the part and creates the temporary file.
OpenTemp(u) ==
  /\ up[u] = "parsing"
  /\ \/ Refuse(u)
     \/ /\ Goto(u, "copying")
        /\ file' = [file EXCEPT ![u] = "temp"]
        /\ UNCHANGED <<size, used, chowned, bytes, stored, browser,
                       walkVars, crashes>>

Limit(u) == IF MaxUpload <= SoftLimit - used[u] THEN MaxUpload
            ELSE SoftLimit - used[u]

\* io.Copy from a reader that ends one byte after the limit.
Copy(u) ==
  /\ up[u] = "copying"
  /\ bytes[u] < size[u] /\ bytes[u] < Limit(u) + 1
  /\ bytes' = [bytes EXCEPT ![u] = @ + 1]
  /\ stored' = stored + 1
  /\ UNCHANGED <<upVars, file, browser, walkVars, crashes>>

\* Fault: the copy ends at the limit, where a longer file shows no excess.
EndCopyAtLimit(u) ==
  /\ up[u] = "copying"
  /\ bytes[u] = size[u] \/ bytes[u] = Limit(u)
  /\ Goto(u, "copied")
  /\ UNCHANGED <<size, used, chowned, file, bytes, stored, browser, walkVars,
                 crashes>>

\* The end of the copy and the sync; not more than the limit has arrived, and
\* no second part follows.
EndCopy(u) ==
  /\ up[u] = "copying"
  /\ bytes[u] = size[u] \/ bytes[u] = Limit(u) + 1
  /\ bytes[u] <= Limit(u)
  /\ Goto(u, "copied")
  /\ UNCHANGED <<size, used, chowned, file, bytes, stored, browser, walkVars,
                 crashes>>

\* More than the limit has arrived.
Excess(u) == up[u] = "copying" /\ bytes[u] > Limit(u) /\ Refuse(u)

\* A second part arrives; or the client is gone, or the disk full.
FailCopy(u) == up[u] = "copying" /\ Refuse(u)

\* The file gets the owner of the home, the browser's user.
Chown(u) ==
  /\ up[u] = "copied"
  /\ \/ Refuse(u)
     \/ /\ Goto(u, "owned")
        /\ chowned' = chowned \cup {u}
        /\ UNCHANGED <<size, used, file, bytes, stored, browser, walkVars,
                 crashes>>

\* The file gets its name, which is new because it begins with a random part.
Rename(u) ==
  /\ up[u] = "owned"
  /\ \/ Refuse(u)
     \/ /\ up' = [up EXCEPT ![u] = "closing"]
        /\ reply' = [reply EXCEPT ![u] = "CREATED"]
        /\ file' = [file EXCEPT ![u] = "visible"]
        /\ UNCHANGED <<size, used, chowned, bytes, stored, browser,
                       walkVars, crashes>>

\* The deferred calls: the temporary file goes if it is still there, uploadMu
\* is released, and the answer leaves with the end of the handler.
Close(u) ==
  /\ up[u] = "closing"
  /\ Goto(u, "answered")
  /\ IF file[u] = "temp"
     THEN /\ file' = [file EXCEPT ![u] = "none"]
          /\ bytes' = [bytes EXCEPT ![u] = 0]
          /\ chowned' = chowned \ {u}
          /\ stored' = stored - bytes[u]
     ELSE UNCHANGED <<file, bytes, chowned, stored>>
  /\ used' = [used EXCEPT ![u] = 0]
  /\ written' = 0 /\ shrunk' = 0
  /\ UNCHANGED <<size, browser, crashes>>

-----------------------------------------------------------------------------
(* Deletions, the browser, and the end of the runner *)

\* A visible file is opened, found regular and removed by its name.  A delete
\* that comes second finds nothing, at one step or the other, and changes
\* nothing; the hidden temporary files have no id.
Delete(u) ==
  /\ file[u] = "visible"
  /\ file' = [file EXCEPT ![u] = "removed"]
  /\ stored' = stored - bytes[u]
  /\ shrunk' = IF Walking THEN shrunk + bytes[u] ELSE 0
  /\ UNCHANGED <<browser, written, upVars, bytes, crashes>>

BrowserWrites ==
  /\ browser < MaxBrowser /\ written < MaxBrowser
  /\ browser' = browser + 1
  /\ stored' = stored + 1
  /\ written' = IF UnderWay THEN written + 1 ELSE 0
  /\ UNCHANGED <<shrunk, upVars, file, bytes, crashes>>

BrowserRemoves ==
  /\ browser > 0
  /\ browser' = browser - 1
  /\ stored' = stored - 1
  /\ shrunk' = IF Walking THEN shrunk + 1 ELSE 0
  /\ UNCHANGED <<written, upVars, file, bytes, crashes>>

\* From a directory not yet walked to one that has been, or the other way: the
\* walk misses the file or finds it twice.
BrowserMoves ==
  /\ Walking /\ browser > 0 /\ written < MaxBrowser
  /\ written' = written + 1
  /\ shrunk' = shrunk + 1
  /\ UNCHANGED <<stored, browser, upVars, file, bytes, crashes>>

\* The runner dies: no deferred call runs, and what is on the disk stays.
RunnerDies ==
  /\ crashes < MaxCrashes
  /\ \E u \in Ups : up[u] = "waiting" \/ Holding(u)
  /\ crashes' = crashes + 1
  /\ up' = [u \in Ups |-> IF up[u] = "waiting" \/ Holding(u) THEN "dead" ELSE up[u]]
  /\ used' = [u \in Ups |-> 0]
  /\ written' = 0 /\ shrunk' = 0
  /\ UNCHANGED <<stored, browser, size, chowned, reply, file, bytes>>

\* Steps that wait for the client of the upload, and those that do not.
ClientStep(u) == OpenTemp(u) \/ Copy(u) \/ EndCopy(u) \/ FailCopy(u)
ServerStep(u) ==
  UploadLock(u) \/ Walk(u) \/ Excess(u) \/ Chown(u) \/ Rename(u) \/ Close(u)
UploadStep(u) == ClientStep(u) \/ ServerStep(u)

FilesNext ==
  \/ \E u \in Ups : UploadStep(u)
  \/ \E u \in Ups, n \in Sizes : UploadArrives(u, n)
  \/ \E u \in Ups : Delete(u)
  \/ BrowserWrites \/ BrowserRemoves \/ BrowserMoves \/ RunnerDies
=============================================================================
