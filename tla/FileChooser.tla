------------------------------ MODULE FileChooser ------------------------------
(***************************************************************************)
(* The browser's file dialogs, answered from the home that Files models    *)
(* (internal/agent/agent.go).  A watching request opens a connection to    *)
(* Chrome that intercepts the dialogs of the page; when one opens, the     *)
(* connection goes into the registry of choosers under a new id, to be     *)
(* taken out by the request that completes it or, after a minute, by a     *)
(* timer.  As long as the connection is open the page's dialogs are        *)
(* hijacked, so somebody must always be about to close it.  Chrome is      *)
(* external: a connection may fail and a command be refused at any time.   *)
(***************************************************************************)
EXTENDS Files, FiniteSets

CONSTANTS
  Waits,     \* watching requests, also their connections and their choosers
  Comps,     \* completing requests
  MaxNames,  \* files a completing request may name
  NoChooser

ASSUME NoChooserAssumption == NoChooser \notin Waits

\* An upload's file has a hidden name first and a visible one later.
Names == Ups \X {"temp", "visible"}
WasThere(name) ==
  file[name[1]] \in IF name[2] = "temp" THEN {"temp", "visible", "removed"}
                                       ELSE {"visible", "removed"}

VARIABLES
  wait,     \* wait[w]: where watching request w is
  conn,     \* conn[w]: its connection, "none", "open" or "closed"
  choosers, \* the registry
  timer,    \* timer[w]: the expiry timer, "none", "set" or "fired"
  expired,  \* the choosers whose minute has passed
  comp,     \* comp[c]: where completing request c is
  took,     \* took[c]: the chooser it has taken out of the registry
  asked, looked, \* the names it gives, and those it has found to be regular files
  given     \* given[w]: the names the page has been given through w

compVars == <<comp, took, asked, looked>>
chooserVars == <<wait, conn, choosers, timer, expired, compVars, given>>
vars == <<filesVars, chooserVars>>

ChooserInit ==
  /\ wait = [w \in Waits |-> "free"]
  /\ conn = [w \in Waits |-> "none"]
  /\ choosers = {} /\ expired = {}
  /\ timer = [w \in Waits |-> "none"]
  /\ comp = [c \in Comps |-> "free"]
  /\ took = [c \in Comps |-> NoChooser]
  /\ asked = [c \in Comps |-> {}]
  /\ looked = [c \in Comps |-> {}]
  /\ given = [w \in Waits |-> {}]

Init == FilesInit /\ ChooserInit

CloseConn(w) == conn' = [conn EXCEPT ![w] = "closed"]

-----------------------------------------------------------------------------
(* Watching *)

\* The active tab is found and a connection to it opened.
Dial(w) ==
  /\ wait[w] = "free"
  /\ wait' = [wait EXCEPT ![w] = "enabling"]
  /\ conn' = [conn EXCEPT ![w] = "open"]
  /\ UNCHANGED <<choosers, timer, expired, compVars, given>>

\* Page.enable is answered and the interception asked for.
Intercept(w) ==
  /\ wait[w] = "enabling"
  /\ wait' = [wait EXCEPT ![w] = "listening"]
  /\ UNCHANGED <<conn, choosers, timer, expired, compVars, given>>

\* An error of Chrome, 25 seconds without a dialog, or the client is gone.
WaitFails(w) ==
  /\ wait[w] \in {"enabling", "listening"}
  /\ wait' = [wait EXCEPT ![w] = "answered"]
  /\ CloseConn(w)
  /\ UNCHANGED <<choosers, timer, expired, compVars, given>>


\* A dialog opens: the chooser is registered, its timer set, its id answered.
DialogOpens(w) ==
  /\ wait[w] = "listening"
  /\ wait' = [wait EXCEPT ![w] = "answered"]
  /\ choosers' = choosers \cup {w}
  /\ timer' = [timer EXCEPT ![w] = "set"]
  /\ UNCHANGED <<conn, expired, compVars, given>>

MinutePasses(w) ==
  /\ timer[w] = "set"
  /\ expired' = expired \cup {w}
  /\ UNCHANGED <<wait, conn, choosers, timer, compVars, given>>

\* Fault: the timer does not look whether the chooser is still registered.
TimerFiresBlindly(w) ==
  /\ timer[w] = "set" /\ w \in expired
  /\ timer' = [timer EXCEPT ![w] = "fired"]
  /\ choosers' = choosers \ {w} /\ CloseConn(w)
  /\ UNCHANGED <<wait, expired, compVars, given>>

TimerFires(w) ==
  /\ timer[w] = "set" /\ w \in expired
  /\ timer' = [timer EXCEPT ![w] = "fired"]
  /\ IF w \in choosers
     THEN choosers' = choosers \ {w} /\ CloseConn(w)
     ELSE UNCHANGED <<choosers, conn>>
  /\ UNCHANGED <<wait, expired, compVars, given>>

-----------------------------------------------------------------------------
(* Completing *)

IsNewComp(c) == comp[c] = "free" /\ c = CHOOSE d \in Comps : comp[d] = "free"

\* The chooser, if it is still there, leaves the registry.  The client has seen
\* its id in an answer, the visible names in a list and the hidden ones in the
\* directory; a name that was never there ends the request like one removed.
\* Without the chooser nobody looks at the names.
Take(c, w, names) ==
  /\ IsNewComp(c)
  /\ timer[w] # "none"
  /\ Cardinality(names) <= MaxNames
  /\ \A name \in names : WasThere(name)
  /\ comp' = [comp EXCEPT ![c] = "taken"]
  /\ took' = [took EXCEPT ![c] = IF w \in choosers THEN w ELSE NoChooser]
  /\ asked' = [asked EXCEPT ![c] = IF w \in choosers THEN names ELSE {}]
  /\ choosers' = choosers \ {w}
  /\ UNCHANGED <<wait, conn, timer, expired, looked, given>>

\* The request ends, and its locals; its deferred CloseNow closes what it has
\* taken.
EndComp(c) ==
  /\ comp' = [comp EXCEPT ![c] = "answered"]
  /\ took' = [took EXCEPT ![c] = NoChooser]
  /\ asked' = [asked EXCEPT ![c] = {}]
  /\ looked' = [looked EXCEPT ![c] = {}]
  /\ IF took[c] = NoChooser THEN UNCHANGED conn ELSE CloseConn(took[c])
  /\ UNCHANGED <<wait, choosers, timer, expired>>

\* FILE_CHOOSER_EXPIRED, or on with it.
CheckExpiry(c) ==
  /\ comp[c] = "taken"
  /\ IF took[c] = NoChooser \/ took[c] \in expired
     THEN EndComp(c) /\ UNCHANGED given
     ELSE /\ comp' = [comp EXCEPT ![c] = "looking"]
          /\ UNCHANGED <<wait, conn, choosers, timer, expired, took, asked,
                         looked, given>>

\* Lstat of one name; one that is not there (any more) ends the request.
Look(c, name) ==
  /\ comp[c] = "looking"
  /\ name \in asked[c] \ looked[c]
  /\ IF file[name[1]] = name[2]
     THEN /\ looked' = [looked EXCEPT ![c] = @ \cup {name}]
          /\ UNCHANGED <<wait, conn, choosers, timer, expired, comp, took,
                         asked, given>>
     ELSE EndComp(c) /\ UNCHANGED given

\* DOM.setFileInputFiles: Chrome does it or not, whatever the answer says.
SetFiles(c) ==
  /\ comp[c] = "looking"
  /\ looked[c] = asked[c]
  /\ \/ given' = [given EXCEPT ![took[c]] = @ \cup looked[c]]
     \/ UNCHANGED given
  /\ EndComp(c)

\* What goes on by itself once it has begun.
ChooserStep ==
  \/ \E w \in Waits : \/ Intercept(w) \/ WaitFails(w) \/ DialogOpens(w)
                      \/ MinutePasses(w) \/ TimerFires(w)
  \/ \E c \in Comps : \/ CheckExpiry(c) \/ SetFiles(c)
                      \/ \E name \in Names : Look(c, name)

ChooserNext ==
  \/ ChooserStep
  \/ \E w \in Waits : Dial(w)
  \/ \E c \in Comps, w \in Waits, names \in SUBSET Names : Take(c, w, names)

Next ==
  \/ FilesNext /\ UNCHANGED chooserVars
  \/ ChooserNext /\ UNCHANGED filesVars

Spec == Init /\ [][Next]_vars

\* What the server has to do goes on: a watching request ends within 25 seconds,
\* minutes pass and timers fire, a completing request has 5 seconds.  No request
\* has to be made, no client has to send what it has announced or to leave, and
\* nothing is asked of the browser.
Progress == \/ (\E u \in Ups : ServerStep(u)) /\ UNCHANGED chooserVars
            \/ ChooserStep /\ UNCHANGED filesVars
FairSpec == Spec /\ WF_vars(Progress)

-----------------------------------------------------------------------------
(* Properties *)

\* Every variable has its type, and uploadMu has one holder.
UploadPlaces == {"free", "waiting", "walking", "parsing", "copying", "copied",
                 "owned", "closing", "answered", "dead"}
FilesTyped ==
  /\ stored \in Int /\ browser \in Nat /\ written \in Nat /\ shrunk \in Int
  /\ up \in [Ups -> UploadPlaces]
  /\ size \in [Ups -> Nat] /\ bytes \in [Ups -> Nat] /\ used \in [Ups -> Nat]
  /\ file \in [Ups -> {"none", "temp", "visible", "removed"}]
  /\ chowned \subseteq Ups
  /\ reply \in [Ups -> {"none", "refused", "CREATED"}]
  /\ crashes \in Nat
ChoosersTyped ==
  /\ wait \in [Waits -> {"free", "enabling", "listening", "answered"}]
  /\ conn \in [Waits -> {"none", "open", "closed"}]
  /\ choosers \subseteq Waits /\ expired \subseteq Waits
  /\ timer \in [Waits -> {"none", "set", "fired"}]
  /\ comp \in [Comps -> {"free", "taken", "looking", "answered"}]
  /\ took \in [Comps -> Waits \cup {NoChooser}]
  /\ asked \in [Comps -> SUBSET Names] /\ looked \in [Comps -> SUBSET Names]
  /\ given \in [Waits -> SUBSET Names]
  /\ \A c \in Comps : comp[c] = "looking" => took[c] \in Waits
TransferTypeOK ==
  /\ FilesTyped /\ ChoosersTyped
  /\ \A u, v \in Ups : Holding(u) /\ Holding(v) => u = v

\* docs/architecture.md:60, uploads check the soft limit one after another so
\* that they do not exceed it together: when a file appears, the home holds no
\* more than the limit and what the browser has written since the upload began
\* to add it up, or moved while it did, whatever is written, removed, refused or
\* cut off meanwhile.
UploadsKeepQuota ==
  [][\A u \in Ups : file[u] # "visible" /\ file'[u] = "visible"
                      => stored' <= SoftLimit + written]_vars

\* Anything visible in Uploads, and anything the page is given by a visible name
\* (agent.go:506 lets a client name hidden files too, unfinished or left over), is
\* a file that arrived whole and belongs to the browser's user; an answered upload
\* has left its file if it says CREATED and nothing if not; a temporary file
\* belongs to the upload under way, or to one that died with the runner.
WholeFile(u) == bytes[u] = size[u] /\ u \in chowned
OnlyWholeFiles ==
  /\ \A u \in Ups :
       /\ file[u] \in {"visible", "removed"} => WholeFile(u) /\ reply[u] = "CREATED"
       /\ up[u] = "answered" =>
            (file[u] = "none" <=> reply[u] = "refused") /\ file[u] # "temp"
       /\ file[u] = "temp" => Holding(u) \/ up[u] = "dead"
  /\ \A w \in Waits, u \in Ups :
       <<u, "visible">> \in given[w] => file[u] \in {"visible", "removed"}

\* An open connection, which hijacks the page's dialogs, has exactly one owner
\* that is to close it: the watching request, the registry with a timer still
\* set, or one completing request; and a completing request that is about to
\* use its connection finds it open.
Watching(w) == wait[w] \in {"enabling", "listening"}
Completing(c, w) == took[c] = w /\ comp[c] \in {"taken", "looking"}
OneOwner ==
  \A w \in Waits :
    /\ conn[w] = "open" <=> \/ Watching(w)
                            \/ w \in choosers
                            \/ \E c \in Comps : Completing(c, w)
    /\ w \in choosers => timer[w] = "set" /\ wait[w] = "answered"
    /\ \A c \in Comps :
         Completing(c, w) => wait[w] = "answered" /\ w \notin choosers
    /\ \A c, d \in Comps : Completing(c, w) /\ Completing(d, w) => c = d

\* Every interception of the page's dialogs ends, even if the client never comes
\* back for its chooser.  uploadMu is released by every way out, so that the
\* uploads that wait for it are answered or die with the runner, unless a client
\* stalls for ever while its upload holds it: files.go:169 has no deadline.
Stalled(u) == up[u] \in {"parsing", "copying"} /\ bytes[u] <= Limit(u)
=============================================================================
