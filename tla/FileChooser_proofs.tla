--------------------------- MODULE FileChooser_proofs ---------------------------
(***************************************************************************)
(* Proofs about FileChooser, for any number of uploads, choosers and       *)
(* requests and any limits: the home's files and uploadMu first, then the  *)
(* registry of choosers, then both under one invariant.                    *)
(***************************************************************************)
EXTENDS FileChooser, TLAPS

-----------------------------------------------------------------------------
(* The inductive invariant *)

OneHolder == \A u, v \in Ups : Holding(u) /\ Holding(v) => u = v

\* What the place of an upload says of its file and its answer.
Phases ==
  \A u \in Ups :
    /\ up[u] \in {"free", "waiting", "walking", "parsing"} =>
         file[u] = "none" /\ bytes[u] = 0
    /\ up[u] \in {"copying", "copied", "owned"} => file[u] = "temp"
    /\ up[u] \in {"copied", "owned"} => bytes[u] = size[u] /\ bytes[u] <= Limit(u)
    /\ up[u] = "owned" => u \in chowned
    /\ up[u] = "closing" =>
         \/ reply[u] = "CREATED" /\ file[u] \in {"visible", "removed"}
         \/ reply[u] = "refused" /\ file[u] \in {"none", "temp"}

\* The home holds no more than the walk has found, the upload has copied and
\* the browser has written since.
Counted ==
  \A u \in Ups :
    up[u] \in {"parsing", "copying", "copied", "owned"} =>
      stored - bytes[u] <= used[u] + written

WholeUploads ==
  \A u \in Ups :
    /\ file[u] \in {"visible", "removed"} => WholeFile(u) /\ reply[u] = "CREATED"
    /\ up[u] = "answered" =>
         (file[u] = "none" <=> reply[u] = "refused") /\ file[u] # "temp"
    /\ file[u] = "temp" => Holding(u) \/ up[u] = "dead"

FilesInv == FilesTyped /\ OneHolder /\ Phases /\ Counted /\ WholeUploads

\* Whatever the page has been given, or a request has found, by a visible name
\* was visible.
Published == {u \in Ups : file[u] \in {"visible", "removed"}}
Shown(names) == \A u \in Ups : <<u, "visible">> \in names => u \in Published
GivenPublished ==
  /\ \A c \in Comps : Shown(looked[c])
  /\ \A w \in Waits : Shown(given[w])

ChooserInv == ChoosersTyped /\ OneOwner /\ GivenPublished
IInv == FilesInv /\ ChooserInv

-----------------------------------------------------------------------------
(* Files *)

\* Every step of the files keeps the types.
LEMMA FilesTyping ==
  ASSUME FilesTyped, FilesNext
  PROVE  FilesTyped'
<1>1. ASSUME NEW u \in Ups, NEW n \in Sizes, UploadArrives(u, n) PROVE FilesTyped'
  BY <1>1, SizesAssumption
     DEF UploadArrives, Goto, walkVars, FilesTyped, UploadPlaces
<1>2. ASSUME NEW u \in Ups, UploadLock(u) PROVE FilesTyped'
  BY <1>2 DEF UploadLock, Goto, Refuse, UnderWay, walkVars, FilesTyped, UploadPlaces
<1>3. ASSUME NEW u \in Ups, Walk(u) PROVE FilesTyped'
  BY <1>3 DEF Walk, Goto, Refuse, walkVars, FilesTyped, UploadPlaces
<1>4. ASSUME NEW u \in Ups, OpenTemp(u) PROVE FilesTyped'
  BY <1>4 DEF OpenTemp, Goto, Refuse, walkVars, FilesTyped, UploadPlaces
<1>5. ASSUME NEW u \in Ups, Copy(u) PROVE FilesTyped'
  BY <1>5 DEF Copy, upVars, walkVars, FilesTyped, UploadPlaces
<1>6. ASSUME NEW u \in Ups, EndCopy(u) PROVE FilesTyped'
  BY <1>6 DEF EndCopy, Goto, walkVars, FilesTyped, UploadPlaces
<1>7. ASSUME NEW u \in Ups, FailCopy(u) PROVE FilesTyped'
  BY <1>7 DEF FailCopy, Refuse, walkVars, FilesTyped, UploadPlaces
<1>8. ASSUME NEW u \in Ups, Chown(u) PROVE FilesTyped'
  BY <1>8 DEF Chown, Goto, Refuse, walkVars, FilesTyped, UploadPlaces
<1>9. ASSUME NEW u \in Ups, Rename(u) PROVE FilesTyped'
  BY <1>9 DEF Rename, Refuse, walkVars, FilesTyped, UploadPlaces
<1>10. ASSUME NEW u \in Ups, Close(u) PROVE FilesTyped'
  BY <1>10 DEF Close, Goto, FilesTyped, UploadPlaces
<1>11. ASSUME NEW u \in Ups, Delete(u) PROVE FilesTyped'
  BY <1>11 DEF Delete, Walking, upVars, FilesTyped, UploadPlaces
<1>12. ASSUME BrowserWrites PROVE FilesTyped'
  BY <1>12 DEF BrowserWrites, UnderWay, upVars, FilesTyped, UploadPlaces
<1>13. ASSUME BrowserRemoves PROVE FilesTyped'
  BY <1>13 DEF BrowserRemoves, Walking, upVars, FilesTyped, UploadPlaces
<1>14. ASSUME RunnerDies PROVE FilesTyped'
  BY <1>14 DEF RunnerDies, FilesTyped, UploadPlaces
<1>15. ASSUME BrowserMoves PROVE FilesTyped'
  BY <1>15 DEF BrowserMoves, Walking, upVars, FilesTyped, UploadPlaces
<1>16. ASSUME NEW u \in Ups, Excess(u) PROVE FilesTyped'
  BY <1>16 DEF Excess, Refuse, walkVars, FilesTyped, UploadPlaces
<1> QED
  BY <1>1, <1>2, <1>3, <1>4, <1>5, <1>6, <1>7, <1>8, <1>9, <1>10, <1>11, <1>12,
     <1>13, <1>14, <1>15, <1>16
     DEF FilesNext, UploadStep, ClientStep, ServerStep

\* Every step of the files keeps uploadMu with one holder.
LEMMA FilesLocked ==
  ASSUME FilesTyped, OneHolder, FilesNext
  PROVE  OneHolder'
<1>1. ASSUME NEW u \in Ups, NEW n \in Sizes, UploadArrives(u, n) PROVE OneHolder'
  BY <1>1
     DEF UploadArrives, Goto, walkVars, FilesTyped, UploadPlaces, OneHolder, Holding
<1>2. ASSUME NEW u \in Ups, UploadLock(u) PROVE OneHolder'
  BY <1>2
     DEF UploadLock, Goto, Refuse, UnderWay, walkVars, FilesTyped, UploadPlaces,
         OneHolder, Holding
<1>3. ASSUME NEW u \in Ups, Walk(u) PROVE OneHolder'
  BY <1>3
     DEF Walk, Goto, Refuse, walkVars, FilesTyped, UploadPlaces, OneHolder, Holding
<1>4. ASSUME NEW u \in Ups, OpenTemp(u) PROVE OneHolder'
  BY <1>4
     DEF OpenTemp, Goto, Refuse, walkVars, FilesTyped, UploadPlaces, OneHolder,
         Holding
<1>5. ASSUME NEW u \in Ups, Copy(u) PROVE OneHolder'
  BY <1>5 DEF Copy, upVars, walkVars, FilesTyped, UploadPlaces, OneHolder, Holding
<1>6. ASSUME NEW u \in Ups, EndCopy(u) PROVE OneHolder'
  BY <1>6 DEF EndCopy, Goto, walkVars, FilesTyped, UploadPlaces, OneHolder, Holding
<1>7. ASSUME NEW u \in Ups, FailCopy(u) PROVE OneHolder'
  BY <1>7
     DEF FailCopy, Refuse, walkVars, FilesTyped, UploadPlaces, OneHolder, Holding
<1>8. ASSUME NEW u \in Ups, Chown(u) PROVE OneHolder'
  BY <1>8
     DEF Chown, Goto, Refuse, walkVars, FilesTyped, UploadPlaces, OneHolder, Holding
<1>9. ASSUME NEW u \in Ups, Rename(u) PROVE OneHolder'
  BY <1>9 DEF Rename, Refuse, walkVars, FilesTyped, UploadPlaces, OneHolder, Holding
<1>10. ASSUME NEW u \in Ups, Close(u) PROVE OneHolder'
  BY <1>10 DEF Close, Goto, FilesTyped, UploadPlaces, OneHolder, Holding
<1>11. ASSUME NEW u \in Ups, Delete(u) PROVE OneHolder'
  BY <1>11 DEF Delete, Walking, upVars, FilesTyped, UploadPlaces, OneHolder, Holding
<1>12. ASSUME BrowserWrites PROVE OneHolder'
  BY <1>12
     DEF BrowserWrites, UnderWay, upVars, FilesTyped, UploadPlaces, OneHolder,
         Holding
<1>13. ASSUME BrowserRemoves PROVE OneHolder'
  BY <1>13
     DEF BrowserRemoves, Walking, upVars, FilesTyped, UploadPlaces, OneHolder,
         Holding
<1>14. ASSUME RunnerDies PROVE OneHolder'
  BY <1>14 DEF RunnerDies, FilesTyped, UploadPlaces, OneHolder, Holding
<1>15. ASSUME BrowserMoves PROVE OneHolder'
  BY <1>15
     DEF BrowserMoves, Walking, upVars, FilesTyped, UploadPlaces, OneHolder,
         Holding
<1>16. ASSUME NEW u \in Ups, Excess(u) PROVE OneHolder'
  BY <1>16
     DEF Excess, Refuse, walkVars, FilesTyped, UploadPlaces, OneHolder, Holding
<1> QED
  BY <1>1, <1>2, <1>3, <1>4, <1>5, <1>6, <1>7, <1>8, <1>9, <1>10, <1>11, <1>12,
     <1>13, <1>14, <1>15, <1>16
     DEF FilesNext, UploadStep, ClientStep, ServerStep

\* Every step of the files keeps what the place of an upload says of its file.
LEMMA FilesPhased ==
  ASSUME FilesTyped, OneHolder, Phases, FilesNext
  PROVE  Phases'
<1>1. ASSUME NEW u \in Ups, NEW n \in Sizes, UploadArrives(u, n) PROVE Phases'
  <2>1. up[u] = "free"
    BY <1>1 DEF UploadArrives, IsNewUpload
  <2> QED
    BY <1>1, <2>1
       DEF UploadArrives, Goto, walkVars, FilesTyped, UploadPlaces, OneHolder, Phases,
           Holding, Limit
<1>2. ASSUME NEW u \in Ups, UploadLock(u) PROVE Phases'
  BY <1>2
     DEF UploadLock, Goto, Refuse, UnderWay, walkVars, FilesTyped, UploadPlaces,
         OneHolder, Phases, Holding, Limit
<1>3. ASSUME NEW u \in Ups, Walk(u) PROVE Phases'
  BY <1>3
     DEF Walk, Goto, Refuse, walkVars, FilesTyped, UploadPlaces, OneHolder, Phases,
         Holding, Limit
<1>4. ASSUME NEW u \in Ups, OpenTemp(u) PROVE Phases'
  BY <1>4
     DEF OpenTemp, Goto, Refuse, walkVars, FilesTyped, UploadPlaces, OneHolder,
         Phases, Holding, Limit
<1>5. ASSUME NEW u \in Ups, Copy(u) PROVE Phases'
  BY <1>5
     DEF Copy, upVars, walkVars, FilesTyped, UploadPlaces, OneHolder, Phases,
         Holding, Limit
<1>6. ASSUME NEW u \in Ups, EndCopy(u) PROVE Phases'
  BY <1>6, LimitsAssumption
     DEF EndCopy, Goto, FilesTyped, OneHolder, Phases, Holding, Limit
<1>7. ASSUME NEW u \in Ups, FailCopy(u) PROVE Phases'
  BY <1>7
     DEF FailCopy, Refuse, walkVars, FilesTyped, UploadPlaces, OneHolder, Phases,
         Holding, Limit
<1>8. ASSUME NEW u \in Ups, Chown(u) PROVE Phases'
  BY <1>8
     DEF Chown, Goto, Refuse, walkVars, FilesTyped, UploadPlaces, OneHolder, Phases,
         Holding, Limit
<1>9. ASSUME NEW u \in Ups, Rename(u) PROVE Phases'
  BY <1>9
     DEF Rename, Refuse, walkVars, FilesTyped, UploadPlaces, OneHolder, Phases,
         Holding, Limit
<1>10. ASSUME NEW u \in Ups, Close(u) PROVE Phases'
  BY <1>10
     DEF Close, Goto, FilesTyped, UploadPlaces, OneHolder, Phases, Holding, Limit
<1>11. ASSUME NEW u \in Ups, Delete(u) PROVE Phases'
  BY <1>11
     DEF Delete, Walking, upVars, FilesTyped, UploadPlaces, OneHolder, Phases,
         Holding, Limit
<1>12. ASSUME BrowserWrites PROVE Phases'
  BY <1>12
     DEF BrowserWrites, UnderWay, upVars, FilesTyped, UploadPlaces, OneHolder,
         Phases, Holding, Limit
<1>13. ASSUME BrowserRemoves PROVE Phases'
  BY <1>13
     DEF BrowserRemoves, Walking, upVars, FilesTyped, UploadPlaces, OneHolder,
         Phases, Holding, Limit
<1>14. ASSUME RunnerDies PROVE Phases'
  BY <1>14
     DEF RunnerDies, FilesTyped, UploadPlaces, OneHolder, Phases, Holding, Limit
<1>15. ASSUME BrowserMoves PROVE Phases'
  BY <1>15
     DEF BrowserMoves, Walking, upVars, FilesTyped, UploadPlaces, OneHolder,
         Phases, Holding, Limit
<1>16. ASSUME NEW u \in Ups, Excess(u) PROVE Phases'
  BY <1>16
     DEF Excess, Refuse, walkVars, FilesTyped, UploadPlaces, OneHolder, Phases,
         Holding, Limit
<1> QED
  BY <1>1, <1>2, <1>3, <1>4, <1>5, <1>6, <1>7, <1>8, <1>9, <1>10, <1>11, <1>12,
     <1>13, <1>14, <1>15, <1>16
     DEF FilesNext, UploadStep, ClientStep, ServerStep

\* Every step of the files keeps the bound on what the home holds.
LEMMA FilesCounts ==
  ASSUME FilesTyped, OneHolder, Phases, Counted, FilesNext
  PROVE  Counted'
<1>1. ASSUME NEW u \in Ups, NEW n \in Sizes, UploadArrives(u, n) PROVE Counted'
  BY <1>1, LimitsAssumption
     DEF UploadArrives, Goto, walkVars, FilesTyped, UploadPlaces, OneHolder, Phases,
         Counted, Holding
<1>2. ASSUME NEW u \in Ups, UploadLock(u) PROVE Counted'
  BY <1>2, LimitsAssumption
     DEF UploadLock, Goto, Refuse, UnderWay, walkVars, FilesTyped, UploadPlaces,
         OneHolder, Phases, Counted, Holding
<1>3. ASSUME NEW u \in Ups, Walk(u) PROVE Counted'
  BY <1>3, LimitsAssumption
     DEF Walk, Goto, Refuse, walkVars, FilesTyped, UploadPlaces, OneHolder, Phases,
         Counted, Holding
<1>4. ASSUME NEW u \in Ups, OpenTemp(u) PROVE Counted'
  BY <1>4, LimitsAssumption
     DEF OpenTemp, Goto, Refuse, walkVars, FilesTyped, UploadPlaces, OneHolder,
         Phases, Counted, Holding
<1>5. ASSUME NEW u \in Ups, Copy(u) PROVE Counted'
  BY <1>5, LimitsAssumption
     DEF Copy, upVars, walkVars, FilesTyped, UploadPlaces, OneHolder, Phases,
         Counted, Holding
<1>6. ASSUME NEW u \in Ups, EndCopy(u) PROVE Counted'
  BY <1>6, LimitsAssumption
     DEF EndCopy, Goto, walkVars, FilesTyped, UploadPlaces, OneHolder, Phases,
         Counted, Holding
<1>7. ASSUME NEW u \in Ups, FailCopy(u) PROVE Counted'
  BY <1>7, LimitsAssumption
     DEF FailCopy, Refuse, walkVars, FilesTyped, UploadPlaces, OneHolder, Phases,
         Counted, Holding
<1>8. ASSUME NEW u \in Ups, Chown(u) PROVE Counted'
  BY <1>8, LimitsAssumption
     DEF Chown, Goto, Refuse, walkVars, FilesTyped, UploadPlaces, OneHolder, Phases,
         Counted, Holding
<1>9. ASSUME NEW u \in Ups, Rename(u) PROVE Counted'
  BY <1>9, LimitsAssumption
     DEF Rename, Refuse, walkVars, FilesTyped, UploadPlaces, OneHolder, Phases,
         Counted, Holding
<1>10. ASSUME NEW u \in Ups, Close(u) PROVE Counted'
  BY <1>10, LimitsAssumption
     DEF Close, Goto, FilesTyped, UploadPlaces, OneHolder, Phases, Counted, Holding
<1>11. ASSUME NEW u \in Ups, Delete(u) PROVE Counted'
  BY <1>11, LimitsAssumption
     DEF Delete, Walking, upVars, FilesTyped, UploadPlaces, OneHolder, Phases,
         Counted, Holding
<1>12. ASSUME BrowserWrites PROVE Counted'
  BY <1>12, LimitsAssumption
     DEF BrowserWrites, UnderWay, upVars, FilesTyped, UploadPlaces, OneHolder,
         Phases, Counted, Holding
<1>13. ASSUME BrowserRemoves PROVE Counted'
  BY <1>13, LimitsAssumption
     DEF BrowserRemoves, Walking, upVars, FilesTyped, UploadPlaces, OneHolder,
         Phases, Counted, Holding
<1>14. ASSUME RunnerDies PROVE Counted'
  BY <1>14, LimitsAssumption
     DEF RunnerDies, FilesTyped, UploadPlaces, OneHolder, Phases, Counted, Holding
<1>15. ASSUME BrowserMoves PROVE Counted'
  BY <1>15, LimitsAssumption
     DEF BrowserMoves, Walking, upVars, FilesTyped, UploadPlaces, OneHolder,
         Phases, Counted, Holding
<1>16. ASSUME NEW u \in Ups, Excess(u) PROVE Counted'
  BY <1>16, LimitsAssumption
     DEF Excess, Refuse, walkVars, FilesTyped, UploadPlaces, OneHolder, Phases,
         Counted, Holding
<1> QED
  BY <1>1, <1>2, <1>3, <1>4, <1>5, <1>6, <1>7, <1>8, <1>9, <1>10, <1>11, <1>12,
     <1>13, <1>14, <1>15, <1>16
     DEF FilesNext, UploadStep, ClientStep, ServerStep

\* Every step of the files leaves the visible files whole and the answers true.
LEMMA FilesWholes ==
  ASSUME FilesTyped, Phases, WholeUploads, FilesNext
  PROVE  WholeUploads'
<1>1. ASSUME NEW u \in Ups, NEW n \in Sizes, UploadArrives(u, n) PROVE WholeUploads'
  <2>1. up[u] = "free"
    BY <1>1 DEF UploadArrives, IsNewUpload
  <2> QED
    BY <1>1, <2>1
       DEF UploadArrives, Goto, walkVars, FilesTyped, UploadPlaces, Phases,
           WholeUploads, WholeFile, Holding
<1>2. ASSUME NEW u \in Ups, UploadLock(u) PROVE WholeUploads'
  BY <1>2
     DEF UploadLock, Goto, Refuse, UnderWay, walkVars, FilesTyped, UploadPlaces,
         Phases, WholeUploads, WholeFile, Holding
<1>3. ASSUME NEW u \in Ups, Walk(u) PROVE WholeUploads'
  BY <1>3
     DEF Walk, Goto, Refuse, walkVars, FilesTyped, UploadPlaces, Phases,
         WholeUploads, WholeFile, Holding
<1>4. ASSUME NEW u \in Ups, OpenTemp(u) PROVE WholeUploads'
  BY <1>4
     DEF OpenTemp, Goto, Refuse, walkVars, FilesTyped, UploadPlaces, Phases,
         WholeUploads, WholeFile, Holding
<1>5. ASSUME NEW u \in Ups, Copy(u) PROVE WholeUploads'
  BY <1>5
     DEF Copy, upVars, walkVars, FilesTyped, UploadPlaces, Phases, WholeUploads,
         WholeFile, Holding
<1>6. ASSUME NEW u \in Ups, EndCopy(u) PROVE WholeUploads'
  BY <1>6
     DEF EndCopy, Goto, walkVars, FilesTyped, UploadPlaces, Phases, WholeUploads,
         WholeFile, Holding
<1>7. ASSUME NEW u \in Ups, FailCopy(u) PROVE WholeUploads'
  BY <1>7
     DEF FailCopy, Refuse, walkVars, FilesTyped, UploadPlaces, Phases, WholeUploads,
         WholeFile, Holding
<1>8. ASSUME NEW u \in Ups, Chown(u) PROVE WholeUploads'
  BY <1>8
     DEF Chown, Goto, Refuse, walkVars, FilesTyped, UploadPlaces, Phases,
         WholeUploads, WholeFile, Holding
<1>9. ASSUME NEW u \in Ups, Rename(u) PROVE WholeUploads'
  BY <1>9
     DEF Rename, Refuse, walkVars, FilesTyped, UploadPlaces, Phases, WholeUploads,
         WholeFile, Holding
<1>10. ASSUME NEW u \in Ups, Close(u) PROVE WholeUploads'
  BY <1>10
     DEF Close, Goto, FilesTyped, UploadPlaces, Phases, WholeUploads, WholeFile,
         Holding
<1>11. ASSUME NEW u \in Ups, Delete(u) PROVE WholeUploads'
  BY <1>11
     DEF Delete, Walking, upVars, FilesTyped, UploadPlaces, Phases, WholeUploads,
         WholeFile, Holding
<1>12. ASSUME BrowserWrites PROVE WholeUploads'
  BY <1>12
     DEF BrowserWrites, UnderWay, upVars, FilesTyped, UploadPlaces, Phases,
         WholeUploads, WholeFile, Holding
<1>13. ASSUME BrowserRemoves PROVE WholeUploads'
  BY <1>13
     DEF BrowserRemoves, Walking, upVars, FilesTyped, UploadPlaces, Phases,
         WholeUploads, WholeFile, Holding
<1>14. ASSUME RunnerDies PROVE WholeUploads'
  BY <1>14
     DEF RunnerDies, FilesTyped, UploadPlaces, Phases, WholeUploads, WholeFile,
         Holding
<1>15. ASSUME BrowserMoves PROVE WholeUploads'
  BY <1>15
     DEF BrowserMoves, Walking, upVars, FilesTyped, UploadPlaces, Phases,
         WholeUploads, WholeFile, Holding
<1>16. ASSUME NEW u \in Ups, Excess(u) PROVE WholeUploads'
  BY <1>16
     DEF Excess, Refuse, walkVars, FilesTyped, UploadPlaces, Phases, WholeUploads,
         WholeFile, Holding
<1> QED
  BY <1>1, <1>2, <1>3, <1>4, <1>5, <1>6, <1>7, <1>8, <1>9, <1>10, <1>11, <1>12,
     <1>13, <1>14, <1>15, <1>16
     DEF FilesNext, UploadStep, ClientStep, ServerStep

-----------------------------------------------------------------------------
(* Choosers *)

\* Every step of the choosers keeps the types.
LEMMA ChooserTyped ==
  ASSUME ChoosersTyped, ChooserNext
  PROVE  ChoosersTyped'
<1>1. ASSUME NEW w \in Waits, Dial(w) PROVE ChoosersTyped'
  BY <1>1 DEF Dial, compVars, ChoosersTyped
<1>2. ASSUME NEW w \in Waits, Intercept(w) PROVE ChoosersTyped'
  BY <1>2 DEF Intercept, compVars, ChoosersTyped
<1>3. ASSUME NEW w \in Waits, WaitFails(w) PROVE ChoosersTyped'
  BY <1>3 DEF WaitFails, CloseConn, compVars, ChoosersTyped
<1>4. ASSUME NEW w \in Waits, DialogOpens(w) PROVE ChoosersTyped'
  BY <1>4 DEF DialogOpens, compVars, ChoosersTyped
<1>5. ASSUME NEW w \in Waits, MinutePasses(w) PROVE ChoosersTyped'
  BY <1>5 DEF MinutePasses, compVars, ChoosersTyped
<1>6. ASSUME NEW w \in Waits, TimerFires(w) PROVE ChoosersTyped'
  BY <1>6 DEF TimerFires, CloseConn, compVars, ChoosersTyped
<1>7. ASSUME NEW c \in Comps, NEW w \in Waits, NEW names \in SUBSET Names,
             Take(c, w, names)
      PROVE  ChoosersTyped'
  BY <1>7, NoChooserAssumption DEF Take, ChoosersTyped
<1>8. ASSUME NEW c \in Comps, CheckExpiry(c) PROVE ChoosersTyped'
  BY <1>8 DEF CheckExpiry, CloseConn, EndComp, ChoosersTyped
<1>9. ASSUME NEW c \in Comps, NEW name \in Names, Look(c, name) PROVE ChoosersTyped'
  BY <1>9 DEF Look, CloseConn, EndComp, ChoosersTyped
<1>10. ASSUME NEW c \in Comps, SetFiles(c) PROVE ChoosersTyped'
  BY <1>10 DEF SetFiles, CloseConn, EndComp, ChoosersTyped
<1> QED
  BY <1>1, <1>2, <1>3, <1>4, <1>5, <1>6, <1>7, <1>8, <1>9, <1>10
     DEF ChooserNext, ChooserStep

\* A completing request that ends closes the connection that it owned.
LEMMA EndCompOwned ==
  ASSUME ChoosersTyped, OneOwner, NEW c \in Comps, EndComp(c),
         comp[c] \in {"taken", "looking"}
  PROVE  OneOwner'
<1>1. CASE took[c] = NoChooser
  BY <1>1, NoChooserAssumption
     DEF EndComp, ChoosersTyped, OneOwner, Watching, Completing
<1>2. CASE took[c] \in Waits
  BY <1>2, NoChooserAssumption
     DEF EndComp, CloseConn, ChoosersTyped, OneOwner, Watching, Completing
<1> QED
  BY <1>1, <1>2 DEF ChoosersTyped

\* Every step of the choosers leaves each open connection to one owner.
LEMMA ChooserOwned ==
  ASSUME ChoosersTyped, OneOwner, ChooserNext
  PROVE  OneOwner'
<1>1. ASSUME NEW w \in Waits, Dial(w) PROVE OneOwner'
  BY <1>1 DEF Dial, compVars, ChoosersTyped, OneOwner, Watching, Completing
<1>2. ASSUME NEW w \in Waits, Intercept(w) PROVE OneOwner'
  BY <1>2 DEF Intercept, compVars, ChoosersTyped, OneOwner, Watching, Completing
<1>3. ASSUME NEW w \in Waits, WaitFails(w) PROVE OneOwner'
  BY <1>3
     DEF WaitFails, CloseConn, compVars, ChoosersTyped, OneOwner, Watching,
         Completing
<1>4. ASSUME NEW w \in Waits, DialogOpens(w) PROVE OneOwner'
  BY <1>4 DEF DialogOpens, compVars, ChoosersTyped, OneOwner, Watching, Completing
<1>5. ASSUME NEW w \in Waits, MinutePasses(w) PROVE OneOwner'
  BY <1>5 DEF MinutePasses, compVars, ChoosersTyped, OneOwner, Watching, Completing
<1>6. ASSUME NEW w \in Waits, TimerFires(w) PROVE OneOwner'
  BY <1>6
     DEF TimerFires, CloseConn, compVars, ChoosersTyped, OneOwner, Watching,
         Completing
<1>7. ASSUME NEW c \in Comps, NEW w \in Waits, NEW names \in SUBSET Names,
             Take(c, w, names)
      PROVE  OneOwner'
  <2>1. comp[c] = "free"
    BY <1>7 DEF Take, IsNewComp
  <2> QED
    BY <1>7, <2>1, NoChooserAssumption
       DEF Take, ChoosersTyped, OneOwner, Watching, Completing
<1>8. ASSUME NEW c \in Comps, CheckExpiry(c) PROVE OneOwner'
  <2>1. CASE EndComp(c)
    BY <1>8, <2>1, EndCompOwned DEF CheckExpiry
  <2>2. CASE ~EndComp(c)
    BY <1>8, <2>2 DEF CheckExpiry, ChoosersTyped, OneOwner, Watching, Completing
  <2> QED
    BY <2>1, <2>2
<1>9. ASSUME NEW c \in Comps, NEW name \in Names, Look(c, name) PROVE OneOwner'
  <2>1. CASE EndComp(c)
    BY <1>9, <2>1, EndCompOwned DEF Look
  <2>2. CASE ~EndComp(c)
    BY <1>9, <2>2 DEF Look, ChoosersTyped, OneOwner, Watching, Completing
  <2> QED
    BY <2>1, <2>2
<1>10. ASSUME NEW c \in Comps, SetFiles(c) PROVE OneOwner'
  BY <1>10, EndCompOwned DEF SetFiles
<1> QED
  BY <1>1, <1>2, <1>3, <1>4, <1>5, <1>6, <1>7, <1>8, <1>9, <1>10
     DEF ChooserNext, ChooserStep

\* Every step of the choosers gives the page only published files.
LEMMA ChooserGiven ==
  ASSUME ChoosersTyped, GivenPublished, ChooserNext, UNCHANGED file
  PROVE  GivenPublished'
<1>1. ASSUME NEW w \in Waits, Dial(w) PROVE GivenPublished'
  BY <1>1 DEF Dial, compVars, ChoosersTyped, GivenPublished, Shown, Published
<1>2. ASSUME NEW w \in Waits, Intercept(w) PROVE GivenPublished'
  BY <1>2 DEF Intercept, compVars, ChoosersTyped, GivenPublished, Shown, Published
<1>3. ASSUME NEW w \in Waits, WaitFails(w) PROVE GivenPublished'
  BY <1>3
     DEF WaitFails, CloseConn, compVars, ChoosersTyped, GivenPublished, Shown, Published
<1>4. ASSUME NEW w \in Waits, DialogOpens(w) PROVE GivenPublished'
  BY <1>4 DEF DialogOpens, compVars, ChoosersTyped, GivenPublished, Shown, Published
<1>5. ASSUME NEW w \in Waits, MinutePasses(w) PROVE GivenPublished'
  BY <1>5 DEF MinutePasses, compVars, ChoosersTyped, GivenPublished, Shown, Published
<1>6. ASSUME NEW w \in Waits, TimerFires(w) PROVE GivenPublished'
  BY <1>6
     DEF TimerFires, CloseConn, compVars, ChoosersTyped, GivenPublished, Shown,
         Published
<1>7. ASSUME NEW c \in Comps, NEW w \in Waits, NEW names \in SUBSET Names,
             Take(c, w, names)
      PROVE  GivenPublished'
  BY <1>7, NoChooserAssumption DEF Take, ChoosersTyped, GivenPublished, Shown, Published
<1>8. ASSUME NEW c \in Comps, CheckExpiry(c) PROVE GivenPublished'
  BY <1>8
     DEF CheckExpiry, CloseConn, EndComp, ChoosersTyped, GivenPublished, Shown,
         Published
<1>9. ASSUME NEW c \in Comps, NEW name \in Names, Look(c, name) PROVE GivenPublished'
  BY <1>9 DEF Look, CloseConn, EndComp, ChoosersTyped, GivenPublished, Shown, Published
<1>10. ASSUME NEW c \in Comps, SetFiles(c) PROVE GivenPublished'
  BY <1>10
     DEF SetFiles, CloseConn, EndComp, ChoosersTyped, GivenPublished, Shown, Published
<1> QED
  BY <1>1, <1>2, <1>3, <1>4, <1>5, <1>6, <1>7, <1>8, <1>9, <1>10
     DEF ChooserNext, ChooserStep

-----------------------------------------------------------------------------
(* Both *)

LEMMA InitInv == Init => IInv
<1> SUFFICES ASSUME Init PROVE IInv
  OBVIOUS
<1>1. FilesTyped
  BY SizesAssumption DEF Init, FilesInit, FilesTyped, UploadPlaces
<1>2. OneHolder /\ Phases /\ Counted /\ WholeUploads
  BY DEF Init, FilesInit, OneHolder, Phases, Counted, WholeUploads, Holding
<1>3. ChoosersTyped
  BY DEF Init, ChooserInit, ChoosersTyped
<1>4. OneOwner /\ GivenPublished
  BY NoChooserAssumption
     DEF Init, ChooserInit, OneOwner, GivenPublished, Shown, Watching, Completing
<1> QED
  BY <1>1, <1>2, <1>3, <1>4 DEF IInv, FilesInv, ChooserInv

\* A published file stays published.
LEMMA FilesStayPublished ==
  ASSUME FilesTyped, OneHolder, Phases, FilesNext
  PROVE  Published \subseteq Published'
<1>1. ASSUME NEW u \in Ups, UploadStep(u) PROVE Published \subseteq Published'
  BY <1>1 DEF UploadStep, ClientStep, ServerStep, UploadLock, Walk, OpenTemp, Copy,
     EndCopy, Excess, FailCopy, Chown, Rename, Close, Goto, Refuse, upVars,
     FilesTyped, Phases, Published
<1>2. ASSUME NEW u \in Ups, Delete(u) PROVE Published \subseteq Published'
  BY <1>2 DEF Delete, FilesTyped, Published
<1>3. CASE \/ \E u \in Ups, n \in Sizes : UploadArrives(u, n)
           \/ BrowserWrites \/ BrowserRemoves \/ BrowserMoves \/ RunnerDies
  BY <1>3 DEF UploadArrives, BrowserWrites, BrowserRemoves, BrowserMoves, RunnerDies,
     Published
<1> QED
  BY <1>1, <1>2, <1>3 DEF FilesNext

LEMMA StepInv == IInv /\ [Next]_vars => IInv'
<1> SUFFICES ASSUME IInv, [Next]_vars PROVE IInv'
  OBVIOUS
<1> USE DEF IInv, FilesInv, ChooserInv
<1>1. CASE FilesNext /\ UNCHANGED chooserVars
  <2>1. FilesInv'
    BY <1>1, FilesTyping, FilesLocked, FilesPhased, FilesCounts, FilesWholes
  <2>2. ChoosersTyped' /\ OneOwner'
    BY <1>1 DEF ChoosersTyped, OneOwner, Watching, Completing, chooserVars, compVars
  <2>3. GivenPublished'
    BY <1>1, FilesStayPublished DEF GivenPublished, Shown, chooserVars, compVars
  <2> QED
    BY <2>1, <2>2, <2>3
<1>2. CASE ChooserNext /\ UNCHANGED filesVars
  <2>1. FilesInv'
    <3>1. UNCHANGED <<stored, browser, written, shrunk, up, size, used, file,
                      bytes, chowned, reply, crashes>>
      BY <1>2 DEF filesVars, upVars, walkVars
    <3> QED
      BY <3>1 DEF FilesTyped, OneHolder, Phases, Counted, WholeUploads, WholeFile,
         Holding, Limit
  <2>2. UNCHANGED file
    BY <1>2 DEF filesVars
  <2> QED
    BY <1>2, <2>1, <2>2, ChooserTyped, ChooserOwned, ChooserGiven
<1>3. CASE UNCHANGED vars
  <2>1. UNCHANGED filesVars /\ UNCHANGED chooserVars
    BY <1>3 DEF vars
  <2>2. UNCHANGED <<stored, browser, written, shrunk, up, size, used, file,
                    bytes, chowned, reply, crashes>>
    BY <2>1 DEF filesVars, upVars, walkVars
  <2>3. FilesInv'
    BY <2>2 DEF FilesTyped, OneHolder, Phases, Counted, WholeUploads, WholeFile,
       Holding, Limit
  <2>4. ChoosersTyped' /\ OneOwner'
    BY <2>1 DEF ChoosersTyped, OneOwner, Watching, Completing, chooserVars, compVars
  <2>5. GivenPublished'
    BY <2>1, <2>2 DEF GivenPublished, Shown, Published, chooserVars, compVars
  <2> QED
    BY <2>3, <2>4, <2>5
<1> QED
  BY <1>1, <1>2, <1>3 DEF Next

\* The invariant of every reachable state, on which the theorems below rest.
THEOREM TransferInvariant == Spec => []IInv
<1> QED
  BY InitInv, StepInv, PTL DEF Spec

\* internal/files/files.go:169: in every reachable state variables have their
\* types and one upload at most is between uploadMu's Lock and Unlock.
THEOREM TransferTypeCorrect == Spec => []TransferTypeOK
<1>1. IInv => TransferTypeOK
  BY DEF IInv, FilesInv, ChooserInv, TransferTypeOK, OneHolder
<1> QED
  BY <1>1, TransferInvariant, PTL

\* internal/files/files.go:201-231: what is visible in Uploads, and what a page
\* is given by a visible name, arrived whole, and the answers of uploads are true.
THEOREM OnlyWholeFilesHolds == Spec => []OnlyWholeFiles
<1>1. IInv => OnlyWholeFiles
  BY DEF IInv, FilesInv, ChooserInv, WholeUploads, GivenPublished, Shown, Published,
     OnlyWholeFiles
<1> QED
  BY <1>1, TransferInvariant, PTL

\* internal/agent/agent.go:458 and 487-498: an open connection to Chrome has
\* exactly one owner that is to close it.
THEOREM OneOwnerHolds == Spec => []OneOwner
<1>1. IInv => OneOwner
  BY DEF IInv, ChooserInv
<1> QED
  BY <1>1, TransferInvariant, PTL

\* A file appears only by the renaming that ends its upload.
LEMMA OnlyRenameShows ==
  ASSUME FilesTyped, Phases, FilesNext, NEW u \in Ups,
         file[u] # "visible", file'[u] = "visible"
  PROVE  Rename(u) /\ up[u] = "owned" /\ UNCHANGED stored
<1>1. ASSUME NEW v \in Ups, UploadStep(v) PROVE Rename(v) /\ v = u
  BY <1>1 DEF UploadStep, ClientStep, ServerStep, UploadLock, Walk, OpenTemp, Copy,
     EndCopy, Excess, FailCopy, Chown, Rename, Close, Goto, Refuse, upVars, FilesTyped
<1>2. ASSUME NEW v \in Ups, Delete(v) PROVE FALSE
  BY <1>2 DEF Delete, FilesTyped
<1>3. CASE \/ \E v \in Ups, n \in Sizes : UploadArrives(v, n)
           \/ BrowserWrites \/ BrowserRemoves \/ BrowserMoves \/ RunnerDies
  BY <1>3 DEF UploadArrives, BrowserWrites, BrowserRemoves, BrowserMoves, RunnerDies
<1>4. Rename(u)
  BY <1>1, <1>2, <1>3 DEF FilesNext
<1> QED
  BY <1>4 DEF Rename, Refuse

\* docs/architecture.md:60: however uploads, deletions, the browser and crashes
\* interleave, no upload takes the home past its limit by its own bytes.
THEOREM UploadsKeepQuotaHolds == Spec => UploadsKeepQuota
<1>1. ASSUME IInv, Next, NEW u \in Ups, file[u] # "visible", file'[u] = "visible"
      PROVE  stored' <= SoftLimit + written
  <2>1. FilesNext
    <3>1. UNCHANGED filesVars => UNCHANGED file
      BY DEF filesVars
    <3> QED
      BY <1>1, <3>1 DEF Next
  <2>2. up[u] = "owned" /\ UNCHANGED stored
    BY <1>1, <2>1, OnlyRenameShows DEF IInv, FilesInv
  <2>3. stored - bytes[u] <= used[u] + written
    BY <1>1, <2>2 DEF IInv, FilesInv, Counted
  <2>4. bytes[u] <= SoftLimit - used[u]
    BY <1>1, <2>2, LimitsAssumption DEF IInv, FilesInv, Phases, FilesTyped, Limit
  <2> QED
    BY <1>1, <2>2, <2>3, <2>4, LimitsAssumption DEF IInv, FilesInv, FilesTyped
<1>2. UNCHANGED vars => UNCHANGED file
  BY DEF vars, filesVars
<1>3. IInv /\ [Next]_vars =>
        [\A u \in Ups : file[u] # "visible" /\ file'[u] = "visible"
                          => stored' <= SoftLimit + written]_vars
  BY <1>1
<1> QED
  BY <1>3, TransferInvariant, PTL DEF Spec, UploadsKeepQuota
===============================================================================
