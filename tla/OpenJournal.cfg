SPECIFICATION FairSpec
CONSTANTS
  Ops = {o1}
  Workers = {w1, w2}
  Reqs = {r1, r2}
  Tabs = {t1, t2}
  NoWorker = NoWorker
  NoReq = NoReq
  NoTab = NoTab
  NoOp = NoOp
  MaxRestarts = 1
  MaxCrashes = 1
INVARIANTS JournalTypeOK OpensOnce SuccessWasAnswered
PROPERTIES RecordsKeep ImplementsOpenOnce OpensEnd
CHECK_DEADLOCK FALSE
